# s4-logs: TLA+ models and proofs

s4-logs moves logs out of CloudWatch into S3.  **Mode A** (`s4logs drain`)
copies a log group window by window, writes a manifest per window, repairs
windows that got late events (`--reconcile`) and, behind a gate, shortens the
group's retention so that CloudWatch deletes what is archived.  **Mode B**
(`s4logs serve`) is a gateway that speaks PutLogEvents, buffers events with an
optional write-ahead log and stores them in S3 itself.  `grep` and `restore`
read the archive.

In both modes the promise is about data that is about to exist in one place
only: an event acknowledged by the gateway, or one that CloudWatch may delete
after the gate, must be in S3 or recoverable.  That is what the models are about.

## Inventory

| Part | State | Operations | What makes it correct |
|---|---|---|---|
| Gateway buffer (`s4logs-gateway/src/buffer.rs`) | map of buffers per (group, UTC day), ready bit | push a batch, reserve room, take, flush, reinsert, sweep by age, replay, flush all | an acknowledged record is never lost silently; cap; every record reaches S3 |
| WAL (`wal.rs`) | segment files, dirty flag | create, append, sync, delete, scan | a synced line survives; names never collide; a record is never only in memory |
| Server (`lib.rs`) | phases of the process | replay, serve, sweep loop, stop, final flush | replay before serving; an in-flight flush is not cut off |
| Middleware and readiness (`auth.rs`, `sink.rs`, `handlers.rs`) | cached outcome of the last probe, its lock | verify a SigV4 signature, limit a request, answer `/ready` | exactly authentic requests pass; one probe per TTL, no stale answer |
| Handlers, registry, routing (`handlers.rs`, `registry.rs`, `routing.rs`, `forward.rs`) | known groups and streams, routes | Put, Create, Describe, forward to CloudWatch | what is answered was recorded and routed; pages list each name once |
| Drain job (`s4logs-drain/src/job.rs`, `shard.rs`, `manifest.rs`) | windows in flight, objects, manifests in S3 | run, skip, page, cut chunks, PUT, write the manifest | a manifest proves its window archived; a re-run resumes |
| Reconcile (`reconcile.rs`) | identities of the archived records, attempt | read back, re-page, append, update the manifest | late events are appended once; no object is overwritten |
| Retention gate (`retention.rs`, `s4logs-cli/src/commands/drain.rs`) | the group's retention | plan, enforce | nothing is deleted that is not archived; fail closed |
| Window grid (`window.rs`) | none | align, windows, windows_covering | no hole, no overlap, cut at midnight |
| CloudWatch client (`cw.rs`, `discover.rs`) | retry counter, page token | page, list, backoff, select groups | retries end within their bounds; a listing misses no group |
| Drain over groups (`drain_groups` in `job.rs`, `s4logs-cli/src/commands/drain.rs`) | jobs in flight, their reports | fan out, aggregate, gate, exit | a failure stays with its group, reaches the exit code and keeps retention as it was |
| Report and plan (`commands/report.rs`, `commands/plan.rs`) | manifests read so far; sums per metric query | list and read, page through metrics, sum | the figures are those of the manifests and datapoints, each counted once |
| Store and chunk format (`s4logs-core`) | frames of a chunk, sidecars | push, cut a frame, encode, put_chunk, read ranges | data before sidecars; frame bounds cover their records |
| Reader (`s4logs-cli/src/scan.rs`, `restore.rs`, `grep.rs`) | merge heap, batches | list, prune, fetch, merge, restore | pruning drops no match; order; batch limits of PutLogEvents |
| Argument and time parsing, client construction | none | parsing, construction | not modelled, see below |

How they interact: handlers, the sweeper and the main task share the buffer map
under one mutex and the WAL directory; each flush awaits S3 outside the mutex.
Drain runs share nothing but S3 and CloudWatch: manifests are how one run, the
reconcile and the gate tell each other what is archived.  Hard behaviours are the
awaits between taking a buffer and storing it, failures of single file and S3
calls, crashes and replays, clients that hang up (also while they hold the lock of
the probe's cache), events that arrive late or expire, runs that die or overlap, and
listings that others change between two pages.  `PROJECT.json` lists each hazard at its
line, with the properties that would notice it.

## Modules

| Module | Models |
|---|---|
| `GatewayBuffer` | buffer manager, WAL, server lifecycle |
| `AtLeastOnceLog` | abstract: secured records stay, only secured ones are acknowledged |
| `GatewayBufferProofs` | theorems about `GatewayBuffer` |
| `MCGatewayBuffer` | its instances for TLC |
| `Drain` | drain, reconcile and retention gate on one log group |
| `DrainProofs` | theorems about `Drain` |
| `MCDrain` | its instances for TLC |
| `RequestAuth` | the verification of a SigV4 signature, as operators |
| `GatewayFront` | the middleware in front of the handlers, and the readiness probe |
| `GatewayFrontProofs` | theorems about the readiness probe |
| `MCGatewayFront` | its instances for TLC |
| `Discovery` | backoff, listing and selection of log groups, exit codes |
| `DrainCommand`, `PlanCommand`, `ReportCommand` | the commands `drain`, `plan` and `report`, each on `Discovery` |
| `Commands` | their composition: one run of the binary, and what others do meanwhile |
| `CommandsProofs` | theorems about `Commands` |
| `MCCommands` | its instance for TLC |
| `GatewayApi` | request handlers, registry, routing, forwarding to CloudWatch, Describe pages |
| `GatewayApiProofs` | theorems about `GatewayApi` |
| `MCGatewayApi` | its instances for TLC |
| `Windows` | the two walks over the window grid, with the cut at midnight |
| `WindowsProofs` | theorems about `Windows` |
| `Scan` | chunks and sidecars as a reader meets them, `grep`, `restore` |
| `ScanProofs` | theorems about `Scan` |
| `MCScan` | its instance for TLC |
| `SortAndSum` | sorting and adding up, as `Scan`, `PlanCommand` and `ReportCommand` do it |
| `NaturalSets` | lemmas that several proofs use: least element, rank, sums, lists in an order, runs of a fold |

### GatewayBuffer

`buffers` is `BufferManager::buffers`; `taken[a]` are the buffers that a task
(handler, sweeper, main) has removed from the map and must flush; `put[a]` is the
one whose data object is in S3 while `put_chunk` is still writing sidecars.
`wal` maps a segment name to its file: synced lines, lines only the OS has,
and whether a fragment stands at its end.  `old` and `scan` are what `replay_wal`
found.  `req[r]` is where the handler of a request is.  Each critical section
under the mutex is one action, except that the batch loop of `push_events`
takes an action per event (`PushEvent`, `PushEventFails`), since each append may
fail; `LockFree` keeps other tasks out meanwhile.  `Crash` forgets memory and
keeps any part of the unsynced lines.  `verdict[a]` is what `flush_one` returned to
`flush_taken` and the ready bit has not got yet: a failed flush puts its buffer back and
unlocks (`FlushFails`), and only a later step (`StoreReady`) writes `last_flush_ok`.
`copies`, `acked`, `dropped`, `lossy` and
`window` are history: how often a record was stored, which were acknowledged,
which the drop counter counted, whether the process ended in a way that is allowed
to lose memory, and whether one of the duplicate windows occurred.  `wal.rs:19-23` and
`wal.rs:174-176` name three of these: a crash between PUT and deletion, a deletion that
fails, an interrupted replay.  The code has two more: a client that hangs up between the PUT and
the deletion, and a sidecar PUT that fails after the data object is stored.

A record is one unit of the byte limits, and buffers and segments are sets: neither
the order of lines nor the size of a message matters to a property.  Directory
operations are durable at once.

### Drain

One log group.  `cw` is what `FilterLogEvents` can return, `objects` and
`manifest` are S3, `job[j]` is a process running the command, `task[j][w]` its
`process_window` or `reconcile_window`.  An object is its key and its set of
events; the entry in a manifest records the events it was written with, which
stands for its checksum and length.  A page is one event, so that CloudWatch may
change between any two; within a shard events come in order of time.  A run lists
the streams once and partitions them as `partition_streams` does; its range ends a
margin before now, or at an explicit `--to`, which may be in the future.  A failed call and a killed process are the same
step, `JobFails`: the run ends, its windows are dropped at their await, nothing in
S3 is undone.  `late`, `promised`, `proved` and `gateCut` are history.

Not in it: dry runs and several groups (`DrainCommand`); an explicit `--from`, which
only leaves out windows; the content identity of records
without an `event_id`; manifests from before `raw_bytes`; sidecars, which a PUT writes
together with the data (a failure between them is a `JobFails` after the PUT).
An event's window is at or after the group's creation, as
`commands/drain.rs:164-166` states.

### GatewayApi

Agents that create a group and a stream and deliver one batch each, retrying
whatever was not answered with success.  `pc[a]` is the request an agent sends
next, or the await that its handler is at: between recording a name and
forwarding it, between routing a batch and buffering or forwarding it.  `groups`
and `streams` are `Registry`; `cwGroups`, `cwStreams` and `delivered` are
CloudWatch, which takes a stream only of a group it has, and a batch only of a
stream it has.  `CwTakes` is CloudWatch's 200: it keeps the batch (`delivered`) or rejects
events of it (`refused`), and `forward.rs:112-120` treats both alike, so `AckTruthful`
promises of a pure passthrough only that CloudWatch took the batch.  A failed push keeps no
record of its batch or some (`kept`), as `GatewayBuffer` has it in `PushEventFails` and
`SyncBatchFails`; the agent gets a 500 and sends the batch again, so `NoResend` allows one
more copy for each such push.  A routing table is a default and a sequence of compiled rules, each
the names that its globs match.  `lister` is a client that pages through a Describe.
`copies`, `kept`, `acked` and `lost` are history.  What a push does in the buffer is
`GatewayBuffer`.

### Windows

One behaviour is one call of `windows` or `windows_covering`, one step a turn of
its loop.  `Drain` takes these functions as sets (`CompleteWindows`,
`CoveringWindows`) of a grid without midnight.

### Scan

`frames` and `sidecars` are S3: the frames of each data object with their time
bounds, and whether a reader can use its two sidecars (both there, decodable, of
the same length).  Writers put chunks of records in any order, as the gateway does,
and stop mattering once the listed chunks are open, since bodies never
change.  A command goes through `phase`: listing day by day, opening chunk by
chunk (`sources` with their fetch units), then the merge.  `heap`, `batches` and
`refill` are `KWayMerge`: a batch is the matching lines of a fetched unit in stable order,
a line being its frame's place in the unit and its place in the frame, which are what a
stable sort leaves ties to.  `refill` also stands for where `refill` and
`next_indexed` are in their loops, and `popped` is the record that is returned
only after its source was refilled.  `batch` is the `EventBatcher`, `sending` the
batch at `PutLogEvents`.  `must`, `out` and `sent` are history.  A message is its
length and whether the pattern matches; a frame's target is a number of
records.  Any failed call other than a throttled one ends the command
(`CommandFails`).  Before the first batch `EnsureTarget` creates the group and stream;
what CloudWatch refuses of a batch it reports as three indexes, the ends of the too old and
of the expired events and the start of the too new ones, which `Rejections` adds up.
`RejectedLogEventsInfo` leaves open whether an event that is both too old and expired is
reported as the one, the other or both.  Left out: unparseable lines, decode caps and the single
listing that replaces more than `MAX_PER_DT_LISTS` daily ones.

### GatewayFront

A fleet of senders or pollers, fixed at the start.  A sender signs by its own
clock (`Skews`), with its own key or another, and leaves some header out or not; the
request may be rewritten on its way to another form of the same request (blanks,
order of the query, split header lines) or damaged.  `wall` is the server's clock
around midnight of `start`, in slots of a quarter of an hour; `Day` is eight of them, as
only the distance to midnight matters.  `verify` in `RequestAuth` takes a hash as its
preimage and a MAC as its key with its message.  For the probe, `queue` is the tokio
mutex, first in, first out: its holder is at the probe or at the cache; a poller that
hangs up leaves the queue and drops what it awaited.  `since` is history.

### Commands

Each behaviour is one run of the binary with one of `Commands`.  Every call of
CloudWatch goes through `with_backoff`: it is answered, fails, or is throttled, and then
`call[x]` counts the tries and sums the delays, with any jitter.  A group may be created
or deleted between two pages (`Churn`), and a manifest written, replaced, deleted or
damaged between a LIST and a GET (`WriteManifest`).  In `DrainCommand` a job ends its
windows one after the other: what a window is, is `Drain`.  Money and bytes are whole
numbers in a unit that makes every price of the code one.  An object of a report is where
it is listed (key, version and place in the manifest), a datapoint its query and its day,
so that equal sizes and equal amounts stay apart in the sums.  A window is not empty, and
there are finitely many keys.  `present`, `erred` and
`steady` are history.

## Runs

| Run | Shows |
|---|---|
| `wal` | WAL on, two requests (one on two days), two failures of any kind, hang-ups, crashes: types, `AckedRecoverable`, `NeverOnlyInMemory`, `DuplicatesOnlyInWindows`, refinement of `AtLeastOnceLog` |
| `memory` | WAL off, racing requests, failed PUTs and encodings, shutdown: `NoSilentLoss`, `CapHolds`, and `AckedReachS3`, `ReadyRecoversIfBuffered` under fairness |
| `torn` | finding: a failed write leaves a fragment, and the next acknowledged line is unreadable |
| `ready` | finding: the ready bit stays cleared after the only buffer was flushed |
| `drain_gate` | two windows in flight, drained and reconciled with two failures in any order, then the gate: types, `ManifestProves`, `ManifestComplete`, `OnceInManifest`, `ProvedKept`, `ExpiryArchived` |
| `drain_live` | `EventuallyArchived` under fairness, with damaged manifests, stream shards and runs whose `--to` is ahead of the clock |
| `drain_shard` | finding: a stream created after the listing is missed and its window manifested |
| `api` | two agents on one group or each in its own, every table of the instance, failed creates, pushes and forwards, hang-ups, restarts: `AckTruthful`, `NoResend`, `DescribeComplete`, and `AllAcked` under fairness, for agents with a group of their own whose creates do not fail |
| `windows` | both walks against the definition of the grid: `SameGrid`, `NoHole`, `Terminates` |
| `scan` | three chunks written while a grep or a restore reads, sidecars missing or lost, throttling, a failed call, refused events: `ScanExact`, `Ordered`, `BatchLegal`, `NothingSkipped` with bounds for the count of refused events, and `Ends` under fairness |
| `front` | a sender with any clock around the ends of four months, or three pollers: `AuthExact`, `OneProbe`, `ReadyFresh`, and `PollersSeeReady` under fairness |
| `commands` | ten command lines over three groups, throttled and failing calls, groups and manifests that change meanwhile: `BackoffBounded`, `FoundComplete`, `ExitTruthful`, `FailuresIsolated`, `RetentionAfterDrain`, `PlanSound`, `ReportHonest`, and `CommandEnds` under fairness |

**Where a property needs its instance.**  Some properties hold only in the instances
above, and a constant switches on the behaviour that breaks them.

* `NoSilentLoss` with `Disconnects = TRUE` and no WAL: a client that hangs up while its
  handler awaits the PUT drops the future and with it the taken buffers, which hold
  records of other, acknowledged requests (`buffer.rs:203`; `lib.rs:187-192` keeps
  the sweeper from the same cancellation).
* `ReadyRecovers` (run `ready`): a failed flush is put back and unlocked
  (`buffer.rs:454`) before its task stores false (`buffer.rs:381`).  If another task
  flushes that buffer and stores true in between, the false comes last, and nothing is
  left whose flush would set the bit again.  `/ready` then answers 503 until some later
  request's records are flushed, although a load balancer may send no request to a
  gateway that is not ready.  What holds is `ReadyRecoversIfBuffered`: the bit comes
  back as long as anything is buffered or in a flush.
* `ManifestProves` with `Overlap = TRUE` and two jobs: two runs write the same object
  names, and if an event arrives between their pages the manifest of one has the
  checksum of a body that the other has replaced (`job.rs:310`).
* `ProvedKept` with `Corruption = TRUE`: a window whose manifest does not decode is
  drained again under the same names with what CloudWatch still has
  (`job.rs:461-463`).
* `AllAcked` with two agents on one group: the registry records the group before it is
  forwarded, the second agent's stream reaches CloudWatch first and is refused,
  the error is swallowed and later creates are answered "already exists" without
  being forwarded (`handlers.rs:277-328`).
* `AllAcked` with `PutFirst`: the put registers the stream in the gateway
  only, with the same end (`handlers.rs:226`).

**Where code and comments differ without a run of their own.**

* `progress.rs:8-12` gives the order of events of a window as pages first, then
  objects; `WindowWriter::push` flushes in the middle of a page, so an object may be
  reported before its page.
* `scan.rs:5-6` promises the order of arrival for records with equal time and stream;
  `cluster_spans` decodes the frames of a cluster by their least times.
* `report.rs:76-80` calls `coverage_to_ms` the last covered window end and
  `coverage_gaps` the contiguous missing regions: with overlapping windows of different
  sizes the first may be too small and the second too large, which is why the second half
  of `GapsHonest` (a part of `ReportHonest`) is about windows that do not overlap.  No hole is ever hidden.
* `buffer.rs:487`: during an outage of S3 the memory cap limits what is accepted into the
  map, not what failed flushes put back into it.

* `wal.rs:19-23` and `README.md:492` name the ways in which a record is stored twice; a
  client that hangs up after the data PUT, or a failed sidecar PUT, is one too.
* `handlers.rs:266-268` has a pure passthrough fail loudly, because an event whose put
  failed exists nowhere; events that CloudWatch rejects inside an accepted batch
  (`forward.rs:112-120`) are answered with 200 and exist nowhere either.
* `buffer.rs:196-204` says that errors before the append are returned to the client, and
  flush errors are not; the errors in between (`buffer.rs:171`, `173`) are returned too,
  with records of the batch already in the buffer, and the agent's retry buffers them again.
* `restore.rs:427` prints the sum of the rejected events by reason: what CloudWatch
  reports as too old and as expired counts twice.
* `plan.rs` cuts the printed table at `--top`, but not the JSON; `PlanSound` is about the
  whole table.

**Bounds.**  Three records on two keys give a shared key, a batch that
spans two buffers and a buffer at its limit.  `SegIds` is large enough for each
buffer and each restart to get a file: no behaviour of a run is cut short by it.
`MaxFaults` is 2 where an invariant needs two failures to break (a failed flush
and then a crash), 1 elsewhere.  The drain runs have three events: in
`drain_live` a full chunk and a tail in one window, in `drain_gate` a pair and a single one
in two windows, each in one chunk or in more when it is repaired; a late event, an expired
one and one that stays at the same time.  `MaxNow` lets each window be complete
and its first events expire.  `MaxAttempt` stands for 99, and `drain_gate` reaches
it; damaged manifests are in `drain_live` only, and in the theorems.  Runs are not counted:
any number of them may follow each other.  The tables of
`api` have no rule, with each default; one rule for one stream that brings CloudWatch in or
S3 instead of it; or a rule that hides a later one; agents with groups of their own have no failing creates,
because a failed create breaks `AllAcked`.  The sizes of `windows`
divide the day, do not divide it, or exceed it, and ranges begin and end anywhere
in three days.  `scan` has two chunks of one day and one of the next, four
records, two of them with one time and different streams, frames of two records
that may overlap or touch, ranges that cut a frame, and limits that
each of events, bytes and span meets; one record is too large for a batch when wrapped, one
is both too old and expired, one too new.
`MaxFaults` is 1: a second lost sidecar only makes a second chunk one that
was never indexed, which writers reach by not having put it yet.  `front` begins on the
last slot of a year, of a February of 28 and of 29 days and of the day before a leap day;
clocks are right, off by the limit, or beyond it.  Three pollers give a holder of the
lock and two that wait.  `commands` has pages of one group and of two keys,
backoff of three tries whose second delay is cut by the cap, which is also the largest
number, and one change by others: the properties speak of what was there all the time,
so that a second change only repeats the first elsewhere.

**Fairness.**  Gateway: each task that holds buffers goes on (tokio polls it), a
request that was admitted proceeds, buffers age, the sweeper ticks; failures
and crashes are never fair, and there are finitely many.  Drain: time passes, a
started run goes on, and runs of each mode are started again and again, which
is the operator's schedule (`README.md` recommends both); nothing makes
an event arrive.  API: an agent keeps sending its next request and its handler
runs to its answer; hang-ups, failures and restarts are never fair.  Windows: the
loop takes its turns.  Scan and Commands: a command that was started runs on; writers and
failures are not fair.  Front: each client's handler runs on, time passes, and a call of S3
returns, since the SDK gives up in the end; hang-ups are not fair.  A command ends, and a
sender is done once it is answered, so `scan`, `commands` and `front` do not check deadlock; every
other run does.

## Theorems

Each theorem is about the specification that TLC runs, for every value of its
constants that meets the assumptions of its module; a run checks the same property on
an instance.  Where a theorem has a hypothesis, the run or the note under "Where a
property needs its instance" shows what happens without it.  The invariants
`CapInv`, `OnceInv`, `MemoryInv`, `DrainInv`, `ReadInv` and `PlanInv` were run through TLC
on the instances above before they were proved.

**Gateway buffer** (`GatewayBufferProofs`): any keys, records, requests, segments,
limits and number of failures.

| Theorem | Hypothesis | Inductive invariant |
|---|---|---|
| `TypeCorrect` | none | types with `ControlInv`: which states of handlers, sweeper and main go together (a handler with nothing taken must not flush) |
| `AckedRecoverableAlways`, `NeverOnlyInMemoryAlways`, `GatewayImplementsLog` | `WalAssumption`: a WAL, and a failed write leaves no fragment (run `torn` shows why) | `IInv` |
| `CapHoldsAlways` | none | `CapInv` |
| `NoSilentLossAlways` | `WalAssumption`, or `MemoryAssumption`: no WAL and no client that hangs up | `IInv`, or `MemoryInv` with `HeldInv` |
| `DuplicatesOnlyInWindowsAlways` | none, fragments included | `OnceInv` |

`IInv` rests on two ideas.  `MirrorInv`: a buffer, live or taken, holds exactly the
lines of its segment, so that deleting the segment after a flush loses nothing else;
`OwnerInv`: no two buffers share a segment, which is why a reinsert into a recreated key
must not merge.  `BatchInv` follows a batch from push to sync, and a replayed entry from
the old file to the new one.  The cap is not inductive because a replay pushes past it;
`CapInv` says that until the first failure every file has an owner in memory, so that
there is nothing to replay.  `HeldInv` accounts for a batch from its push on, between
the map, the flushes, S3 and the drop counter.  `OnceInv` needs all of the places where
a record can be: in one buffer at most (`OneHolder`), in S3 only while its buffer is
between PUT and retirement (`Unstored`, `Retiring`), on lines of its own buffer's segment
(`OwnLines`), and nowhere else before it is pushed (`Unpushed`).

**Drain** (`DrainProofs`): any events, windows, runs, chunk sizes and failures.

| Theorem | Hypothesis |
|---|---|
| `DrainTypeCorrect` | none |
| `ManifestProvesAlways`, `OnceInManifestAlways` | `SerialRuns`: runs of the group do not overlap |
| `ManifestCompleteAlways` | and `OneFilter`: no stream shards (run `drain_shard` shows why) |
| `ProvedKeptAlways` | `SerialRuns` and `SoundStore`: no manifest is damaged |
| `ExpiryArchivedAlways` | all three and `BornInGroup`: no event is older than its group |

`BornInGroup` is what `commands/drain.rs:164-166` takes for granted when the range
begins at the group's creation: a gate whose cutoff is not after the creation has no window
to look at and passes.  One invariant, `DrainInv`, serves all five.  `PutChunk`
replaces whatever has its key, so a manifest survives because no writer has one of its
keys: the attempt of a reconcile is above every attempt in its manifest (`NameInv`), the
manifest is still the one that it read (`BaseInv`), since there is one run (`Serial`).
`PlaceInv` has each event of a pass in one place, which makes the count exact;
`SightInv` has every event that CloudWatch shows the pass in some place; `GateInv`
carries the manifests that the gate looked at to the moment of expiry.

**Gateway API** (`GatewayApiProofs`), no hypothesis: `AckTruthfulAlways`,
`NoResendAlways` and `DescribeCompleteAlways`, about what CloudWatch takes and what failed
pushes leave behind as described under GatewayApi.  `AgentInv` says what has become of a batch
by where its handler is: how many copies are in the buffer, how many of these a failed push
left there, and whether CloudWatch took it.  For the pages, `ListerInv` compares a token with the rank of a
name in the sorted list: names are only added, so a rank never falls, and what the client
must still see is at or after its token.

**Readiness** (`GatewayFrontProofs`), no hypothesis: `OneProbeAlways` and
`ReadyFreshAlways`.  `ProbeInv`: who probes holds the lock; `AgeInv` relates the ages of
the cached outcome, of the answer on its way and of S3's last change.

**Commands** (`CommandsProofs`): `FoundCompleteAlways`, `ExitTruthfulAlways`,
`RetentionAfterDrainAlways`, `FailuresIsolatedAlways`, and `BackoffBoundedAlways` under
`ShortBackoff`, at most 22 tries.  `with_backoff` stops doubling at 2^20 (`cw.rs:155`):
with more tries, and a cap above a million times the base, it waits less than
documented; the configuration that ships has 8.  `DiscoveryInv`: no wanted group below the
token is missing; `DrainCommandInv` (`JobInv`, `PassInv`): the phases of a job, the counts of
its report and the groups that the retention pass has been at; `CallsInv`: the waits of
a call lie between two sums over its tries.

`ReportHonestAlways` and `PlanSoundAlways` are about what is printed, for any groups, keys,
windows, objects, datapoints, pages and changes by others.  A report reads by `ReadInv`:
a manifest that was there all the time is listed once the listing has passed its key, and
is then still to be read or has been, in its one version.  `CoverageHonest` proves what
`coverage_gaps` counts from windows in the order of their starts alone: without a gap
between neighbours nothing is missed, and where windows are disjoint, each gap has exactly
one first missed time, a one-to-one correspondence.  `PricedByClass` and `SavingsAtMost`
regroup the sum over objects by storage class and compare it, object by object, with what
the objects really cost.  A plan adds up by `PlanInv`: at any time what a query has got and
what is pending of it (on later pages, or in calls not made yet) add up to all of its
bytes, which is inductive where "each datapoint once" is not.  The table is then a sorted
one-to-one list of rows (`TableLists`), so that the last row may be summed over the groups.

**Scan** (`ScanProofs`), no hypothesis: `OrderedAlways`, `ScanExactAlways`,
`BatchLegalAlways` and `NothingSkippedAlways`, for any records, chunks, frames, ranges,
limits, lost sidecars and throttled calls.

| Part of the invariant | Says |
|---|---|
| `StoreInv` | frame bounds cover their records, each record is in one place of one chunk, of its day |
| `CmdInv`, `ListInv` | before the merge: which days are listed and which chunks are yet to be opened; what the command must find is in one of these or in a unit of a source |
| `SourcesInv`, `SourcesOrdered` | each chunk is open once; a batch is in order, its records are wanted, and every wanted record in the units still to be fetched is of a later time |
| `HeapInv` | every source that has a record and is not to be refilled has its head in the heap, so that the least head is the least of all upcoming records |
| `OutInv`, `PopInv` | what was emitted is in order, each record once; nothing upcoming belongs before it, and what must be emitted is emitted, popped or upcoming |
| `RestoreInv` | the batch that fills, the one on its way and those sent keep the limits; the first two hold emitted records that fit; no record is returned while a batch is on its way |
| `SentInv` | sent, sending and batched events in order are the emitted ones that fit, and the count of refused ones (`CountIn`) leaves none out and counts only those twice that were both too old and expired |

`Ordered` alone is not inductive: a popped record is in order only because nothing earlier
can still come out of a source, and that rests on `cluster_spans`.  `SpansClustered`
follows its fold over the sorted spans and shows that two spans of different clusters
do not touch, so that every record of a later cluster has a later time than those before it
(`UnitsGood`, `FetchUnit`).  `ScanExact` needs the other
half: a frame outside the range has no wanted record, the sources together hold
each wanted record once, and the merge ends only when all of them are empty.  The batcher
works event by event; `BytesAppend`, `FittingAppend` and `FlattenAppend` relate its steps
to the folds over whole batches.  `RejectionsAre` shows that in a batch in order of time
the exclusive ends of the too old and of the expired events and the inclusive start of the
too new ones cut off exactly these, so that their sum counts twice only what lies before
both ends.

**Windows** (`WindowsProofs`): `NoHoleAlways` and `SameGridAlways`, for every length of
the day, every set of sizes and every range.  `WalkInv` says that the walk stands on a
boundary and that everything before it is covered, `GridInv` that what it has collected
are the windows of the grid up to there.  A boundary is a day and a multiple of the size
within it (`AlignDown`, `AlignExists`, `BoundaryFixed`), and between it and the next one
there is none (`NextBoundary`, `NoneBetween`).

The prover has no induction over data, but set theory gives some of it back.
`NaturalSets` proves that a set of numbers has a least element from the
well-foundedness of finite subsets, and from that what a fold over a finite set adds up to
(`SumAdd`, `SumRemove`, `SumMono`), over a set in parts (`SumSplit`, `SumUnions`) and under
other names for its elements (`SumImage`); that a finite set has a list in any strict
order; and that a fold over a list is the end of a run of its steps, of which there is
only one (`FoldSolves`, `FoldSteps`, `TraceUnique`).  The theorems about `Scan`, reports
and plans stand on these.

Only model-checked: everything that is eventually to happen (`AckedReachS3`,
`ReadyRecoversIfBuffered`, `EventuallyArchived`, `AllAcked`, `Terminates`, `Ends`,
`PollersSeeReady`, `CommandEnds`), since the prover has no fairness; and `AuthExact`,
whose `verify` is an equation between operators that TLC evaluates for every request of
the instance.  Every other property of a passing run is a theorem.

## Not modelled

Parsing of arguments, times and globs, construction of AWS clients and of the gateway's
configuration, output formats, metrics and progress lines: pure functions of text or
bytes, or output nobody reads back.  Compression, checksums, hashes and HMAC are taken to
work.  Two hazards of the code have no property: readers do not compare a sidecar's etag
with the object's, so nothing they promise would survive an overwritten object, and the
order of arrival across the frames of a cluster (above).

## Plan

1. An abstract archive that `Drain` implements.
2. WAL files whose directory entries are durable only after an fsync.
