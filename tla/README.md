# Verification of windns-logtail

windns-logtail tails Windows analytical logs (`.etl`), Windows event channels and captured DNS
packets, and forwards what it finds to syslog and FTP/SFTP servers. This directory holds TLA+ models
of its Go code, the TLC configurations that check them on small instances, and proofs that hold for
every instance.

## The system

```
 cron ──> ETL reader ─────┐                          ┌─> syslog consumer ──> syslog server
          channel reader ─┼─ chan []Record (topic) ──┤
          DNS reader ─────┘          consumer.Manager└─> FTP consumer ─────> log file, archive, server
              │                                              │
      reader checkpoint                              consumer checkpoint       (one file each)
```

| Component | Source | State it keeps | Operations |
|---|---|---|---|
| checkpoint | `checkpoint/checkpoint.go` | `states` map, `numUpdates`, channel `save` (capacity 1), `done`; the state file and its `.new` | `NewCheckpoint`, `PersistState`, `States`, `Shutdown`, worker `run`/`persist`/`flush` |
| reader.Manager | `reader/reader.go` | cron table, readers, one checkpoint | `AddReader`, `Start`, `Shutdown` |
| ETL reader | `reader/etl_reader.go` | `count`, channels `etlLogfiles`, `xmlLogfiles`, `records`, list `sortList`, the files `.etl` and `.xml` in the directory `logs`, state | `Init` (`loadFiles`), cron `Run`, transfer and load workers, `Shutdown` |
| channel reader | `reader/channel_reader.go` | `running`, subscription handle, `maxRead`, last state | cron `Run` (open, read, close), recovery, `Shutdown` |
| DNS packet reader | `reader/dns_packet_reader.go` | `running`, packet channel, `tmpRecords`, state | `Run` (packet, tick, stop), `save`, `Shutdown` |
| consumer.Manager | `consumer/consumer.go` | consumers and stop channel by topic, pool, one checkpoint | `AddConsumer`, `Start` (fan-out loop), `Shutdown` |
| syslog consumer | `consumer/consumer_syslog.go` | `state.Timestamp`, pool of 100, `wg` | `HandleEvents`, `batchSend`, `send`, `Shutdown` |
| FTP consumer | `consumer/consumer_ftp.go` | current log file, archive directory, state, locks | `HandleEvents`, `zipArchiveFile`, `checkArchiveLog`, uploads |
| scheduler | `cmd/*/schduler.go` | the two managers | `Start` (wiring, first states), `Stop` |

Readers and consumers meet in one channel of batches per topic; every reader and every consumer
resumes from the position its own checkpoint returns at start. Nothing ties the two checkpoints
together: a batch the reader's checkpoint has passed and the consumer has not handled is lost in a
crash.

### What is hard here

* **Crashes.** `Scheduler.Stop` starts both `Shutdown`s in goroutines and returns, so every stop of the
  service is a crash at an arbitrary step.
* **Order.** Positions are saved before the records are handed over (ETL, channel, DNS); positions of
  the same log travel through a channel and a file written in three steps.
* **Concurrency.** Cron starts a job whether or not the last one ended; transfer and load pools share a
  list; consumers of one topic run in parallel; archives are zipped while another goroutine uploads.
* **Filtering by timestamp.** Every stage drops what is not newer than the last position, at different
  granularities and with different comparisons.
* **Shutdown.** Channels are closed under running senders, a wait group is set to nil, and a stop loop
  leaves its `select` but not its `for`.

## What is modelled

### Checkpoint (`EventLogState`, `DurableLog`, `Checkpoint`)

`EventLogState` defines the positions and `View(log, n)`, the map that the first `n` updates amount to.
`DurableLog` is the promise: a log of submitted updates, a prefix of which is on disk; the file equals
that prefix; a restart forgets the rest. `Checkpoint` is the code:

| Action | Code |
|---|---|
| `PersistState(c)` | goroutine `c` sends on `save`; beyond the capacity it is blocked |
| `Shutdown` | closes `done`; callers then wait for the worker to be gone |
| `NewCheckpoint` | reads the file into the map, then flushes before the worker starts |
| `ReceiveDone`, `ReceiveSave`, `FlushTimer` | the three cases of `run`'s select with what follows them |
| `FlushCreate`, `FlushWrite`, `FlushRename`, `FlushFails` | the steps of `flush`, and the failure of any |
| `Crash` | the process ends at any moment: memory, channel and blocked callers are gone |

A file that was created but not written is `Torn`. A crash is the end of the process, not of the
machine: the code never calls `fsync`, and what the operating system loses at power failure is outside
the model. `log`, `applied`, `durable` and `promised` are history variables that no guard reads.

Runs (bounds: two event logs, two callers, `MaxUpdates = 2`, channel capacity 1 as in the code, four
updates at a time, one failed flush; enough for a full batch plus a full channel plus a blocked caller,
and for a failure followed by a success or a crash; one position, because the proofs below cover any set
of positions):

| Run | Shows |
|---|---|
| `checkpoint` | `FileIsPrefix`, `MemoryIsPrefix`, `DirtyCount`, `LossWindow`, `FinalFlush`, `ImplementsDurableLog` under crashes and failures at every step; under fairness `EventuallyDurable`, `ShutdownReturns`, `CallsReturn` |
| `checkpoint_shutdown_loss` | finding: `Shutdown` may return with an accepted update not on disk |

Fairness: the worker takes a step it can take (`WF`), its timer fires (`WF`), and a select with several
ready cases does not ignore one for ever (`SF` on `ReceiveDone`: Go chooses at random). Callers, starts
and crashes have none. `CallsReturn` ends with `Shutdown`: after it a caller may block for ever, which the model
contains and no property excludes.

Proved (`EventLogStateProofs`, `CheckpointProofs`), for any sets of names, positions and callers, any
batch size and channel capacity, with no bound but `MaxLog` and `MaxFaults` being numbers: all the
invariants of the run `checkpoint`, and that `Spec` implements `DurableLog`. The argument is the inductive
invariant `IInv`: besides the properties themselves it says that the channel holds exactly the end of the
log (`QueueIsSuffix`, needed for a receive), that the temporary file about to be renamed equals the map
(`TempIsMemory`, needed for a rename), that a process that has not reached its loop has received nothing
(`StartIsClean`, needed for reading the file) and that a batch is not exceeded while no flush failed
(`BatchBound`, needed for `LossWindow`). Liveness is model-checked only.

### Syslog consumer (`SyslogConsumer`, `SyslogConsumerProofs`)

A batch is a sorted sequence of timestamps. `pc` is the line `HandleEvents`/`batchSend` stands at, `task`
the state of the pool's worker for each record.

| Action | Code |
|---|---|
| `Start` | `hookConsumer`: the checkpointed position, or the present time, which is then persisted |
| `HandleEvents`, `NextChunk`, `Return` | the chunk loop; the test `timestamp < last of chunk` is `NextChunk`'s guard, and a chunk that fails it leaves the loop where it is |
| `Dial`, `Add`, `Submit`, `SubmitFails`, `Wait`, `WaitReturns` | the steps of `batchSend` |
| `TaskStart`, `SendReturns`, `SendTimeout` | a worker: the comparison with the position, then `send` with its timeout, then the deferred `wg.Done` |
| `Advance` | the position moves to the last record of the chunk and is persisted, whatever became of the sends |
| `ShutdownWaitGroup`, `ShutdownRelease` | the two statements of `Shutdown` |
| `NilPanic`, `LatePanic`, `Crash` | use of the nil wait group, send on the closed `done`, any other end of the process |

`points` is what a restart may find: any position given to the checkpoint since the last one it returned,
which is what `DurableLog` promises of it. The syslog server acknowledges nothing, so "delivered" is a
`SendRaw` that returned without an error.

| Run | Shows |
|---|---|
| `syslog` | `PositionCovers`: no restart skips a record that was under way; `LeftOutAtBoundary`: a handled batch leaves out only records with the timestamp of the end of an earlier chunk; `PositionNotRaced`; `PositionForward`; `BatchEnds` |
| `syslog_spin` | finding: `continue` before `startIndex` is assigned, the loop never leaves a chunk that is not newer than the position |

Bounds: batches of up to four records with three timestamps, chunks of two, two workers. Two chunks are
the least with a boundary, and four records with three timestamps have ties inside a chunk, across its
end, and none. Two workers and two records of a chunk let every pair of steps change places; a `Submit`
that waits for a worker of an earlier chunk needs a closed pool, which the model contains.

Fairness: `HandleEvents` and the workers are goroutines that run when they can, and every send returns or
times out because `send` has a timer. Nothing obliges a batch, a crash or a shutdown to come. `BatchEnds`
excuses the loop once it spins, and a shutdown, after which the pool or the wait group may be gone.

Proved (`SyslogConsumerProofs`), for batches of any length, any chunk size, any number of workers and any
number of connections and sends that fail, from `SizesAssumption` alone: `TypeOK` and all four safety
properties of `syslog`. The inductive invariant says where the loop may stand (`Progress`: a chunk starts at
a multiple of the chunk size, and one that is handled ends later than the position), which records have
been submitted (`Submitted`), that the wait group is at least the number of busy workers and, until
`Shutdown` releases the pool, counts nothing that never began (`Counting`: this is why nobody is busy when
`Wait` has returned, hence why the unlocked write of the position races with nobody), that the position is
the last record of the last chunk and no restart finds a later one (`Position`), and that the records
of finished chunks and those whose worker is done are settled or have the timestamp of a chunk's end
(`Coverage`). `BatchEnds` is model-checked only.

### The way of a file (`ETLPipeline`, `ETLPipelineProofs`)

A file is a number, the second it was copied in; its content is the subject of `ETLScan`. `sortList`,
`etlLogfiles`, `xmlLogfiles` and `events` are sequences of files or list elements.

| Action | Code |
|---|---|
| `Start`, `LoadEtl`, `LoadXml`, `Ready` | `Init` and `loadFiles`, before any goroutine receives |
| `Look`, `Run`, `CopyFails`, `CopyDone` | the cron job: it looks at `count`, adds one and copies, which are not one step; several jobs may be under way |
| `ReceiveEtl`, `SubmitTransfer` | `transferETL` |
| `WriteXml`, `TransferDone`, `TransferFails`, `PushXml`, `Cleanup` | a worker of `transferPool` and its deferred function |
| `ReceiveXml`, `SubmitLoad` | `unmarshalETL` |
| `ReadXml`, `ReadFails`, `Turn`, `Enter` | a worker of `loadPool`: parse, `wait`, send |
| `Scan` | the part of `scanXML` that takes a file's events and deletes the file |
| `Shutdown` | `stop` is set: no loop begins another turn, `wait` lets everybody pass |
| `RefuseTransfer`, `RefuseLoad` | a pool is released while a loop is about to submit to it; the error is ignored |
| `Close`, `PushPanics`, `EnterPanics` | the channels are closed; who sends panics, which the pools catch |
| `Crash` | the process ends (by itself, after `Shutdown`, or by a job that sends to a closed channel), the directory stays |

| Run | Shows |
|---|---|
| `etl` | `CountAccounts` (what the counter that throttles `Run` really counts, failed copies included), `NoOrphan` (nothing stays in the list that nobody holds), `OvertakesOnlySending`, `CopyKept` (no complete copy is lost by `Shutdown` or in a crash), and `LeavesList`: every file in the list gets its turn, unless the whole pool waits for a file none of it has |
| `etl_gridlock` | finding: the load pool can fill with files that wait for one still on its way; nothing moves again |
| `etl_order` | finding: leaving the list and entering the channel are two steps, so files change places |

`Shutdown` in steps: `up` is "stopping" from the assignment of `stop` (line 382) on and "closed" when the
channels are (391). A loop that looked at `stop` before it was set may take one thing more (`late`), and whoever
waits for its turn, or comes to `wait` after, leaves the list at once; until the channel is closed its send
succeeds, so it enters before files it should follow (`hurried`). The releases of the two pools are an alternative
of each loop that is about to submit, and the closings of the channels one step: a worker's send on one channel
neither enables nor disables anything before another one is closed, except that it would panic.

A `.xml` that `tracerpt` has not finished is `torn`. A crash may leave one beside the complete `.etl`;
`loadFiles` then queues both. If the torn one is read, `scanXML` takes its element, which did not parse, and
deletes the `.xml` of that name (line 346), by then perhaps the new one, while the deferred function of
the transfer deletes the `.etl` (line 225): a complete copy is lost. `CopyKept` leaves out just these files
(`spoiled`), and of the others those of which a complete form could not be converted or read (`settled`).

Bounds: `etl` has three files, two transfer workers (hence three load workers), channels of
capacity 1, two jobs that look at `count` at once (with `MaxCount` 0, so that both pass a look only one should), one
crash or `Shutdown` and one failure: every pair of stages can be full while a third file arrives, and the
crash may leave a file in each of its forms. `etl_gridlock` needs a fourth file, the one that waits for a
worker. Fairness, all of it while the service is up: each stage's goroutine and worker, and the end of every copy and
transfer; `Scan` too, which assumes consumers take what is sent (that fails where a consumer spins,
`syslog_spin`). Cron, starts and crashes owe nothing. Deadlock is not checked: with `MaxFiles` copies made
and scanned the model has nothing left to do.

List operations are atomic in the model. One of them is not in the code (line 233: a worker of `transferETL`
removes its element without the lock): what a corrupted linked list would do is not modelled.

Proved (`ETLPipelineProofs`), for any number of threads, files, crashes and failures and any capacities,
from `SizesAssumption` and `NoneAssumption`: `TypeOK`, `CountAccounts`, `NoOrphan`, `CopyKept` and
`OvertakesOnlySending`. The argument is that nothing is in two hands: a file is in one stage of its transfer
at a time (`OneStage`), an element in one stage of its loading, and only after its file has left the
transfer (`OneLoad`); the list and the two channels repeat nothing. From that `Listed` says of each element
that it is in the list exactly while somebody holds it (during `Shutdown`: at least while somebody does), and
that what has not been received is not there; `Accounts` adds the failed copies to the files in transfer. `Kept`
says that a file that is to be transferred has its `.etl`, one that has been its complete `.xml` (`Forms`), and that
an element whose file is gone, or did not parse, is of a file `CopyKept` leaves out (`Reads`). `Known` and
`Quiet` bound the files and say what holds before the goroutines run.

`OvertakesOnlySending` has an invariant of its own, `Turns`, on top of `IInv`. `Earlier(d, e)` says that d was
appended before e; the list is always what is left of the order of appending (`Ranked`), and what is still to
be appended has not been (`Unranked`). An element whose turn comes has the file name of the first one: it is
the first, and then nothing in the list is earlier, or its twin is, and then `loadFiles` found the file in
both forms (`Twins`); or `stop` was set, and it is `hurried`. `FirstOnly` keeps that until the element is in the
channel. `LeavesList` is model-checked only.

`OrderKeptOneByOne` is the other side of the finding `etl_order`: `OrderKept` holds of every behaviour in which
no two workers are at once between removing their element and sending it, no file was found in both forms, and
nobody left the list out of turn for `stop` (`OneSends`). So files out of order have one of these three causes. `Lined` is the invariant: what is in the
channel comes before what is being sent, and that before what is in the list.

### From a file to batches (`ETLScan`, `ETLScanProofs`)

Every copy holds the whole log, so the state is the log (times, sorted), the copies waiting as the number
of events each holds, and the position: time and MD5 of the last event sent. An event's index stands for
its MD5.

| Action | Code |
|---|---|
| `Log`, `Copy` | Windows writes an event; `Run` copies the log (`ETLPipeline` has the steps in between) |
| `Start`, `Resume` | `addReader`: the present time, saved, or the position of the state file |
| `Scan`, `ScanPart` | `scanXML` filters the events of a file, all of it or what was parsed before an error, and deletes the file |
| `Persist`, `Send` | for each chunk: move and save the position, then put the chunk in `records` |
| `Flush` | the checkpoint's worker has written some of what it was given (`DurableLog` with one name) |
| `Take` | `consumer.Manager` takes a batch |
| `Crash` | memory and `records` are gone; files and the saved position stay |

Files are taken in any order: that is what `OrderKept` failing allows.

| Run | Shows |
|---|---|
| `scan` | `NothingSkipped`, `ResendsOnlyTies`, `PositionForward` and, under fairness, `EventuallyGiven` (which also fails if the position of a whole file is saved before its first chunk is sent) |
| `scan_ties` | finding: two events that share the latest timestamp are sent again in turn at every scan |

Bounds: three events with two timestamps (ties at the start, at the end, none), chunks of two so that a
file needs two of them, one batch in the channel, one or two positions not yet on disk, one crash.
Fairness: the goroutines, cron (`WF(Copy)`), the checkpoint's worker and the consumers; `SF(Scan)` says
that not every file fails to parse. Without it a reader whose every transfer is broken owes nothing. These are
assumptions about the surroundings that other modules show can fail: `Copy` when failed copies have used up the
counter (`CountAccounts`), `Scan` when the load pool is stuck (`etl_gridlock`), `Take` when a consumer spins
(`syslog_spin`). `EventuallyGiven` is the promise of `scanXML` as long as none of them does.

What `scan_ties` sends again is exactly what makes the loop of `syslog_spin` stop: a batch whose last
record is as old as the consumer's position. The two modules show the two halves; the composition is
left out (below).

Proved in `ETLScanProofs`, for any chunk size, capacity and bounds: `TypeOK`, `NothingSkipped`,
`PositionForward` and `ResendsOnlyTies`. None is inductive alone. `IInv` adds: the log is `Sorted`; every
position was taken in the past (`PointsPast`, so that no later event is older than it); what the filter
drops from any position was put in `records` or is in the chunk about to be (`Covered`); below an event of
`delta` there is none that is neither handed on nor in `delta` itself (`NoGap`, needed when the position
moves to the end of a chunk); `delta` is not older than the position, which during a send is the end of
the chunk (`Ahead`); and everything sent in this process is at or before the position (`SentBehind`),
which is what turns "the filter lets it through" into "it is a tie". That a chunk
is the least part of what is left (`ChunkIsPrefix`) rests on the existence of least members of finite
sets, proved from the well-foundedness of strict inclusion.

`SentOnceWithoutTies` is the other side of the finding `scan_ties`: in a behaviour whose log never has two events
of one timestamp, `SentOnce` holds (`Once`: the only event sent that is as old as the position is the one whose
MD5 the position has).

### Windows event channels (`ChannelReader`, `ChannelReaderProofs`)

An event is its index in the log, which also stands for its record number and its bookmark; its time may
be earlier than that of the event before it, as it may be in a Windows log with several writers. A job
holds the lock from `Run` to its return, so one job at a time is in the module.

| Action | Code |
|---|---|
| `Start` | `addReader`: the position of the state file, or the present time, saved |
| `Run` | a cron job that finds `running` unset; others return; one that has waited for the lock runs after `Shutdown` too |
| `Open`, `OpenFromBeginning`, `OpenFails` | the subscription, after the bookmark, else the record number, else the oldest event; a file whose bookmark is gone is read from its beginning; a failure returns with `running` set |
| `Read`, `ReadPartly`, `Recover`, `ReadEnds` | `Read`: handles, rendering, bookmarks, and `run`'s filter on what it returns; an event that is not rendered, a bookmark that is not made; `RPC_S_INVALID_BOUND`; the end or an error |
| `Leave`, `Persist`, `Send`, `SendPanics` | the rest of `run`'s loop |
| `ShutdownPoint`, `ShutdownRunning`, `ShutdownClose` | the three statements of `Shutdown` |

The query's `IgnoreOlder` is a duration made of a Unix time in seconds taken as nanoseconds, which is less
than two seconds. The model has it as the constant `IgnoreOlder`: an event older than that when a channel is
read is `missed`. It is 0 in the run, where a channel's query returns the events of the present tick only, and
a file, which is read without a query, returns all.

| Run | Shows |
|---|---|
| `channel` | `NothingSkipped`: no position the reader is at, or may resume from, lies beyond an event that was not handed on, on its way, in memory at a crash, left out by the query, or overtaken; `SentInOrder`: whatever is read again, nothing is sent twice or out of order; `EventuallyRead` |

Bounds: three events, clock to 2, handles for two, one batch in `records`, one position not yet on disk,
one failure and one crash or `Shutdown`. Two reads of the same subscription, a recovery that reads again what
was sent, a batch that ends in the middle of a tie, and an event that waits until the query leaves it out all
occur. Fairness: cron starts jobs until `Shutdown`, jobs run, the checkpoint's worker writes and consumers come back.

Three things the code loses both properties name as exceptions, so they catch none of them: an event the query
leaves out (`missed`); an event written after one that is not older, which the filter drops (`overtaken`); and, in
`EventuallyRead`, whatever comes after a failed subscription (`failed`), because that job leaves `running` set and
no later one does anything.

Proved (`ChannelReaderProofs`), for any batch size, capacity, lag of the checkpoint, number of failed calls and
restarts and any order of the events' times, from `ChannelAssumption` and `NoPositionAssumption`: `TypeOK`,
`NothingSkipped` and `SentInOrder`. The inductive invariant says which positions exist when (`Phases`) and
that each is one of an event in the log, or of the first start (`Placed`); that whatever the job has gone past,
by its cursor, record number or bookmark, is handed on, in the batch or overtaken (`ReadSoFar`); that
what a position on disk, or on its way there, has gone past does not rest on the batch in memory, unless that
is being sent already (`SavedSoFar`: a crash loses the batch); and that nothing sent or in the batch is newer than
the job's position (`NotNewer`), from which `SentInOrder` follows, as the filter lets only newer events pass.
`EventuallyRead` is model-checked only.

### The Linux service (`DnsPacketReader`, `ConsumerManager`, `FanOut`, `DnsLogTail`, `DnsLogTailProofs`)

`DnsLogTail` composes one device's reader, `reader.Manager`, the channel `records`, and one topic of
`consumer.Manager`, as `cmd/dnslogtail` wires them. Its variables are those of `DnsPacketReader` and of an
instance of `ConsumerManager` whose `events` and `closed` are the reader's `records` and
`recordsClosed`.

| Action | Code |
|---|---|
| `Enter`, `SetRunning` | the test of `running` and its assignment, which are not one step: two jobs may pass |
| `Receive`, `Store`, `ReceiveClosed`, `Tick` | the cases of `Run`'s select; `append` reads the slice and stores it in two steps |
| `Lock`, `Persist`, `Send`, `SendPanics` | `save`, which panics on an empty slice or a closed channel, and waits in `PersistState` once the checkpoint has stopped |
| `ShutdownRecords`, `ShutdownTmp`, `SourceEnds` | `Shutdown` of the reader |
| `CronStop`, `PointShutdown` | `Stop` and `reader.Manager.Shutdown`, in their order |
| `Take`, `TakeNil`, `StopTopics` | the topic's loop, what it does with a closed channel, `consumer.Manager.Shutdown` |
| `Finish`, `Spin` | a `HandleEvents` returns, or never does: the loop of the syslog consumer, for a chunk not newer than its position |

`FanOut` is what a topic promises: every consumer gets every batch once and in order, and none runs ahead
of the others by more than the batch at hand. The refinement maps `log` to the batches put in the channel
so far and `got` to `handled`.

| Run | Shows |
|---|---|
| `dnslogtail` | `EachPacketOnce`: what a consumer has handled, the batch at hand, the channel, what was collected and what is still to be received are together the packets captured, each once and in order; `ImplementsFanOut`; `PacketsHandled`: under fairness each packet is handled by all consumers, also when none comes after it |

Bounds: two jobs, two consumers, three packets, batches of two, channels of capacity 1: a batch that is
full, one the tick saves, a full channel, and `Stop` at any step. `EachPacketOnce` and `PacketsHandled` name
their exception `raced`: with two jobs in the loop packets are lost or doubled and `save` may panic.
`EachPacketOnce` ends before the last statement of `Shutdown`, which drops what was collected, and counts what a
job holds that waits in `PersistState` for ever as collected. Fairness: cron, jobs and the topic run; the tick
comes when no packet waits and none comes (captures are finite here, so packets that put it off for ever do not
occur); as long as nobody has called `Stop`, a `HandleEvents` returns or spins. That it returns cannot be
assumed: `syslog_spin` shows that it need not. `PacketsHandled` therefore names a spinning consumer as an
exception; the topic then gives no batch to any consumer again.

Proved in `DnsLogTailProofs`, for any jobs, consumers, batch size, capacities and number of packets, from
`DnsPacketAssumption` (sizes are positive, `NoJob` is no job) and `TopicAssumption` (a topic has a consumer,
`Nil` is not a batch): `TypeOK` (`TypeCorrect`), `EachPacketOnce` (`EachPacketOnceCorrect`) and
`ImplementsFanOut` (`Refinement`). The inductive invariant `IInv` adds to the types

* `Lengths`: what is in a job's hand, in `tmpRecords` or being saved is with the packets still to be
  received no longer than the capture, so that what `Send` puts in the channel is a batch;
* `OneInLoop`: as long as no two jobs have been in the loop, there is room for a packet whenever nobody
  saves, which bounds `tmpRecords`;
* `InStep`: all consumers have been given the same batches, the one they are at included. `Take` needs it
  of a topic whose consumers have all returned, and it makes the mapping of `log` independent of the
  consumer it is read from. `Deliver`'s guard (nobody is a batch behind) follows from it.

`Send` is then `Publish`, `Finish` of a batch is `Deliver`, and every other step leaves `log` and `got` as
they are: `Take` moves a batch from the channel to the one at hand.

`EachPacketOnce` follows from `Ledger`, again inductive only together with `IInv`: while one job is in the loop
and `Shutdown` has not dropped what was collected, what was published, what is collected and what is to be
received are, one behind the other, the packets captured so far and not dropped, in order; and what `save` is
about to send is what was collected. The property is stated without joining the sequences into one: which packet
stands before which is a statement about positions, and a fold over sequences could not be reasoned about.

### FTP consumers (`FTPConsumer`, `FTPConsumerProofs`)

All FTP consumers of a service append to one file and share one archive directory. A file is the number of
its creation; `Log(n)` and `Zip(n)` are its two forms in the archive. Records are followed by identity.

| Action | Code |
|---|---|
| `Open`, `Write` | `HandleEvents`: open or create the common file, write, look at its length, which may fail |
| `Rename`, `CreateFails`, `Pack`, `PackFails`, `CloseZip`, `CloseFails` | `zipArchiveFile`, its deferred calls included |
| `List` | the directory is read, and all but the latest files are deleted |
| `Upload`, `ReadFails`, `StoreFails`, `Remove` | the upload loop, FTP or SFTP |
| `Crash` | the process ends, the files stay |

`posix` chooses between systems that rename and remove open files and Windows, which does not.

| Run | Shows |
|---|---|
| `ftp` | `RecordKept`: every record written is in the current file, in the archive or on a server, except in the ways its comment lists; `ArchiveUploaded`: whatever lies in the archive leaves it, as long as batches come and on systems that rename open files |

The exceptions are what the code loses: records written to a file another consumer has moved meanwhile;
in a zip file whose closing fails or that a crash finds open (the log is removed first); in a zip file
another check uploads before it is closed; in the oldest files beyond the limit. `RecordKept` says that these are
all; it catches none of them. On Windows a rotation
fails while another consumer has the file open and `HandleEvents` then returns without a check, so
nothing need ever be uploaded: `ArchiveUploaded` is not stated for it. Writing, saving the position (which nothing
reads) and looking at the length are one step, and so are reading, packing and removing the log: the comments at
`Write` and `Pack` say why nothing of others falls in between unseen. Two rotations in one second, whose names collide, are not modelled.

Bounds: two consumers, the rule keeps two files, one record followed (the others matter for the length
only), the first file is the one found too long (whoever moves it late may move its successor), one
failure or crash. Fairness: batches come and the goroutines run.

Proved (`FTPConsumerProofs`), for any number of consumers, records, rotations, archives kept and failures, on
both kinds of system, from `FTPAssumption`: `TypeOK` and `RecordKept`. The invariant behind it: only files that
have been moved are in the archive, packed or removed by a check (`Archived`), and a file is packed by the one
consumer that moved it (`OnePacker`), whose zip file is empty until the log has been read, and in the archive
unless its records are excused already (`Packable`, `Opened`); what a check is about to remove is on the
server, or excused (`Uploaded`). That the files' numbers stay within the model's bound is part of it: after the
last file that is found too long, each new file takes one of the handlers that may still move it (`Room`).
`ArchiveUploaded` is model-checked only.

## Assumptions

* `SizesAssumption`, `ScanAssumption` and their like say only that sizes are positive numbers and that the
  value for "no entry" is not a position (`NoneAssumption`: nor "nothing held" a file).
  TLC evaluates each of them.
* A log is in the order of its timestamps. Windows writes it so; the code relies on it (`scanXML` takes the
  last event of a chunk as the latest).
* Two different events have different MD5s.
* A crash is the end of the process. What a power failure takes from the page cache is not modelled.

## What is only model-checked

Everything under fairness (`EventuallyDurable`, `ShutdownReturns`, `CallsReturn`, `BatchEnds`,
`LeavesList`, `EventuallyGiven`, `EventuallyRead`, `PacketsHandled`, `ArchiveUploaded`): TLAPS has
no rules for `ENABLED`, so fairness is out of its reach. Every other property of the passing runs, safety
invariants, action properties and refinements, is a theorem. The five properties of the runs that expect a
violation are false of the code; for two of them it is proved which condition would make them true
(`SentOnceWithoutTies`, `OrderKeptOneByOne`). Facts about data that need induction over an
operator parameter are avoided: `View` is a recursive function and its lemmas are stated about the steps the
code takes; `EachPacketOnce` is stated by positions instead of a fold.

## What is not modelled

| Part | Why |
|---|---|
| two readers of one topic | `AddConsumer` binds both to the channel of the first; a configuration no document describes |
| two analytical readers | `ETLPipeline` has one; the code lets each load the files of all at start (a hazard of the list) |
| `tracerpt`, XML decoding, record formatting | pure functions and external tools; a file parses to its end, in part, or not at all |
| Windows API bindings (`winapi`, `win`), packet capture | external, used through the readers |
| configuration, logging, service installation | sequential set-up and I/O |
| vendored code | third-party; the pool, cron and the file system are modelled as they are used |

## Plan

What is left, the most important first.

1. `Delivery`: `ETLScan`'s channel feeding an abstract consumer with its own checkpoint, with the promise
   "every event is sent or was in memory at a crash" as abstract specification, refined by the
   composition; a resent tie meeting `SyslogConsumer`'s loop end to end. The abstract consumer (a position
   that covers what is settled) is to be implemented by `SyslogConsumer`.
2. Two readers that share something: analytical readers and their one directory, readers of one topic.
