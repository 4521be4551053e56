# Formal model of kafka-harbor

kafka-harbor is an at-least-once Kafka client library for Node: consumers with a
ladder of retry topics and a dead-letter topic, producers, transactions and a
redrive, over a client behind an adapter (Confluent or platformatic). This
directory holds TLA+ modules translated from its source, TLC runs over small
instances of them, and theorems checked by TLAPS for instances of any size.

Paths below are relative to the repository root (`src/consumer.ts`, `docs/...`).

## Inventory

| Part | State it keeps | Operations | Talks to |
| --- | --- | --- | --- |
| Consumer pipeline (`src/consumer.ts`) | `deliveries`, `parked`, `reentries`, `revocations`, the drain and shutdown signals | `receive`, `process`, `park`, `guarded`, `forwardFailed`, `commit`, `crash`, `settleRevoked` | adapter (deliveries, pause/resume, commit, revocation callback), handlers, breaker, harbor |
| Batches (`src/consumer.ts`) | `batches`, `runningBatches` | `collect`, `flushBatch`, `runBatch`, `handleBatch`, `discardBatches` | the pipeline |
| Commit and hops (`src/commit.ts`, `src/produce.ts`) | none | `commitAfter`, `produceRecords`, `produceHop` | adapter |
| Lifecycle (`src/consumer.ts`) | `state`, `ready`, `startAbandoned`, `memberships`, the slots per level | `start`, `stop`, `doStop`, `join`, `leave`, `finish`, `discardParked`, `takeSlot`/`freeSlot` | adapter, the pipeline |
| Retry ladder (`src/retry-topics.ts`, `src/headers.ts`) | `routes`, the plan of a subscription, the tracking block of a record | `TopicPlan`, `route`, `ownerOf`, `readRetryInfo`, `writeRetryInfo` | the pipeline, the redrive |
| Harbor (`src/harbor.ts`) | `state`, `connecting`, `adapterConnected`, `closing`, `producing`, `closedController` | `connect`, `shutdown`, `ensureConnected`, `track`, `lag` | adapter, consumers, transactions |
| Transactions (`src/transaction.ts`) | `turn`, `queued`, the async scope | `run`, `execute`, refusal at shutdown | adapter's transactional producer |
| Redrive (`src/redrive.ts`) | counts, `inFlight`, the stop signal | `one`, idle detection | a consumption of its own |
| Confluent adapter (`src/adapters/confluent`) | the client's consumers | `consume`, rebalance callback, transactional producer | librdkafka |
| Platformatic adapter (`src/adapters/platformatic`) | queues, `ready`, `running`, `paused`, `lastQueued`, stream, assignment | `pump`, `enqueue`, `dispatch`, `deliver`, `joined`, `rotate` | the client's stream |
| Memory adapter (`src/testing`) | a broker in memory, `positions`, a gate and a loop per partition | the adapter contract | tests, applications |
| Pure helpers (`src/partitioner.ts`, `src/duration.ts`, `src/validate.ts`, ...) | none | functions | everyone |
| Observation and bindings (`src/otel`, `src/prometheus`, `src/nestjs`, ...) | none that the pipelines read | hooks | events of the harbor |

What is hard in it, and the properties that make each part correct:

- *Offsets.* The offset of a record is committed only once its outcome is safe,
  through handler failures, aborts, lost acknowledgments, failed commits,
  shutdown timeouts, rebalances and process deaths: `NothingLost`, `PromiseSpec`.
- *Order.* A commit covers every record before it, so nothing may be worked on
  out of order: `InOrder`, `OneAtATime`. Parked records are the hard case. They
  come back beside the adapter's own gate, and only the pause of their partition
  keeps the next record away: `PausedWhileParked`, `BehindAParkedOne`.
- *Hand-over.* A partition moves to another member while works on it run, wait
  for a delay, hold behind a breaker or wait for a slot: `CommitsMoveForward`,
  `StaleDeliveryNotRun`.
- *Progress.* Pauses, holds, slots, stops and restarts never strand a message:
  `EveryMessageResolved`.
- *Batches.* One flush at a time per topic, its offsets in order, its buffers those
  of partitions it owns: `OneBatchAtATime`, `BatchesInOrder`, `CollectsWhatItOwns`.
- *Client contract.* A commit of an offset covers everything before it only because
  an adapter delivers a partition in order and one record at a time, through
  rebalances, failed streams and refetches: `ImplementsContract`,
  `CommittedIsDone`, `DroppedComesAgain`. Its line, room and counters agree, and its loop never sleeps
  through its wake-up: `Consistent`, `EverythingSettles`.
- *Lifecycle.* A stop comes at any moment of a start, and hangs on none:
  `NothingLeftOpen`, `StopWaitsForHandlers`, `EverythingEnds`. A re-entry slot that
  comes free finds the next in line: `SlotsHandedOn`.
- *Ladder.* Subscriptions that share topics may not send a message round, nor hand it
  to another handler: `SubscriptionsAgree`, `FailuresEnd`, `OwnersKept`.
- *Redrive.* Over the in-memory adapter, dead letters go back once, all of them or up to `max`:
  `NoDeadLetterLost`, `OnceUnlessUncommitted`, `StopsAtMax`, `RedriveEnds`.
- *Transactions.* Sends and steps answered late, a producer lost to another instance
  or to a timeout, a client released beneath: `AllOrNothing`, `OutcomeHolds`,
  `OneAtATime`, `FencedByAnother`, `FencedStaysQuiet`.
- *Shutdown.* It drains what is in flight until its deadline, gets to the disconnect
  whatever a connection, a send or a transaction does, and leaves no client open:
  `ReleasedWhenDrained`, `ShutdownProceeds`, `QueueReleased`, `ClientReleased`. A consumer's
  own stop ends though its handlers hang: `ShutdownEnds`.

`PROJECT.json` lists every hazard at its line with the properties that would catch it.

## Modules

| Module | What it models |
| --- | --- |
| `AtLeastOnce` | The part of the world the delivery promise is about (topic logs, committed offsets, outcomes), the effects pipelines have on it, and the promise as a specification: an offset moves only past records whose outcome is safe. |
| `AtLeastOnceProofs` | The promise keeps every message, for any partitions, ladder and backlog. |
| `ConsumerPipeline` | One member of a consumer group with single-message subscriptions, its client and its group. |
| `ConsumerPipelineProofs` | Its inductive invariants, and that it implements the promise. |
| `BatchPipeline` | The same member with batch subscriptions. |
| `BatchPipelineProofs` | Its inductive invariant, and that it implements the promise whatever the client does. |
| `TransactionalProducer` | The connection of an adapter, its transactional producer, and the broker's side of the transactional id. |
| `Harbor` | The harbor on top of it: connect and shutdown, sends, and the queue of transactions with their functions. |
| `HarborProofs` | Its inductive invariant, and its safety properties. |
| `DeliveryContract` | What the core asks of a consumption of any adapter, as a specification. |
| `DeliveryContractProofs` | An adapter that keeps it skips nothing. |
| `PlatformaticConnection` | `connect()` and `disconnect()` of the platformatic adapter. |
| `PlatformaticConsumption` | One consumption on it, and what of it the core sees. |
| `PlatformaticConsumptionProofs` | Its inductive invariant, and that it implements the contract. |
| `Subscriptions` | The topics a consumer's subscriptions plan, and which it refuses. |
| `Journey` | The way of a failing message along them and back, by its tracking headers. |
| `Lifecycle` | The life of a consumer on top of both: start, topics, stop, re-entry slots. |
| `LifecycleProofs` | Its inductive invariant, and its safety properties. |
| `MemoryAdapter` | A consumption of the in-memory adapter and its broker. |
| `Redrive` | `harbor.redrive()` on top of it. |
| `RedriveProofs` | Its inductive invariant, and its safety properties. |
| `MCConsumerPipeline`, `MCBatchPipeline`, `MCHarbor`, `MCPlatformaticConsumption`, `MCLifecycle`, `MCRedrive` | The small ladders, backlogs and calls of the runs. |

### AtLeastOnce

`log[p]` is a topic-partition in offset order; `committed[p]` counts the records
the group is past, so committing `offsetAfter(record o)` makes it `o`; `handled`
holds the records whose handler returned or whose hop was acknowledged; `done`
and `dead` are the messages a handler returned for and the ones on a DLQ. A
message that hops is the same message on another partition. `NothingLost` says
that each message a producer wrote was handled, is on a DLQ, or is still ahead of
a committed offset: the three things `docs/delivery-semantics.md` promises.

`PromiseNext` is what a pipeline may do to that world: the effects on one record
(`RecordEffect`: resolve, hop, dead-letter, transact, commit) or on a set of records
of one partition that one handler call or one transaction resolves together
(`BatchEffect`). A detailed module implements the promise when each of its steps is
one of these or leaves the ledger alone.

### ConsumerPipeline

A *work* is one run of `receive()`: a delivery of the adapter, or the re-entry of
a parked record. JavaScript runs between two awaits without interruption, so an
action is one such stretch, and `pc` names the await the work stands at:

| `pc` | await in `src/consumer.ts` |
| --- | --- |
| `arrived` | `this.ready` in `receive` |
| `parked` | the timer or `takeSlot` in `park` (no promise of the adapter is open) |
| `behind` | `ahead.done` in `process` |
| `sleeping` | the sleep of the remaining delay in `process` |
| `decoding` | `toMessage` |
| `held` | the poll of the open circuit in `guarded` |
| `handling` | the handler |
| `retrying`, `deadLettering` | the produce of `forwardFailed` or `deadLetterUnroutable` |
| `committing` | `commitAfter` |
| `crashing` | the rejection on its way to `crash()` |

`reentry` marks a work that holds a slot and resumes the partition when it ends;
`open` that the adapter's promise has not settled; `revocation` is the snapshot
`process()` takes, `received` the count when the record arrived (kept for the
property about it; no action reads it). `StopWith` is
`stopFromPipeline` and the synchronous part of `doStop` in one step: it drains,
discards what is parked and leaves the running handlers to finish. `GiveUp` is the
shutdown timeout, `Leave` the end of `doStop`.

The rest of the world:

- `Deliver`: in order, one open delivery per partition, `Concurrency` per level
  (each level is a group member of its own), nothing on a paused partition unless
  `PauseLeaks`.
- `Revoke`, `Release`, `Assign`: a rebalance. With `Overrun = FALSE` the client
  releases a partition once the revocation callback and its open deliveries are
  done, as the Confluent client does (`src/adapters/confluent/index.ts:520-534`).
  With `Overrun = TRUE` it may release under running works: `settleRevoked` ran out
  of `maxProcessingTime`, or the client is the platformatic one, which tells after
  the fact (`src/adapters/platformatic/index.ts:544-548`).
- `Assign` reads from the committed offset. The pipelines are of a group that is
  `fromBeginning` or has committed on every partition before (offset 0 stands for that
  place); one that did neither starts at the end of the log, on its retry topics too,
  and whatever it had not committed when it stops or loses the partition is passed over.
  `PlatformaticConsumption` has that case (fifth finding).
- `HandlerTransacts`: the coordinator takes the offsets of a handler's transaction with
  the group's metadata, from a member that holds the partition or is giving it up; a
  transaction of anyone else is aborted, and does nothing to the ledger.
- `OtherMember`: whoever owns the partition meanwhile, running the same code.
- `Elapse`: time. A retry topic's records become due in offset order (they carry
  the time they were produced at and one delay), and a sleep, a deadline or a hold
  may end at any moment, which covers every relation between delays.
- `Die`, `Restart`: the process dies with everything in memory, or a stopped
  consumer is replaced. The logs and offsets survive.

`Unplaced` are the messages whose tracking block names no owner on a shared retry topic;
with `SharedDlq` its owners have one DLQ and such a record goes there, otherwise
`deadLetterUnroutable` throws and the consumer stops (`src/consumer.ts:1495`).

Simplifications, all on the side of more behaviours or named as not covered (an
abandoned re-entry keeps its slot until the group is left, where the code frees it at
once: nothing re-enters any more, the consumer stops):
payloads are model values; the breaker is an external policy that may admit, hold
or outlast the deadline whenever asked; `retryIf` may answer either way; a failed
pause is a choice of `Process`; a commit after leaving the group fails. A stop
during `start()` goes straight to `stopping`: the bounded wait for `start()` and the
abandoned start are `Lifecycle`'s. A handler's transaction
counts as the message's outcome: what a handler does after its transaction
committed is outside the promise, as `docs/delivery-semantics.md:117-125` says.

### BatchPipeline

`collect()` settles a delivery as soon as its record joined the batch, except the
one that fills it, which waits for the run. So per partition there is at most one
record on its way (`arrival[p]`: `queued` behind `ready`, `parked`, `sleeping`, or
`waiting` for the running batch), a batch that collects (`collecting[p]`), and one
that runs (`running[p]`, with the await of `handleBatch` as its `pc`). `left` holds
the records still to forward, `ran` whether the handler had the batch, `open` and
`reentry` whose delivery filled it, `revocation` the snapshot of its first record.
`MaxWait` is the timer of `collect`, `Revoke` flushes what collected, `StopWith`
discards it.

- `Overrun` lets the client release a partition under a running batch.
- `stale` is a history variable no action reads: the partitions that were revoked
  while a delivery of theirs was queued behind readiness. The second finding below holds
  for batches too, such a delivery joins a batch on a partition that is gone; what
  `BatchesInOrder`, `CollectsWhatItOwns` and `CommitsMoveForward` say leaves those partitions
  out, and no other behaviour.
- `StopWaits` is the adapter whose `stop()` waits for the deliveries in flight. The
  adapter contract allows it; the third finding needs it.

Batch subscriptions are refused on shared retry topics (`route()` of
`src/retry-topics.ts`), so every record has its owner.

### TransactionalProducer and Harbor

The broker lets one producer hold the transactional id. `holder` says who initialized
it last, `open` the records of the transaction it holds open, `visible` what
read-committed consumers see. `producer` is the adapter's, `"fenced"` when the broker
gave the id away or timed the transaction out; the adapter cannot see the
difference, only how long the transaction was open (`overdue`). The two adapters
decide alike what a step of a transaction does; those definitions are translated from
the platformatic one. The connection, with the producer opened as part of it, is the
Confluent adapter's; the platformatic one opens its producer at the first
transaction, which `Harbor` reaches through `opening` (a producer that was dropped).

`Harbor` runs on it. `call[t]` is the await a call of `transaction()` stands at:

| `call[t]` | await |
| --- | --- |
| `queued` | the turn (`previous`), or the refusal of a shutdown |
| `connecting` | `ensureConnected` |
| `opening` | `connectTransactional`, when the last producer was dropped; `BeginAgain` is the platformatic adapter's second try after a begin that failed |
| `running` | the function |
| `settling`, `unwinding` | `Promise.all(sends)`, `Promise.allSettled(sends)` |
| `offsets`, `committing`, `aborting` | `sendOffsets`, `commit`, `abort` of the handle |

The sends of a function (`send`) run beside it, since it need not await them; a
fenced one stands in `fencing` or `expiring` while the adapter disconnects the
producer, between reading the time and marking the connection. `plain[s]` is a call
of `send()`, with its attempts and backoff. `connecting` follows the promise of
`connect()`, with the moment between the client being open and the harbor's `then`;
`shutdown` follows the awaits of `doShutdown`. `ConsumersStopped` stands for all
`consumer.stop()` calls, and may never come (the third finding), as `Disconnected`, the
end of `adapter.disconnect()`, may not; the consumers' calls of `send()` and `transaction()` may come at any
time, before and after.

Left out: a `sendOffsets` that landed with its answer lost, a commit that lands while the
producer is being disconnected (it fails here), a failed connect after the
transactional producer took the id over; the refusal of a transaction begun inside
another (an async context), signal handlers, `health()` and `lag()`. A redrive is a module of its own; the shutdown does
not wait for it, and may close the adapter under it (`HarborCloses` of `Redrive`).

### DeliveryContract and PlatformaticConsumption

The core relies on more than the types of `src/adapter.ts` say: a commit of an offset
stands for every record before it, so a partition is to be delivered in order, one
record at a time, and read again only from a place with nothing left to handle before it.
`DeliveryContract` says this as a specification of its own: `Begin`, `Seek` and
`Revoke` are the adapter's side, `Handle`, `Leave`, `Park` and `Resume` the core's. `done`
are the records the group is done with. Before the first commit of a partition
(`fresh`), without `fromBeginning`, a reading may pass over records (`PassesOver`): "a
brand-new group" starts at the end of the log, and a client cannot tell one that never
read from one that never committed.

`PlatformaticConsumption` is the machinery the platformatic adapter puts between the
client's stream and `eachMessage`. `gate` holds the fields of the consumption
(`queues`, `ready`, `running`, `queued`, `paused`, `lastQueued`, and the key sets of its
maps), and `loop` the await its reader stands at:

| `loop` | await in `src/adapters/platformatic/index.ts` |
| --- | --- |
| `none`, `starting` | no consumption yet; `consumption.start()` in `consume` |
| `pumping` | the next message of the stream in `pump` |
| `room`, `granted` | the promise of `room`, and the moment after it resolved |
| `backoff` | the backoff after a stream that ended |
| `opening` | `consumer.consume` |
| `ended`, `closed` | `run()` is over; `stop()` has taken the rest |

The consumption lives on the connection of `PlatformaticConnection`, which opens the
clients in two steps a disconnect may overtake (`overtaken` is the aborted `opening`):
after the module is loaded and after the brokers answered. An attempt that was
overtaken closes what it built. A disconnect stops the consumptions there are; one
whose `start()` it overtakes is added after it, and its handle is the core's to stop.

`Pull` and `Granted` are the pump on either side of its wait for room; `Dispatch` is the
synchronous loop of `dispatch()` and `deliver()` up to the handler, a recursive function
over turns. `Joined` is the handler of `consumer:group:join`: it discards what was lost,
and rotates the stream when a lost partition came back. `Expelled` is the lost
membership, `Rejoin` what the next `consume()` does about it. The core is external here
and kept small: it handles and commits, parks and re-enters, or leaves a record to the
next owner once it was told of a revocation.

`ImplementsContract` is the refinement. The mapping says what of the adapter's state
the contract is about: a delivery is open until its promise settled, and `last`
is the record before the head of the queue, or the last one queued. A partition that
is not owned, and any after a stop, has no place.

A queue may have a gap. After an expulsion the stream is opened anew from the committed
offsets while what was queued before stays, and a partition that another member worked on
meanwhile continues from there: the records between were handled elsewhere. So
`Begins` lets `last` be further on than the record it delivers, once everything up to it
was handled. With three records on a partition and a queue of two TLC finds this step; the
instance of the run, with a queue of one, is too small for it.

`queued` is a counter of the code; `RoomIsCounted` compares it with the `Places` that hold
a message. `Discard` lowers it by those of the queues it drops.

A stream is opened with `mode: 'committed'` and `fallbackMode` `'latest'` unless
`fromBeginning` is true (`src/adapters/platformatic/index.ts:1032-1035`; the core's default
is false, `src/consumer.ts:721`). `StartsAfter` is that choice: a partition with nothing
committed is read from its first record, or from an end of the log no earlier than
what was fetched from it, and what is before that counts as `done` without having been
handled. `ReadOn` applies it wherever a stream begins: `Started`, `Opened` after a rotation,
a failure or an expulsion, `Assign` for a partition the stream has read nothing of.

Assumed of the client (`@platformatic/kafka`, external): it replaces its assignments and
emits the join event in one turn, keeps what it fetched through a rebalance, reads a
partition with a committed offset from there, and one without where `fallbackMode` says.

### Subscriptions, Journey and Lifecycle

`Subscriptions` is `subscribe()` and `subscribeBatch()`: the topics a plan consumes, the
refusals of `TopicPlan` and of `route()`, and the breaker a refused subscription lets go
again. `RefusedWhenClashing` states the refusals without an order between
subscriptions: one is accepted exactly when it agrees with each accepted one. The
code looks in both directions to get there, since either of two clashing subscriptions
may come first.

`Journey` follows a message along the routes that result. `Blocks` are the tracking blocks as
far as they parse: headers come from the network, so its properties range over all of
them. `FailuresRunOut` says that no accepted naming sends a message round,
`StaysWithItsOwner` that on a shared retry topic its own subscription takes it, that it is
dead-lettered to its own DLQ with its failures counted, and that a redrive brings it back
to where it was produced.

`Lifecycle` extends both. `start`, `stop` and `membership[l]` follow the awaits of
`start()`, `doStop()` and of one consumption per ladder level:

| `start` / `stop` | await in `src/consumer.ts` |
| --- | --- |
| `connecting`, `preparing`, `creating`, `joining` | `ensureConnected`, the look of `prepareTopics` at the topics, its creation of the missing ones, the `allSettled` of `join` |
| `unwinding` | the stops of the levels that opened when another failed |
| `awaiting`, `leaving` | `stopping`, then `leave()`, at the end of a `start()` that a stop overtook |
| `waiting` | the bounded wait of `doStop` for a `start()` in progress |
| `draining`, `leaving` | the handlers in flight, then `leave()` |

`gate[l]` and `parked[p]` take the re-entry slots of a level waiter by waiter, at the
grain of promise reactions: a waiter that was woken (`woken`) and one that was
discarded after it was woken (`passing`) are states, since another stretch of code may
run before either goes on. The path of a delivery is `ConsumerPipeline`'s; here it only
queues behind `ready`, parks, or is `active` (`entry.active`, `src/consumer.ts:1103`), which
is what a stop waits for. An active record decodes, and its handler is called
(`handling`) unless the shutdown gave up on it meanwhile, `abandoned`: a stop that begins
between the two waits for a handler that has yet to start, and it does start.
`StopWaitsForHandlers` says that nothing becomes active once a stop began, and that no
handler is called once it gave up.

A consumer subscribes only while it is idle, so the properties of subscriptions are
evaluated there and nowhere else: after the start the routes do not change.
Left out: a consumer without a DLQ; an abort or a crash of a re-entry (in
`ConsumerPipeline`); why a `handle.stop()` ended, since `leave()` waits for it to resolve or
reject (`src/consumer.ts:756`) and only then rethrows; and the adapter without pause and resume (a
level delay above `maxProcessingTime` is then refused by the same unwinding).

### MemoryAdapter and Redrive

`MemoryAdapter` has the broker of `src/testing/index.ts` for one topic and one
consumption: `at[p]` is the await of `runPartition` (`nextEvent`, the gate with its line,
`eachMessage`), `Wake` its wake-ups, and `release()` hands a freed slot to a waiter
that takes it only when it runs, as the code's `acquire` does.

`Redrive` runs on it. `phase` is the await of `redrive()` (`consume`, the idle sleep, the
messages in flight, the stop), `work[p]` that of `one()` for the message in the hands of
p's loop. `hop[p]` is the produce under an instrumentation: `wrapped()` of
`src/instrumentation.ts` runs the work once, whether the wrapper calls it never,
once or twice, or throws before or after. Dead letters arrive meanwhile, addressed or
not; a call, the filter or the whole harbor may fail under the run.

## Runs

| Run | Instance | Shows |
| --- | --- | --- |
| `ConsumerPipeline` | original and retry partition, 2 messages, one without an owner once it was retried, 2 works, 1 fault, one DLQ (768 092 states) | nothing lost, order, exclusion, pauses, offsets move forward and abandoned handlers do not commit, every step implements `PromiseSpec` |
| `Progress` | original and retry partition with a message each, one undecodable, 1 fault, which may be a delivery through a pause, fairness (358 494 states) | every message is handled or dead-lettered, and a record behind a parked one is always woken |
| `Overrun` | 3 messages on a retry partition, the overrunning client | **violates** `NothingLost` (first finding) |
| `QueuedBehindReady` | 1 message, the overrunning client | **violates** `StaleDeliveryNotRun` (second finding) |
| `Batches` | batches of 2, a message on the original and an undecodable one on the retry partition, 1 fault, fairness (336 903 states) | one batch at a time and of consecutive records, none on a partition that is gone, offsets move forward, `PromiseSpec`; every message ends somewhere, a stop ends though handlers hang |
| `StopHangs` | an adapter whose `stop()` waits for its deliveries | **violates** `ShutdownEnds` (third finding) |
| `LateHandler` | an undecodable message in a batch, a shutdown | **violates** `NoLateHandler` (fourth finding) |
| `Harbor` | 2 transactions (one of 2 sends and offsets) and a send, two calls at most, 1 failed call, another instance, fairness (237 464 states) | transactions are all or nothing, as answered, and never overlap; a fence is told from a timeout and respected; the client is released once drained or expired, however late it opened; the shutdown gets to the disconnect, the queue is answered |
| `Platformatic` | 2 partitions of 2 and 1 records, not `fromBeginning`, a queue of 1, 2 troubles, fairness (218 886 states) | the adapter implements `DeliveryContract`, its line and counters agree, its loop ends or the group is done with everything, a disconnect leaves no client behind |
| `RotatedBeforeCommit` | the same, without fairness | **violates** `DroppedComesAgain` (fifth finding) |
| `Lifecycle` | 7 subscriptions to choose from, 2 retry levels, 3 partitions of a retry topic for 1 slot, 2 faults, fairness (81 273 states) | what a consumer accepts sends no message round or astray; no level is joined before its topics exist; slots are handed on; a stop leaves nothing open, waits for every handler or calls none, and ends |
| `Redrive` | a DLQ of 2 partitions with a letter each and one arriving, 2 redrives, no `max`, of 1 or of 2, 1 fault, fairness (517 057 states) | no dead letter lost, none re-injected twice but for a failed commit, `max` kept to, a redrive ends |

Bounds. `MaxFaults` counts rebalances, stops, aborts, failed produces and commits
and process deaths together; one of each kind at every point of every interleaving
reaches each error path, and since the ledger keeps what the fault left behind, the
consumer started after it meets the consequences. Two works let a delivery meet a
parked record or a re-entry on the same partition. Two messages are the least where a
commit can cover another record; three let a record overtake a parked one
while a third is being finished (`Overrun`). Every log is finite because a copy is
appended only by a hop of a handled record, and a hop takes a work and a level.
Symmetry is used for works only, in runs without temporal properties beyond
step-wise ones; a work's identity is never compared except for equality.

A delivery through a pause counts as a fault of its own. The one fault of `Progress` is
such a delivery or any other, not both: with a leaking pause and a revocation together,
a due record delivered through the pause overtakes the parked one, the first finding
by another way. `ConsumerPipeline` has a record that no subscription owns on its retry topic
and one DLQ for it; a consumer that crashes on such a record (`SharedDlq = FALSE`), or has no
DLQ at all, has several times the states, since it is restarted and crashes again: that it
loses nothing is the theorem `LosesNothing`, for every value of these constants.

Batches of two are the least that fill, overflow and fail in part; records of both
topics meet in one when the message of the original topic fails. A client that releases a
partition under a running batch (`Overrun`) is left to the theorems, which cover the
safety of it. In `Harbor`, two
calls at once are what overlap needs; `MaxCalls` keeps the third name for the
mix of a send and a transaction. One take, one timeout and one failed call cover each
pair of reasons a producer is dropped for; the safety properties were also checked
with all three calls, and with two calls and two faults.

In `Platformatic`, a queue of one makes the second message wait for room, and one slot
makes two partitions compete; a trouble to lose a partition and one to get it back are
what a rotation takes. A second record on `orders` is there to be skipped, repeated
or delivered too early. The properties were also checked with `fromBeginning` (370 022
states). In `Lifecycle` three parked records and one slot leave one
waiting while another is woken and discarded; two levels let one fail while the other
joins. No partition of the original topic is read: what is said of a delivery does not
depend on its level but for the parking, and a record of a retry topic may come due at once.
Its requests hold one instance of each clash of `route()`: another level of a
shared topic, a batch among others, a consumed DLQ in either order, a plan that meets
itself. In `Redrive`, one letter arrives on a partition while the other is at its
`max` of one, the two letters there are make a `max` of two, with the third to overshoot
it, and the second run meets what the first left.

Deadlock checking is off: a system whose messages are all handled may stop, and so may
a consumer or a redrive that is done.

Fairness (`FairSpec`, or part of `Spec` in the newer modules): each await of a work ends
(sleeps and calls are bounded by timeouts, a handler is assumed to return or throw), the
client delivers what it has and assigns what is unassigned, `start()` and `doStop()` run
to their end, someone restarts a stopped consumer, time passes. No fault is fair: nothing
needs a rebalance or a crash to make progress. `Progress` has a DLQ, because without one a
message whose handler always fails stops each consumer in turn, as documented. In
`BatchPipeline` a handler ends only while no stop began: after that it may hang, and
the stop has to end without it. In `Harbor` nothing outside is fair: a connection may
never be answered, a function may never return, the consumers' stops may hang (the third
finding), and so may the adapter's `disconnect()`, which the code awaits without a bound
(`src/harbor.ts:345`, `:365`). So `ShutdownProceeds` begins once the consumers stopped and ends
with the disconnect under way. In `Lifecycle` the broker may never answer
a start and a handler may never return; deadlines pass, settled promises go on, and an
adapter's `stop()` ends once its deliveries settled. In `Platformatic` a stream yields
what it has of each partition, an attempt to connect, an open or a rejoin is answered,
and the core settles what it has in hand and stops its handle after a disconnect. In `Redrive` a filter, a wrapper and the broker answer; a wrapper
that never settles would hang its hop, as the code has no timeout around it.

## Findings

1. **A late resume lets a record overtake a parked one** (`Overrun`). A re-entered
   handler outlives a revocation; its partition comes back, its first record parks
   and pauses it; the old handler's `finally` (`src/consumer.ts:974`) lifts that
   pause; the next record is due by then, is not held against `parked`
   (`src/consumer.ts:1072`), runs and commits past the parked one; a crash loses it.
   `docs/delivery-semantics.md:160` says a paused partition delivers nothing else.
2. **A delivery queued behind readiness survives a revocation** (`QueuedBehindReady`).
   `process()` snapshots `revocations` when it begins, after the wait for `ready`;
   the comment at `src/consumer.ts:455` says a delivery that waited through a
   revocation is left to the next owner.
3. **A delivery waiting behind an abandoned batch is never settled** (`StopHangs`).
   `doStop()` settles the abandoned deliveries that are active; one that waits for
   its partition's running batch (`src/consumer.ts:1286`) is not. An adapter whose
   `stop()` waits for the deliveries in flight never returns, though
   `docs/writing-an-adapter.md:87` says the core settles every delivery it abandoned.
4. **A batch handler starts after the shutdown gave up** (`LateHandler`).
   `handleBatch()` looks at the shutdown after decoding, then forwards what did not
   decode, then starts the handler. `src/consumer.ts:1110` and
   `tests/unit/batch.test.ts:561` say it must not start.
5. **A rotation before the first commit passes over what it dropped**
   (`RotatedBeforeCommit`). A member has a record of one partition in delivery and the
   next one queued, loses another partition and gets it back. `rotate()` drops the
   queue, and the new stream, of a partition nothing was committed of yet, begins at the
   end of the log (`fallbackMode`, `src/adapters/platformatic/index.ts:1035`), by the
   core's default. The queued record never comes, and a later commit covers it.
   `src/adapters/platformatic/index.ts:571` says that what was queued and dropped comes
   again.

## Proofs

`AtLeastOnceProofs` proves `PromiseSpec => []NothingLost` from the invariant
`LedgerInv`: the types, only what is in a log has an outcome (`HandledExist`), every
message produced is done, dead, or has a copy that is not handled (`Accounted`), and
everything behind a committed offset is handled (`CommittedHandled`). `NothingLost`
alone is not inductive: it does not say that a copy behind an offset was handled.

`ConsumerPipelineProofs` proves, for every value of the constants with
`Overrun = PauseLeaks = FALSE` (`WellBehavedClient`):

- `TypeCorrect`, `WorksInOrder`, `WorksAlone`, `OffsetsMoveForward`: the invariants
  and the action property of the run. Its two halves are `Phases`, `WorkOrder` and
  `PartitionOrder` for the offsets, and `AbandonedCommitsNot` for the abandoned handlers;
- `KeepsThePromise`: `Spec => PromiseSpec`, the pipeline implements the promise;
- `LosesNothing`: `Spec => []NothingLost`, from the two results together.

The argument is one inductive invariant, `IInv == LedgerInv /\ Pipe`. The parts of
`Pipe`, types apart:

- `Phases`: only a consumer that is stopping or stopped gave up; a stopped one has no
  partition, and is giving none up.
- `Alone`: while this member is present, one work at most is busy on a partition.
- `WorkShape`: a work's record exists; a parked work is the registered one and the
  consumer runs; nothing is busy before the start.
- `WorkOrder`: a work that may still reach its handler has every earlier record of
  its partition handled; one that commits, its own too.
- `WorkPlace`: a work stands on a partition that is assigned or being revoked. On an
  assigned one it is at the client's position, it holds the delivery open or the
  partition paused, and no revocation came since its snapshot.
- `PartitionOrder`: the client's position lies between the committed offset and the end
  of the log, everything before it is handled, and the record at it is handled or in
  the hands of a work.

`InOrder` alone is not inductive: that the record delivered next finds everything
before it handled depends on where the position is, and on who still holds it.
TLC checked `IInv` on small instances before it was proved. One
lemma per kind of step carries it (`SettleKeeps`, `GotoKeeps`, `StopKeeps`, ...), one
per action group uses them.

Two more results about pauses have invariants of their own:

- `PausedForTheParked` (`PausedWhileParked`, the same client): `Pauses` adds that a
  pause is one of a partition the member holds, that none exists before the start, and
  that no record queued behind readiness is a re-entry. That one record at a time is in
  hand (`Alone`) is what lets a re-entry lift the pause without asking for whom it is.
- `WaitsBehindEarlier` (`BehindAParkedOne`), for a client that does deliver through
  pauses and only waits for the works of a partition before it releases it (`~Overrun`).
  `IInv` says nothing there, so `HandInv` starts anew: a work in hand is at or before
  the client's position (`InHand`), and the open delivery of a partition is the latest
  of its works (`Latest`). A partition is read anew only when none of its works is left.

`BatchPipelineProofs` has three layers, by what they ask of the client:

- Of any client, releases under a running batch and revocations of a queued delivery
  included: `OneBatch`, `BatchesKeepThePromise` (`Spec => PromiseSpec`) and
  `BatchesLoseNothing`. The invariant counts what the member has *on hand*: the
  records that collect, and those that run if their batch was formed in this
  assignment. `Arrives` and `Reads` say that all before a record on its way, and all
  the client delivered, has an outcome or is on hand; `Covers` that nothing before the
  end of a batch is without an outcome but its own records, which is what makes its one
  offset safe; `Progress` how far the run of a batch got, so that the offset is
  committed only when each of its records has an outcome.
- Of any client too, but only on partitions no queued delivery of which outlived a
  revocation (`stale`): `BatchesOfConsecutive` and `CollectsOwned`, from `Ordered`.
- With `~Overrun`, and on those partitions: `BatchCommitsMoveForward`, from `Ahead`, which
  keeps the committed offset behind what is on hand.

`HarborProofs` proves every safety property of the run `Harbor` for all transactions,
sends and bounds, from `HarborAssumption` alone: `HarborTypes`, `NoOverlap`,
`Atomicity`, `AnswersHold`, `FenceHasAnotherHolder`, `FenceIsRespected`,
`ShutdownReleases` and `ReleaseWaits`. Its `IInv` has one part for each argument, and
one lemma per part says that every step keeps it:

- `QueueOrder`: each call that did not end is in the queue once, and one that holds
  the client has only ended calls before it. `Alone` follows: two calls in the queue
  are ordered, so the later one would have to wait for the earlier.
- `SendsInside`: a send begins after its transaction did and settles before the
  transaction reaches its offsets, commit or abort.
- `Connected`: whom the client belongs to at each phase of connect and shutdown; a
  connect still in flight past the shutdown's wait means the deadline passed.
- `FenceKnown`: when the broker answers as fenced and no other instance took the id,
  the transaction in progress is overdue and will drop the producer at its end. That
  is why the next one never meets the stale producer, and why looking at the elapsed
  time is enough. No producer is being opened once a caller was told it is fenced.
- `OpenLedger`: under a producer that still holds the id, the records open at the
  broker belong to the transaction in progress, and hold all it was acknowledged.
- `VisibleLedger`: a transaction with visible records has all of them visible and was
  committed, answered or not.

`AllOrNothing` alone is not inductive: whether a commit publishes whole transactions
depends on what is open when it lands, on whose it is, and on which sends failed. The
invariant was checked by TLC on the instance of the run before it was proved.

`RedriveProofs` proves `NothingLostInRedrive`, `ReinjectedOnce` and `MaxRespected` for any
DLQ, number of runs, options and faults. `Loop`, `Reads`, `Safe` and `Once` speak of one
partition: where its loop and its message are, that the group is not past what the loop
reads, that everything it is past went back or was filtered, and how often. What the
group is past is not enough: a message that was acknowledged and not committed yet
(`Underway`) is read again after a crash, so `Once` counts copies against failed commits.
`Bounded` is about all partitions at once: the messages counted and those that may still
be counted are fewer than `max` and one more for each partition. `Slots` counts the gate.

`LifecycleProofs` has an invariant of four parts, for any ladder, subscriptions,
partitions, concurrency and bounds:

- `Course`: which stages of `start()` and `stop()` meet (`Stages`), who holds the
  memberships at each (`Members`), and that a stopped consumer listens to no breaker.
  `NothingLeft` and `TopicsFirst` follow. Without the table of pairs neither is
  inductive: a membership is left behind or not depending on whether the stop came
  before the handles were wired.
- `Served`: a record is active only on a consumer that runs, or whose stop is draining;
  `StoppingWaits`.
- `Slots`: for each level, `Kept`: its slots count the re-entries that run, its line holds
  each waiter once, and while somebody stands in line, those that run, were woken or
  pass on a wake-up are as many as there are slots. The last conjunct is why a slot is
  never lost: each way to lower one number raises another (`SlotsAreHandedOn`).
- `Routing`: each routed topic is in the plan of its owners, at its level, every topic
  of an accepted plan is routed, and its DLQ is not. `OrderDoesNotMatter` needs both
  directions: the refusals of `route()` look at routes, the statement at pairs of
  subscriptions.

`NoMessageGoesRound` and `MessagesKeepTheirOwner` follow from `Routing` by induction over
the failures of a message (`After`, a recursive function). The library's induction
theorems cannot be instantiated here, so `CountUp` obtains the induction from the least
element of a nonempty set of numbers (`WFMin`), `Iterated` the function that goes on from
a value step by step, and `AfterWithin` says where `After` leads, given what one failure
does: it leads a level up (`FailsUpwards`), and along its owner's ladder (`OnItsWay`).

`DeliveryContractProofs` proves `NothingIsSkipped`: under the contract, every record before
the place a partition is read from is done with, in the hands of the core, or parked.
Done with means handled, but for those a reading passed over before the first commit of
its partition. The invariant is inductive next to the types.

`PlatformaticConsumptionProofs` proves that the platformatic adapter keeps it, for any
partitions, records, concurrency, buffers and troubles: `ConsumptionImplementsContract`
(`Spec => ImplementsContract`), and with the same invariant `LineAndCounterAgree`,
`NothingCommittedUndone` and `ConsumptionSkipsNothing`. The parts of `IInv`, types apart:

- `Line`: the gate fits together (`Fit`: nobody stands in line twice, or with an empty
  queue, running or paused; the count is that of the places) and, until a stop, all that
  may go on are in line (`InLine`) and a slot is free only if nobody waits. After a stop
  only `Fit` remains: what ends then does not dispatch.
- `Room`: who waits for room holds one message, and there is none; who was granted some
  finds it.
- `Owned`: queues and last offsets are of partitions that are owned. What a join leaves
  depends on it, as does the dispatch: a message that is queued is never skipped.
- `Hands`: with all before a record in delivery or parked the group is done, and one that is parked
  keeps its partition paused.
- `Order`: the queue of a partition is `Sorted`: everything before its head is done,
  is parked or in delivery by somebody who will handle it (`Live`), it is ascending, and
  a gap in it is done.
- `Arrival`: so is what the stream still holds (`Follows`), of a partition that was not
  lost since the stream was opened; of one that is not owned it holds nothing (`Unread`).
  This is where a rotation is needed: a partition that comes back under the old stream
  would not follow.
- `Fresh`: before a consumption began, none of it exists.

`CommittedIsDone` alone is not inductive: whether a commit may pass a record depends on
what was before it in its queue, and that on what the stream held when it was queued.
`Dispatch` is a loop; that one turn of it is all that a delivery that ended, a resume or
a message queued can take (`Turns`, `FlowsIs`) follows from `Line`, and makes each of them
one delivery of the contract at most. TLC checked the invariant before it was proved, on the
instance of the run and on one with three records and a queue of two.

The assumptions are those of the modules, which TLC evaluates in every run: beyond the
shape of the constants, that the partitions and the ladder are finite, that a naming of
retry topics is a sequence, that no topic subscribed to is nameless (`requireNonEmptyString`
in `subscribe()`), and that a dead letter's addressing is known (`Backlog`).

`TypeCorrect` and `HarborTypes` are proved for every instance, so their runs do not list
the type invariants; those of the other modules are conjuncts of the first invariant
of their run, or of the invariants of the proofs.

Only model-checked:

- What holds of the overrunning client alone, and the findings.
- The liveness properties, out of the proof system's reach.

No module has a `RECURSIVE` operator.

## Observations

Behaviours the models show and no run is about. They are in the models as the code has
them.

- The in-memory adapter's gate can be exceeded: `release()` wakes a waiter and lowers
  the count, and a newcomer may take the slot before the waiter runs. That is more than
  `src/adapter.ts:92` and `:99` allow ("processed concurrently up to `concurrency`"), and a
  redrive, which asks for one at a time (`src/redrive.ts:139`), may overshoot its `max` by it,
  by up to the number of partitions less one, though `src/redrive.ts:24` says "Stop after
  this many messages were re-injected or skipped". `StopsAtMax` is the bound that holds over
  that adapter, the one for tests; over one that keeps to `concurrency` a run stops at `max`.
- A redrive repeats a dead letter after a failed commit, and over the Confluent and the
  platformatic adapter also after a produce that landed with its acknowledgment lost. Over
  the in-memory adapter, which `Redrive` runs on, a produce that failed never landed.
- What the fifth finding shows of a rotation holds of any end of a reading before the first
  commit, with either client and by the documented default (`README.md:252`): a record that
  was delivered, failed to commit or was produced to a retry topic nobody has committed
  on is passed over by the member that comes next. `docs/delivery-semantics.md` names no
  such condition.
- A rotation of the platformatic adapter forgets `lastQueued` for the partitions it
  kept too, so a record in flight or parked there is delivered again. The contract
  allows it (nothing is skipped), the handler sees it twice.
- `connect()` of the platformatic adapter while an attempt that a disconnect overtook is
  still closing joins that attempt and fails with it; a `consume()` that a disconnect
  overtook resolves, and only its caller can stop it. The harbor connects once, and a
  consumer stops what it opened.
- A membership lost while the pump waits for room is joined again only when there is
  room: a handler that runs long delays it.
- `stop()` of a consumer resolves while a `start()` that failed is still closing the
  levels it opened (`src/consumer.ts:741-746`); `NothingLeftOpen` therefore speaks of the
  time after both settled.
- A `start()` that failed leaves `stoppedBecause` unset, so `health()` still says healthy.
- A retry record without an owner that a leaking pause delivers is dead-lettered past
  the one parked before it.
- On a retry topic that is not shared, a foreign but whole tracking block keeps its
  original topic (`Written`), and a redrive follows it there.
- `deadLetterUnroutable` keeps the count and the original topic of a record as they
  were, but overwrites the last error and adds the time.
- `FencedStaysQuiet` speaks of a harbor that was told. One whose abort failed drops its
  producer without being told anything; if another instance takes the id then, the
  next transaction opens a producer and takes it back.
- A send or a transaction that waits for a connection that is never answered is not
  refused by the shutdown, which refuses only calls that wait for their turn.

## Not modelled

- `lag()`: reads watermarks and committed offsets concurrently and subtracts; it
  changes nothing but the promise that calls share.
- `health()`, signal handlers, `whenDrained()`, the admin calls: reads of state that is
  modelled, or calls without a step of their own to race.
- The partitioner: 32-bit arithmetic on the bytes of a key, which has to agree with
  other clients. Their test vectors decide that; a model would be a second copy.
- Serializers and the schema registry: to the pipeline a record decodes or does not.
- Idempotency: an external engine wrapped around the handler.
- Events, metrics, traces and logs: nothing reads them back. The one part that may
  disturb a produce, `wrapped()`, is in `Redrive`.
- Framework bindings, errors, types, durations, validation: wiring and declarations.
- The refusal of a transaction begun inside another: an async context.
- Of the Confluent client its own polling, of the platformatic one the fetches beneath
  its stream: external, and modelled by what the adapter can see.

## Plan

In this order; each later module composes with or refines the ones above it.

1. `AtLeastOnce`, `ConsumerPipeline` and their proofs. Done.
2. `BatchPipeline`, over the same ledger, and its proofs. Done.
3. `TransactionalProducer` and `Harbor`, and their proofs. Done.
4. `DeliveryContract` and `PlatformaticConsumption`, and the proof that the second
   implements the first. Done.
5. `Subscriptions`, `Journey` and `Lifecycle`, re-entry slots included, and the proofs of
   the last. Done.
6. `MemoryAdapter` and `Redrive`, and their proofs. Done.

Every safety property of the passing runs is a theorem. What remains: the overrunning
client in `ConsumerPipeline`, for which `InOrder` is false and what does hold is only
known from TLC.
