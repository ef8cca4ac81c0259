# A verification of DotNetFramework.CAP

CAP is a .NET library that moves messages between services with the help of an
outbox. A service publishes a message by inserting a row into a SQL Server table
`Published`, in the transaction that changes its own data; CAP sends the row to
RabbitMQ after the commit. A receiving service inserts what it gets into a table
`Received` and runs its subscriber from there. Rows that are not settled are read
again by a retry processor every minute. What CAP promises, and what this project
is about, is that a message whose row is committed is sent, or consumed, at least
once, or that somebody is told that it was not.

Paths below are relative to `src/src/DotNetFramework.CAP/`. `CAP/` stands for
`DotNetFramework.CAP/` (the core), `SQL/` for `DotNetFramework.CAP.SqlServer/` and
`MQ/` for `DotNetFramework.CAP.RabbitMQ/`.

## 1. Inventory

### Components, their state and their operations

| Component | State it keeps | Operations | Where |
|---|---|---|---|
| Publisher and CAP transaction | `DbTransaction`, `AutoCommit`, `NotUseTransaction`, `_bufferList` | Begin, Publish, Commit, Rollback, Dispose, Flush | `CAP/Abstractions/CapPublisherBase.cs`, `CAP/ICapTransaction.Base.cs`, `SQL/ICapTransaction.SqlServer.cs` |
| Dispatcher | one queue per direction | EnqueueToPublish, EnqueueToExecute, the loops Sending and Processing | `CAP/Processor/IDispatcher.Default.cs` |
| Message sender | a copy of the row it sends | SendAsync with its retries, the state writes, the threshold callback | `CAP/IPublishMessageSender.Base.cs`, `MQ/IPublishMessageSender.RabbitMQ.cs` |
| Retry processor, collector | the batch it read; none | scan of both tables; deletion of expired rows | `CAP/Processor/IProcessor.NeedRetry.cs`, `SQL/ICollectProcessor.SqlServer.cs` |
| Storage | the rows: `StatusName`, `Retries`, `ExpiresAt`, `Added` | insert, two scans, update by id, delete | `SQL/IStorageConnection.SqlServer.cs`, `SQL/IStorageTransaction.SqlServer.cs` |
| Consumer register and clients | `_isHealthy` (static), `_cts`, a channel and a delivery tag per client | Start, ReStart, Pulse, Dispose; Subscribe, Listening, Commit, Reject; the handler | `CAP/IConsumerRegister.Default.cs`, `MQ/RabbitMQConsumerClient.cs` |
| Subscriber executor | the copy it executes, the subscriber cache | ExecuteAsync, SetFailedState, the callback message | `CAP/ISubscribeExecutor.Default.cs`, `CAP/Internal/IConsumerInvoker.Default.cs`, `CAP/Internal/MethodMatcherCache.cs` |
| Channel pool | `_count`, `_pool`, `_maxSize`, `s_lock`, `_connection` | Rent, Return, GetConnection, Dispose | `MQ/IConnectionChannelPool.Default.cs` |
| Processing server, bootstrapper | the servers, a token source | start in order, loop for ever, dispose | `CAP/IBootstrapper.Default.cs`, `CAP/Processor/*.cs` |
| Snowflake ids | last timestamp, sequence | NextId | `CAP/Infrastructure/SnowflakeId.cs` |
| CapCache (its one entry is read by nobody) | entries, timers, a lock | AddOrUpdate, Get, Remove, Clear, Dispose | `CAP/Internal/CapCache.cs` |
| Topic selector | the subscribers per group, two dictionaries of expressions | SelectBestCandidate: by name, by `*`, by `#` | `CAP/IConsumerServiceSelector.Default.cs` |
| Binding, serialization, discovery, container, diagnostics, options, table creation, dashboard, sample | none that lasts, or configuration | | see `components` in `PROJECT.json` |

### How they interact

    application --Publish--> publisher --INSERT--> Published     (application's transaction)
                                |  Commit, then Flush
                                v
                            dispatcher queue --Sending--> sender --BasicPublish--> RabbitMQ
                                                            |                        |
    retry processor --scan--> Published <--UPDATE state-----+                        |
    collector --DELETE-->     Published, Received                                    |
                                                                                     v
    subscriber <--invoke-- executor <--Processing-- dispatcher <--enqueue-- client handler
                              |                                              | INSERT, ack
    retry processor --scan--> +--UPDATE state--> Received <------------------+

The nodes of an application share the tables and the broker's queues and nothing
else. Inside a node, the publisher's thread, the two loops of the dispatcher, the
retry processor, the collector, the transport check and one task per group run
concurrently. The publisher and the dispatcher meet in the in-memory queue, the
senders meet in the channel pool, the clients and the senders share one connection.

### What is hard here

* **Two systems, one commit.** Database and memory are changed by separate steps: commit
  then flush, store then acknowledge then enqueue, send then write `Succeeded`. A crash
  or a failure may come between any two.
* **Copies.** Each worker sends from a copy of a row and writes that copy back whatever
  the row says by then. Nothing claims a row, so two nodes, or the dispatcher and the
  scan of one node, may hold copies of the same row. Only the age of a row keeps the
  latter apart.
* **Counting to a threshold.** The callback is made when the count *equals*
  `FailedRetryCount`. A count that jumps over it is never reported.
* **Lock-free bookkeeping.** The pool's length is counted apart from the pool.
* **Two sets of rules.** The broker routes by topics, the selector finds the method by regular
  expressions made of the same topics; where they differ a message has no subscriber.
* **Ids.** Every row is known by an id made of the clock's time and a sequence in memory; a clock may stand still
  or be set back.
* **Restart.** A static health flag is set by tasks that fail and cleared by a restart
  that is started from another thread, on another instance of the register.

`hazards` in `PROJECT.json` lists these places one by one, each at its line, with the
properties that watch it, or a note saying why none does.

### What makes each component correct

* Publisher: nothing reaches the dispatcher before its row is durable, nothing that is
  committed waits in a buffer, a failed Publish is not sent.
* Delivery: a committed message is sent or reported, `Succeeded` means sent, no row is
  deleted before it is settled, failures are not forgotten.
* Receiving: acknowledged means stored, `Succeeded` means that the invoker came back (the method
  returned, or a `FormatException` of it was swallowed) and the answer went out, every message for a
  subscriber is consumed, given up over such an exception, or reported.
* Pool: the count is exact, the size is respected, no two threads share a channel, the
  thread that spins inside the lock gets out.
* Ids: no id is issued twice, a thread waiting for the next tick gets it.
* Selector: what the broker routes to a group finds a subscriber of that group.
* Register: a client that could not be created is tried again, a listener can be
  stopped, a group is heard in the end.

## 2. Modules

| Module | Models | Run by | Proved in |
|---|---|---|---|
| `CapTransaction` | publisher, transaction, buffer | `MCCapTransaction` | `CapTransactionProofs` |
| `Outbox` | the promise, abstractly | (as a property) | |
| `MessageDelivery` | sending: dispatcher, sender, retry scan, collector, on several nodes | `MCMessageDelivery` | `MessageDeliveryProofs` |
| `CapOutbox` | `CapTransaction` and `MessageDelivery` composed: the sending side from Publish to the broker | `MCCapOutbox` | `CapOutboxProofs` |
| `ChannelPool` | the RabbitMQ channel pool | `MCChannelPool` | `ChannelPoolProofs` |
| `MessageReceiving` | receiving: handler, dispatcher, executor, retry scan, collector, on several nodes | `MCMessageReceiving` | `MessageReceivingProofs` |
| `ConsumerRegister` | bootstrapper, registers, transport check, clients, connection | `MCConsumerRegister` | `ConsumerRegisterProofs` |
| `SnowflakeId` | the ids of messages and rows | `MCSnowflakeId` | `SnowflakeIdProofs` |
| `TopicSelector` | which method receives a message | `MCTopicSelector` | `TopicSelectorProofs` |

The modules are joined in two ways. `CapOutbox` composes `CapTransaction` and `MessageDelivery` by instances over
shared variables. And the halves meet in the promise: `CapOutbox`, `MessageDelivery` and `MessageReceiving` all implement
`Outbox`, the first two with "handed to the broker" for *sent*, the last with "the
invoker of the subscriber's method came back". `MessageDelivery` alone has an action `Store(n, m, handed)` in the place of the
publishers, so that it can be studied (and proved) with several nodes; `handed` says whether the flush took place or
only the row is left. `SnowflakeId` justifies that messages and rows are identities in all other modules, and its
`Refuse` is the exception `IdThrows` of `MessageReceiving`. `TopicSelector` is behind `Subscribed` there.

### CapTransaction

A publisher's call is split where another thread, the database or a crash can come
between: `pc` is `execute` (the insert), `addToSent`, `commit`, `flush` (one message per
step, the loop of `Flush`) or `dispose` (the `finally` block of `PublishAsyncInternal`).
`tx` is the state of each database transaction as the server sees it; `unacked` is a
transaction that the server committed while `Commit` threw. `rowTx` is the transaction a
message's row belongs to. The application is free to call Begin, Publish, Commit and
Rollback in any order, with two restrictions that are constants. `MixedUse`: may one
publisher publish without a transaction and then begin one? `ReuseAfterRollback`: may it
begin again after a transaction that did not commit? Both are FALSE in the passing run
and TRUE in one violation run each, because there the code breaks the docs.

### MessageDelivery

A row has a status, `Retries`, `ExpiresAt` (as null, future or past) and `old` (more than
four minutes). Each node has its queue, the batch its scan read, and two workers,
`dispatcher` and `needRetry`. A worker holds a copy of a row and stands at `send`,
`setSucceeded` or `setFailed`. `Write` puts the copy's columns over the row, as
`UpdateMessage` does. A failed send increments the copy, calls the threshold callback at
equality, and goes round again at once while the copy counts less than
`RetryCount = min(FailedRetryCount, 3)`. A write that throws abandons the message
and, in the retry processor, the rest of the batch. `sends` and `callbacks` are history.

Two constants are assumptions about time, which no code sees to. **Timely**: a row does not become old, and
does not expire, while a copy of it is in a node's memory. This is what the four minutes in the scan's query are for: the code has no other
means to keep the dispatcher and the scan apart. It fails when a backlog keeps a message
in the queue for longer; then messages may be sent twice, which "at least once" allows.
`SentOnce`, `OneCopy`, `SucceededIsFinal` and `RetriesNeverLost` need it, and a single node: two nodes hold copies of one row as
soon as both scan, and the code lets them. These four are checked in `CapOutbox`, where the publishers take part. What is checked
and proved here, the promise of the outbox included, does without it: `delivery_outbox` has it FALSE.
**RetriesInTime**: no row expires that is still to be retried. A failed row gets an `ExpiresAt` 15 days ahead with every failure, and the
collector looks at nothing else, so the assumption fails when an application is stopped for that long. The promise of the outbox
depends on it: with FALSE, TLC finds `ImplementsOutbox` violated (a send fails, the process dies, the row expires before the next scan
and is deleted, neither sent nor reported). What the collector keeps to all the same is `DeletedWasTried`: it deletes no row that was never tried.

### CapOutbox

The variables of both modules; `P` and `D` are the instances. A step of a publisher is `P!Step` or
`P!Application` together with `Meet`: rows whose transaction became durable turn from `Absent` to `Scheduled`
(`RowsAppear`; the queries read with `readpast`, so rows of an open transaction are passed over), and what the step appended to
`enqueued` is appended to the queue of `Home`, the publishers' node (`Handover`). Everything else is a step of `D` that leaves the
publishers alone, except that a crash of `Home` is a crash of both. So the dispatcher may send the first message of a buffer
while `Flush` still holds the second, whose row the scan can already read. Only the age of the row keeps the scan away: `Age`
waits for the calls that have yet to flush the message (`BeforeFlush`), which is what **Timely** means here. A transaction that
stays open for more than four minutes after a Publish is outside it, since `Added` is set when the message is made. `RetriesInTime` is as above.

### MessageReceiving

The handler runs per node through `store`, `commit` (the acknowledgement) and `enqueue`;
a refused insert rejects the message and the broker requeues it; an acknowledgement that
is lost makes the broker deliver again, which makes a second row. Executions are a set of
records, since `Processing` does not await them; the retry processor executes one copy
after the other. An execution is at `invoke`, `callback`, `setSucceeded` or `setFailed`.
The call of the subscriber's method has three outcomes: it returns (`Invoke`), it throws a `FormatException`, or its argument's
binder does (`InvokeSwallows`: `IConsumerInvoker.Default.cs:95` logs it and returns null, and the execution goes on as after a success), or
anything else is thrown (`InvokeThrows`). `consumed` counts the first, `swallowed` remembers the second; `Invoked` is either. What the
properties promise, they promise of `Invoked`: after the second outcome the callback message is published and the row becomes
`Succeeded` and is deleted like any other, though no execution of its method succeeded and only the log tells.
`entries` are the nodes whose subscriber cache is filled. A row whose subscriber is not
found gets `FailedRetryCount + 1` retries and is never looked at again.
`IdThrows` is the id generator throwing before the handler's `try`: the delivery is left without an answer and comes back only when
the node's channel is gone. `Arrive` is the broker's routing, in any order and number up to `MaxArrivals`.
**StartsFirst** says that a node finds its subscribers before its first scan. The code
starts the servers the other way round, which one violation run shows. `Timely` and `RetriesInTime` are as above; a slow subscriber,
whose row is old while it runs, is outside `Timely`, on which only `OneCopy` and `ConsumedOnce` depend.

### ChannelPool

Every atomic step of `Rent`, `Return` and `Dispose` is an action: entering `s_lock`, leaving
the spin loop, `TryDequeue`, `Interlocked.Decrement`, `CreateModel`, `Interlocked.Increment`
with its comparison, `Enqueue`, the undoing decrement. The public `Rent` leaves the lock
with the step that ends the call. `Dispose` sets `_maxSize` to 0 and drains, while
threads go on. `_count` is an integer; it stays far from the limits of 32 bits.

### SnowflakeId

One generator per process, called by several threads. `pc` is `idle`, `read` (in the lock, about to read the clock), `spin` (the loop
of `TilNextMillis`) or `issue`. Clocks tick (`Tick`), stand still and are set back (`SetBack`) between any two of these
steps; `Restart` gives a process a new generator. `Id` puts the parts together as the shifts do; the time
keeps 42 bits, `Span` ticks. Three things are the environment's: two processes have different workers (the
environment variables are set; without them the numbers are drawn at random), and, if **ClockKept** is TRUE, a restart takes at least a tick and a clock
is not set back behind what an earlier process of the same worker used (`floor`). The code sees to neither, because `_lastTimestamp` is in
memory only. While no process is started again, clocks are free to move in any way, with or without `ClockKept`.

### TopicSelector

`candidates` is the list of subscribing methods of the application, with group and topic, in the order reflection finds them; `TryAdd` fills
the cache group by group; a lookup is one of `FoundByName`, `FoundByAsterisk` and `FoundByPoundOrNot`, and keeps the lists
it made. An executor is a place in `candidates`, and a list of executors is a set of places, whose first is the least. Here texts are taken
apart character by character, since the properties are about a conversion: a topic is a sequence of words for
the broker (`Routes`: the words of the key are dealt out to those of the topic) and a text for the selector; a regular expression is a
sequence of items, each a set of characters that may be optional or repeated, and `IsMatch` follows the set of items
that may be next from character to character. `AsteriskRegex` and `PoundRegex` translate what the two chains of `Replace` produce, with their quirks: `.` is escaped
for topics with `*` only; in a topic with `#` a `*` stays and repeats the dot, or the `^`, before it.
`AnsweredAsAtFirst` says that the kept lists never change an answer. The quirks show where the other two properties stop. `RoutedIsFound` leaves out keys with characters outside `[0-9_a-zA-Z]` (a dash is
never matched), a `#` that stands for no word (it must match a character) and topics with both signs. `FoundIsBound` says nothing of the topic of a
method found by `#`, whose dots match any character.

### ConsumerRegister

`at` is where the task of a group stands: `queued`, `connect`, `createModel`, `subscribe`,
`listening`, or gone (`ended`, or `broken` when binding threw). `GetConnection` is two steps,
the test and the replacement of `_connection`. A task takes its token when it starts to
listen, from the field `_cts` as it is then. Disposing a client disposes its connection,
whoever else uses it. There are two registers, because the one the transport
check restarts is not the instance the bootstrapper started (each `IProcessingServer` is
registered as an instance of its own). Tokens and connections are numbered and
numbers that nothing refers to any more are used again.

## 3. Runs

| Run | Instance | Shows |
|---|---|---|
| `publish` | 1 publisher, 2 transactions, 4 messages, 1 crash, fair | the publisher's safety, and that a commit hands over what it committed |
| `publish_phantom` (violation) | as above, begins again after a rollback | a later commit flushes messages whose rows were rolled back |
| `publish_sticky` (violation) | as above, mixed use | a publisher that published once without a transaction commits the next one by itself |
| `outbox` | 1 node with 1 publisher, 1 transaction, 2 messages, 3 retries of which 2 at once, 1 refused send, 1 refused write, 1 crash, fair | from Publish to the broker: only what is committed is sent, and it is sent or reported in the end; a message is in one place at a time, sent once without crashes, a success is final, no failure is forgotten |
| `delivery_outbox` | 2 nodes, 1 message, 6 refused sends, 1 refused write, 1 crash, `Timely` FALSE, fair | the delivery implements `Outbox` and settles every message, however old the copies of two nodes are and in whatever order they are written |
| `channel_pool` | 3 threads, 5 channels, size 2, Dispose at any time, fair | the count, the size, exclusive channels, the spin loop ends |
| `receiving` | 2 nodes, a message with a callback or one without subscriber, 2 rows, 1 failure or wrong format, one refused write, lost acknowledgement or unanswered delivery, and crash, 2 of them together, fair | nothing acknowledged is unstored, one execution of a row per node, consumed once without faults, `Succeeded` means invoked and answered, the rows keep the promise of `Outbox`, every message is consumed, given up over a wrong format, or reported |
| `receiving_given_up` (violation) | 1 node, 1 message, 1 crash, `StartsFirst` FALSE | a scan after a restart gives a message up that has a subscriber |
| `register` | 2 groups, 2 restarts, 2 connections, 1 outage | no failure is forgotten, every listener can be stopped |
| `register_live` | 1 group, 2 restarts, 3 connections, 2 outages, stop at any time, fair | the group is heard in the end |
| `ids` | 2 processes, 2 threads each, 4 calls, 2 ids per tick, time repeats after 2 ticks, clocks of 3 values, 1 setback, 1 restart, `ClockKept` TRUE, fair | ids are unique within the span, the wait for the next tick ends |
| `topics` | 2 groups, 92 lists of 3 methods, 20 keys, lookups in any order | an answer does not depend on earlier ones, what is routed is found, what is found was bound |

Every property of a passing run has a mutant in `PROJECT.json`: a plausible slip in the
mapped code (a dropped condition of a query, a dequeue that peeks, an acknowledgement
before the insert, a flag cleared too late) which makes the same run find the property
violated.

### The bounds, and why they are enough

* *One publisher.* Publishers share only the database, where a transaction belongs to
  one of them, and the source of ids. The theorems cover any number of them. Two
  transactions and four messages give a message before, inside and after each, and a
  buffer with two messages of which one was rolled back.
* *Nodes and messages.* Messages do not influence each other except through the order of
  a queue and by sharing a batch that is abandoned; two messages on one node (`outbox`) show both.
  Copies of one row on different nodes do: `delivery_outbox` and `receiving` have two nodes. The
  theorems about the delivery hold for any number of either. The messages of `receiving` arrive one per history: two share only a batch
  that is abandoned, which `outbox` has, and the client's turn. One failing method, callback or wrong format comes on top of the refused write, which counts
  as a failure too, so that the threshold of 2 is met.
* *Retries.* `FailedRetryCount` 3 with 2 immediate retries is the smallest pair where a row passes
  both through the loop of the sender and through the scan before the threshold (the code has 50 and 3).
  Six refused sends let two nodes count to the threshold independently.
* *Faults.* Refusals and crashes are bounded since the promise needs them to end; one or
  two of each put a fault between any two steps, and two faults into one history.
* *Pool.* With size 2 and 3 threads there is a thread too many, so that `Return` meets the
  limit and the spin waits; 5 channels suffice for every thread to create one while the pool is full.
* *Register.* Two restarts overlap with each other and with the hosted register. When both
  connection numbers are in use a third connection has to wait; `register_live` has three.
  `register` does not stop the application, `register_live` does. The groups of `register`
  are symmetric.
* *Ids.* Two ids per tick make the third call of a tick wait; a span of two ticks with a clock of three lets the time
  repeat, so that the limit of `IdsAreUnique` is met. Four calls let each thread call twice, or one process use up a tick and go on after a
  restart. The theorem covers every number and width.
* *Topics.* Two letters and words of up to two, topics of up to two words (and three longer ones) show every combination of
  a sign with its neighbours; a method of another group stands between the two of the first, so that lists can be mixed up.
* *Deadlock* is not checked: every system here may come to rest once the bounds on its inputs
  are reached (except for `topics`, where lookups never end).

### Fairness

* Publisher: a call that was entered runs on (`WF` of its steps); the application owes
  nothing.
* Delivery and receiving: the loops of the dispatcher and the retry processor are threads that
  always run, an entered send or execution comes back, and time passes (`WF(Age)`). Nothing is assumed
  of the collector, of crashes or of faults. No strong fairness is needed.
* Pool: each thread takes its next step if it can. Acquiring `s_lock` has only weak fairness; the
  property is about the thread inside.
* Ids: threads run on, and clocks move on in the end, though they may be set back.
* Register: the bootstrapper, the check and the tasks run; the broker comes back and
  connections that were not disposed recover, as RabbitMQ.Client 5.1 does by default
  (`AutomaticRecoveryEnabled`). Senders and stopping owe nothing.

## 4. Findings

Three places where the code does something else than a doc of the repository says; each is a
violation run, quoted in `PROJECT.json`.

1. `Rollback` leaves `_bufferList` (`SQL/ICapTransaction.SqlServer.cs:93`): a publisher that begins
   again sends what it rolled back. The doc of `Rollback` says buffered data is deleted.
2. `NotUseTransaction` is never reset (`CAP/Abstractions/CapPublisherBase.cs:72`), so
   `autoCommit = false` is ignored after one publish without a transaction.
3. A row whose subscriber is not found is given up without retry and without report
   (`CAP/ISubscribeExecutor.Default.cs:114`), which hits messages that have one when a scan comes before
   the subscribers are known.
Two more need no run of their own, because the passing runs name them:

* The collector deletes every row whose `ExpiresAt` has passed (`SQL/ICollectProcessor.SqlServer.cs:45`), also one whose retries paused:
  retrying stops below the threshold at which, by the doc of `FailedRetryCount`, it is to stop, and nobody is told. `RetriesInTime` excludes it.
* A `FormatException` of the binder or of the subscriber's own method is swallowed (`CAP/Internal/IConsumerInvoker.Default.cs:95`): the row
  becomes `Succeeded` and its callback message is sent, by the doc of `ICallbackPublisher` "after a successful consumer execution".
  `InvokeSwallows` does it, and `Invoked` says so.

An oddity that needs no run: the sender's threshold callback passes `MessageType.Subscribe` for a message that could not be *published*
(`CAP/IPublishMessageSender.Base.cs:132`).

Limits of the code that no doc of the repository contradicts are written into the properties or the assumptions instead, so no property catches them:

* a group whose connection was disposed by another client is not reconnected (`CutOff`, `cut` in `ConsumerRegister`);
* a listener that took the token of the register's next generation, and the second listener a group gets when the other register is restarted,
  are listeners like any other to `EveryListenerCanBeStopped` (each has a token that some register still holds or has cancelled);
* a `Rent` on a disposed pool spins for ever inside the lock (`SpinTerminates` stops at Dispose);
* a subscriber that runs for more than four minutes is executed a second time meanwhile (outside `Timely`);
* ids may come again after a restart with a clock that was set back (outside `ClockKept`), and after the 2^42 ticks of the shifted time.

## 5. Proofs

All theorems are about `Spec` of their module, for every value of the constants that satisfies the named
assumptions there. The bounds on faults and messages are constants too, so they are arbitrary naturals.

* **`CapTransactionProofs`.** `TypeCorrect`, `HandedOverOnce` (`EnqueuedOnce`), `NoPhantom`
  (`EnqueuedIsDurable`, under `~ReuseAfterRollback`: the counterexample of `publish_phantom` shows that the
  hypothesis is needed). `EnqueuedOnce` is not inductive: one needs that the ids in `enqueued`, in the buffers and in the
  hands of running calls are pairwise different and below `nextId`. For `EnqueuedIsDurable` one needs that
  what a publisher buffers belongs to its present transaction or is durable already. Under `~MixedUse`, without which
  `publish_sticky` is the counterexample, `CommitsWhenAsked` (`CommittedWhenAsked`): its invariant `UseInv` says that a publisher
  with a transaction of its own never set `NotUseTransaction`, and that an open transaction belongs to the one publisher that
  began it. On it rest `NothingLeftBehind` (`NothingStranded`), where what is committed is in the hands of a running call until it
  is handed over, also if publishers begin again after a rollback, and `ThrownIsNotSent` (`ThrewIsNotEnqueued`), which needs
  `~ReuseAfterRollback` as well. TLC finds each of the two violated when one of its hypotheses is dropped.
* **`MessageDeliveryProofs`.** `TypeCorrect` (which includes that no copy passes the threshold), `SucceededCorrect`,
  `ThresholdCorrect`, `CollectorCorrect` (`DeletedWasTried`, under no assumption: what expires has been written, and what was written was
  tried, `TriedInv`) and `Implementation`: the delivery implements `Outbox` (under `RetriesInTime`, without which it fails, and whatever the age of the copies), by showing that each step is a step of `Outbox` or leaves its variables unchanged. The
  inductive invariant adds what the copies know (`CopiesSane`: a copy at `setSucceeded` was sent, one at
  `setFailed` with a full count was reported), what queues and batches hold (`QueuesSane`), that
  nothing has happened to a row that is not there (`AbsentUntouched`), and that, under `RetriesInTime`, what expired was
  settled (`ExpiredIsSettled`).
* **`ChannelPoolProofs`.** `TypeCorrect`, `CountCorrect`, the two `Debug.Assert`s of the code as `RentAssertion` and
  `ReturnAssertion`, and `NoSharing`. The invariant says that `_count` is the length of the pool plus one per
  thread between its two steps plus what `Dispose` took, and that a thread has a channel exactly
  between taking and giving one up. A lemma about the cardinality of the set of threads
  at given steps carries the counting.

* **`MessageReceivingProofs`.** `TypeCorrect`, `StoredBeforeAcked` (`AckedIsStored`), `SucceededCorrect` (`SucceededWasInvoked`), `ThresholdCorrect`,
  `NotGivenUp` and `Implementation`: the receiving half implements `Outbox`. The last two are under `StartsFirst`, which is the
  hypothesis that the counterexample of `receiving_given_up` lacks, `Implementation` also under `RetriesInTime`; copies may be of any age. *Sent* is `Invoked` there: the method returned or its
  `FormatException` was swallowed. The inductive
  invariant says what a handler has in its hands (`HandlersSane`: the row it acknowledges and queues is the row of the message it took),
  that nothing has happened to a row without a message (`RowsSane`), that queues and batches name rows that are
  there (`QueuesSane`), what an execution knows (`ExecutionsSane`: at `setSucceeded` the invoker came back and the callback message was
  published, at `setFailed` with a full count the row was reported), that a node with work has its subscribers (`EntriesSane`), so
  that no row with a subscriber is given up (`OwedIsNotGivenUp`), and that what expired was settled (`ExpiredIsSettled`).
  Its second part proves `ExecutedOneAtATime` (`OneCopy`) and `MessagesConsumedOnce` (`ConsumedOnce`), both under
  `Timely` (TLC finds both violated without it) and with or without `StartsFirst`. `CopyInv` says that the handlers, queues and
  `Processing` have a row once among them on all nodes (`NewIsOnce`), that each node's scan and retry execution have it once
  (`RetriedIsOnce`), and that the rows of the first kind are new and those of the second old (`NewOrOld`), so that no row is both.
  `OnceInv` adds, for histories without faults, that a message has one row or is yet to be stored (`StoredOnce`), that a row that is
  `Scheduled` is in somebody's hands (`ScheduledIsInHand`), so that no scan reads it, and what each stage says of the number of
  invocations (`InvokedOnce`).

* **`ConsumerRegisterProofs`.** `TypeCorrect`, `ListenersCanBeStopped` (`EveryListenerCanBeStopped`) and `FailuresAreRemembered`
  (`NoFailureForgotten`). The invariant says that the two registers have tokens of their own (`RegistersApart`), that inside `ReStart` the
  tasks of the last one are cancelled and the flag is still down (`PulsedIsCancelled`), that nobody but the stopping application
  and the next `ReStart` cancels (`CancelledOnPurpose`), that a client at work has a connection (`ClientsSane`), whose token a task of
  the last `Start` takes (`LatestHasItsToken`), and that a failure that is not repaired keeps the flag down (`FailureIsKnown`).

* **`CapOutboxProofs`.** The proofs of the two modules are instantiated (`PP`, `DD`), so that their lemmas hold of the composition
  once its steps are shown to be steps of theirs (`StepKinds`); `CapOutbox` repeats their assumptions on the constants for that.
  `Implementation` (`ImplementsOutbox`), on any number of nodes, under `RetriesInTime` and `~ReuseAfterRollback`: its invariant `OutboxInv` joins
  theirs by `RowsMatch`, that a row is `Absent` exactly while it is not durable. So a step of a publisher is `Store` of all the rows
  it makes durable, and what it hands over has a row. `InOnePlace` (`OneCopy`), `SentAtMostOnce` (`SentOnce`), `SuccessIsFinal`
  (`SucceededIsFinal`) and `FailuresAreKept` (`RetriesNeverLost`) are under `Solo`: one node, `Timely`, `~MixedUse` and
  `~ReuseAfterRollback`. TLC finds all four violated when any one of these is dropped (`MixedUse` with two transactions).
  Their invariant `NodeInv` says that what was handed over is in the queue or with the dispatcher, once (`FreshIsOnce`), that the
  scan's batch has a message once and not the one being sent (`RetriedIsOnce`), that a message of the first kind, or still to be flushed, is young
  and one of the second old (`FreshOrOld`), so that none is both, and hence what each copy knows of its row (`InHandIsUnsettled`,
  `CopiesCountRetries`, and without faults `Unsent`). The step that could break it is a publisher that comes to have a message to flush
  while the scan may have its row: `ToFlushIsNew` of `CapTransactionProofs` shows that such a message was not durable before.

* **`SnowflakeIdProofs`.** `TypeCorrect`, `UniqueIds` (`IdsAreUnique`, under `ClockKept`) and `UniqueUntilRestart` (the same without
  `ClockKept` while no process was started again). Both follow from `KeptInvariance`: the invariant holds as long as there was no restart or the
  clocks are kept (`Kept`). The invariant says that at most the holder of the lock is
  inside `NextId` (`LockExclusive`), that the clock and the last time are past `floor` (`ClockAfterFloor`), that whatever was issued is at or
  before the last time and, in that tick, has a smaller number (`IssuedIsPast`), that what a thread is about to issue comes after all of it
  (`IssueIsNext`), so that the pairs of time and number of a worker differ (`NumbersDiffer`). Lemmas about
  products read the parts of an id back from the sum, for every width; two times that differ by less than the span are different modulo
  the span (`CloseTimesDiffer`).

* **`TopicSelectorProofs`.** `LookupsAnswerAsAtFirst` (`AnsweredAsAtFirst`), `RoutedMessagesAreFound` (`RoutedIsFound`) and
  `FoundMessagesAreBound` (`FoundIsBound`), for words, keys and topics of any number and length. What is assumed (`SpellingAssumption`,
  `KeyAssumption`) is that a sign is a word of its own and in no key, that no word has a dot or is empty, and that words differ in their spelling.
  The inductive invariant is small: the candidates do not change, so the kept lists are those that would be made now (`ListsAreCurrent`) and the last answer
  is the best one (`AnswerIsBest`). The work is in the conversion. `TextShape` says of the text of some words where each of them starts and to which word
  each character belongs, `Walking` what comes after a character. `MatchTakes` and `TakesMatch` say that an expression without
  optional items matches a text exactly if a function `f` gives each character its item, from the first item to the last, where
  each step goes on by one or repeats an item. In one direction (`AsteriskWords`) `f` is followed through key and topic side by side and keeps to the same
  word, because only dots take dots; in the other (`RoutedMatches`) `f` is made of the way the broker deals out the words.
  Induction is by sets of numbers: strict inclusion of finite sets is well-founded, so among the intervals `0 .. k` of the numbers `k` of a set
  there is a least (`Least`), and a set of numbers with 1 and all successors is everything (`UpTo`); that a
  recursive function has the values of its equation follows from functions on longer and longer intervals that satisfy it (`Flattening`, `Matching`).

Only model-checked: everything under fairness (`CommittedIsEnqueued`, `CommittedIsSettled`, both `SettlesEveryMessage`,
`SpinTerminates`, `SpinEnds`, `ComesToListen`), since TLAPS has no reasoning about ENABLED. All other properties of the passing runs are theorems.

## 6. Not modelled

* Contents, headers, JSON, reflection, logging and diagnostics: they decide whether a call throws, and
  that is a free choice in the models.
* The broker beyond queueing, acknowledgement and redelivery. `x-message-ttl` of the queue lets the broker drop what
  waited too long; `SettlesEveryMessage` of the receiving half assumes it does not.
* Publisher confirms: `BasicPublish` returning counts as taken by the broker, as the code takes it.
* The stopping token firing before `Start`, except for the register; `Dispose` of the dispatcher, which for the
  tables is a crash.
* The dashboard and `IMonitoringApi.SqlServer.cs`, which are not compiled or commented out.
* `CapCache` (`CAP/Internal/CapCache.cs`): its only caller is the node discovery, which writes one entry that only the dashboard
  would read. Nothing that is compiled reads the cache, so nothing depends on what it does.
* JavaScript. The `.js` files of the repository are jQuery, Bootstrap and Modernizr in the sample application, and the script of the
  dashboard that is not compiled. None is part of the library; the program is the C# code.
* Topics and keys that use the selector's quirks (see `TopicSelector`), and two methods with the same topic in one group, of which only the first runs.
* Bad configuration: worker numbers out of range make `SnowflakeId` throw from its constructor on every call.
* `PROJECT.json` names the other components and the reason for each.

## 7. Plan

Written so far, in this order: `CapTransaction`, `Outbox` with `MessageDelivery`, `ChannelPool`, `MessageReceiving`,
`ConsumerRegister`, `SnowflakeId`, `TopicSelector`, `CapOutbox`, and the proofs of all of them. Left:

1. The pool composed with the life of the connection (`ChannelPool` and `ConsumerRegister`): channels of a disposed connection in the
   pool fail one send each time they are rented. No doc says what the pool owes in that case, and `MessageDelivery` lets any send fail.
