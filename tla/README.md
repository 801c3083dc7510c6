# Verification of rocketmq-proxy in TLA+

rocketmq-proxy is a gRPC server in front of the C++ RocketMQ client: clients
that cannot use the client library produce, consume and acknowledge messages
through it. This directory holds TLA+ modules of its own logic, TLC
configurations that check them on small instances, and proofs that TLAPS checks
for every instance. File and line references are to the repository.

## The system

| Part | State | Operations | Hard behaviour | What makes it correct |
|---|---|---|---|---|
| `ConsumerUnitLocker` (MsgWorker.h 55, .cpp 245-328) | one per blocked callback: verdict and client status per message, messages not handed out, `reconsumeMap`, verdict on the batch | constructor, `getMsg`, `setMsgStatus`, `triggerCheck` | three threads change it under different locks | a verdict on the batch only when all messages have one, and in agreement with them |
| `ConsumerUnit` (MsgWorker.h 79) | `lockers`, `lastActiveAt`, the push consumer | `fetchAndConsume`, `setMsgAck`, `setMsgReconsume`, `unlockAll`, `waitLock`, `eraseLock` | callbacks block until clients answer | every callback is released, nothing is lost |
| `MsgWorker::loopMatch` (matcher thread) | `consumeMsgPool`, `ConsumeMsgUnit`s, `idUnitMap` | match waiting calls with messages, watch acks, time out | lost notifications, tests that are stale when used | every request answered, every delivered message watched |
| `ConsumeCallData`, `ConsumeAckCallData` | `status_`, request, reply, `msgId` | `create`, `process`, `responseMsg`, `responseTimeOut`, `del`, `cancel` | deleted by one thread while another holds a raw pointer; replies that do not get through | one `Finish`, then one deletion |
| consumer life cycle (`getConsumer`, `shutdownConsumer`, `clearMsgForConsumer`) | `consumers`, `clearConsumerKey` | create, shut down, release callbacks | check-then-act, two threads that talk through one string and sleeps | the unit that was shut down is erased; the shutdown ends; nothing is lost by it |
| `ProduceCallData`, `getProducer` | `retryCount`, `producers` | `process`, `successFunc`, `failureFunc`, `del`, `cancel` | retries on callback threads, a map without lock | each request answered once, after at most six sends |
| `ProxyLogger` | `logQueue`, the batch, `esErrorCount` | `writeLog`, `loopConsumeLog`, `bulk` | slow or failing Elasticsearch | each record leaves once, in order |
| `ServerImpl`, `CallDataBase` | completion queue, call objects by tag | constructors, `create`, `HandleRpcs`, `Proceed` | tags outlive nothing: an object in the hands of two threads; the next object of a class | each object referred to once, one per class that waits for the next request (for Produce one more with each retry) |
| generated code (`Proxy.pb.*`, `Proxy.grpc.pb.*`), `protos/` | the six message classes; stub and service | constructors, `Clear`, setters, parsing, serialisation; the methods by number | defaults that are not sent, unknown fields, strings that are not UTF-8 | what arrives is what was sent |
| clients (`ConsumeClient.cpp`, `ProduceClient.cpp`, `php/`) | one RPC, the id to acknowledge | `Produce`, `Consume`, `ConsumeAck` | killed at any time, exit on a status that is not ok | every RPC ends |
| `QueueTS`, `MapTS` | queue and map with a mutex each | `push`, `try_pop`, `insert`, `try_get`, `erase`, `getAllKeys` | used without a common lock | atomic operations |
| `Server.cpp`, `Arg_helper.h`, `Ip.hpp`, `include/`, Docker | | | | not modelled, see below |

Threads: `HandleRpcs` (the only thread of the completion queue, "handler"), the
matcher, `notifyTimeout`, the shutdown and clear threads, the logger thread
(MsgWorker.h 184-230), the consume threads of each push consumer, and the
callback threads of the producers. A consume call goes handler -> pool ->
matcher -> locker of a blocked callback -> `Finish`; its ack goes handler ->
locker -> callback -> verdict for the broker. `idUnitMap` ties the two together.

## Modules

- `ConsumerUnitLocker.tla`: the locker as a record and its methods as operators
  on the record. A `MsgUnit` is its position in the batch. `Accounted` says what
  a locker may claim, given what clients acknowledged.
- `ConsumerUnit.tla` (EXTENDS it): the unit's methods lock by lock. `caller` holds
  where the matcher and the handler are in `setMsgAck` and `fetchAndConsume`,
  `waiter` where a callback thread is in `waitLock` and `eraseLock`. Two calls of
  `setMsgAck` overlap at every line, with the insertion into `reconsumeMap` split
  into its lookup and its link; `triggerCheck` scans one unit per step, publishes,
  then notifies.
- `MsgWorker.tla` (EXTENDS it): one registered consumer, its callback threads,
  the matcher, the consume and ack calls, the clock. `matcher.pc` and
  `handler.pc` are the places in `loopMatch` and in the handlers where another
  thread can get in: `Fetch` / `Register` / `ResponseMsg` / `WatchAck` are the
  four pieces of the callback of `fetchAndConsume`; `AckTimeout` /
  `SetMsgReconsume` are the test and the act of lines 35-36; `AckProcess` /
  `AckReply` the locker's part and the unit's part of an ack. A critical section
  of `ConsumerUnit` (`setMsgAck` over all lockers, `getMsg`) is one step: that it
  is more, and what may happen inside of it, is `ConsumerUnit.tla`'s subject.
  In `CutShortOnlyInDelivery` the exception is needed: a request that arrives when the
  consumer is nearly too inactive is answered while the test of line 136 is true, and
  TLC finds its client cut short without it, in either of the two steps of `Delivering`.
- `AtLeastOnce.tla`: what the consume path promises, without calls, timeouts and
  locks: `Take`, `Acknowledge`, `Settle`. `MsgWorker.tla` instantiates it with
  `held[t]` as the batch of thread t's locker.
- `ShutdownConsumer.tla` (EXTENDS the locker): several keys and consumers, the
  registry, `getConsumer` split at check, start and insert, `waitLock` split at
  its mutexes, `shutdownConsumer` and `clearMsgForConsumer` line by line, and the
  requests that need a consumer: the matcher and the handler call `getConsumer`,
  then use the unit they got (`Deliver`, `FetchAgain`, `ResponseTimeOut`,
  `SetMsgReconsume`, `HandlerAck`, `HandlerCancel`), whatever has become of it.
  The use is one step; its inner steps are the subject of the two modules above.
- `ProduceCallData.tla`: produce calls; `process` runs on the handler or, for a
  retry, on a callback thread (`onHandler`).
- `ProxyLogger.tla`: the log queue, the batch, and where the records go (`out`).
- `ProxyMessages.tla`: the messages as the generated classes handle them: a record
  to a sequence of numbered and typed fields, and back. Fields at their default
  are not written, unknown ones are kept, strings that are not UTF-8 are written
  and not parsed.
- `ServerImpl.tla` (EXTENDS it): call objects of the three classes, the
  completion queue, `HandleRpcs`. `requested`, `queue`, `finishing`, `producing`
  and `matching` are where an object's pointer may be. `TryProduce` is
  `ProduceCallData::process`, which the handler runs for a request and `FailureFunc`
  for each retry; both make the next object. What happens to a message is reduced to
  `store`: with the broker, held for a client, acknowledged as consumed, or reported
  as consumed by the shutdown of its consumer (`UnlockAll`).
- `ProxyClients.tla` (EXTENDS it): the four client programs with their stubs.
- `MCMsgWorker.tla`, `MCConsumerUnit.tla`, `MCShutdownConsumer.tla`,
  `MCProxyClients.tla`: batches, bodies, programs and symmetry for TLC.
- `ConsumerUnitLockerProofs.tla`, `ConsumerUnitProofs.tla`, `MsgWorkerProofs.tla`,
  `ProduceCallDataProofs.tla`, `ShutdownConsumerProofs.tla`,
  `ProxyLoggerProofs.tla`, `ProxyMessagesProofs.tla`, `ProxyClientsProofs.tla`: the
  lemmas and theorems about the module of that name.

Variables marked "history" (`received`, `acked`, `consumed`, `raced`, `woken`,
`reply`, `sends`, `out`) record what happened and guard nothing, but for
`received`, as a client acknowledges only ids it was given, and for the bound
that `woken` keeps. Definitions whose
comment says "Mutant:" are faulty forms of the definition that follows them; no
specification uses them. They show that a property can fail.

## What is outside, and what is assumed of it

- The RocketMQ client is a fork (docker/Dockerfile) of which the repository has
  only the headers. Assumed: a callback's `statusVector` (MsgWorker.h 139) holds
  the verdict per message, and when it is empty the returned status goes for the
  batch; a message with `RECONSUME_LATER` goes back to the broker and may come
  again under the same id; `shutdown()` starts no callback any more and joins the
  callback threads; `send()` throws, or calls back once.
- The push consumer's default is one message per batch, and the code does not
  change it (`setConsumeMessageBatchMaxSize` has no caller), but the code is
  written for vectors, and both sizes are checked.
- gRPC: after `Finish` the completion queue reports one event, ok or not ok. A
  request event that is not ok comes at server shutdown only, which the program
  never does.
- `start()` may throw. `getConsumer` and `getProducer` then return `nullptr`,
  which all callers dereference: the modules stop there (`nullptr`, `crashed`).
- `std::map` operations of `producers` that overlap with an insertion may miss a
  key (`FindMiss`). `clearConsumerKey` is read without its lock in line 162; the
  read is taken to return some value it had.
- The sleep of line 164 is taken to be as long as its comment means it to be
  (`Slept`). A consumer becomes too inactive (20 s) only after `start()` has
  returned, and after the clear thread, which looks every second, has finished
  with the shutdown before (`NothingToClear`).
- Two overlapping insertions into `reconsumeMap` may lose an entry (`raced`); the
  other overlapping accesses of the data race in `setMsgAck` are taken to be to
  existing nodes, and to read the old or the new value.
- gRPC takes a request's bytes and a reply's as they are, reports a request that
  does not parse as failed to the client only, and `Finish` as not ok only if the
  client is away. A process that is killed may have sent its request.
- The broker gives a message that goes back to it to any later call.

## Runs

| Run | Module | Shows |
|---|---|---|
| `consume` | MsgWorker | TypeOK; `NoSilentLoss`: what is reported as consumed was acknowledged with success; `BatchesAccounted`; `CopiesConserved`: no copy of an unacknowledged message disappears; `CutShortOnlyInDelivery`: when `getIsTooInactive` holds, no client is inside its ack time but one that the matcher is just answering (lines 14-17, up to `resetConsumerActive`); `AnsweredOnce`: one `Finish`, before the one deletion; `ImplementsAtLeastOnce` |
| `timeouts` | MsgWorker, fair | without acks, every delivered message is watched (`WatchedUntilAcked`) and released (`BatchReleased`); `EveryRequestAnswered` |
| `consumer_unit` | ConsumerUnit | with the matcher and the handler in `setMsgAck` at once: TypeOK (a caller is only in lockers that exist), `NoSilentLoss` but for the raced entries, `SettledBeforeReturn`: nobody is at work on a batch whose verdict its callback reads; `NoLostNotify`: a verdict without the mutex finds its callback blocked, unless that had woken up for nothing |
| `registry` | ShutdownConsumer | TypeOK (the unit `unlockAll` is called on exists); `ErasesOwnUnit`; `RegisteredRuns`: what is registered runs or is about to be erased; `NotificationKept` with one key: a callback that a shutdown waits for is announced |
| `shutdown_one` | ShutdownConsumer, fair | `ShutdownCompletes`, with one key; `RequestAnswered`: a request that waits while its consumer is shut down is answered |
| `produce` | ProduceCallData, fair | TypeOK, `OwnedOnce`, `RetriesExhausted`, `SlotsAccounted`, `ProduceAnswered` |
| `logger` | ProxyLogger, fair | TypeOK (batches never exceed `max`), `RecordsAccounted`, `RecordsLeave` |
| `rpc` | ProxyClients, fair | a consumer's and a producer's program, in C++ or PHP, against the server: TypeOK; `ReferencedOnce`: one pointer to each object, in a place that fits its state; `NextWaits`: whatever became of the requests before, a class has an object for the next one, exactly one for Consume and ConsumeAck, at least one for Produce; `RequestIntact`: what `process()` reads is what the client set; `UnreadableNotAcked`: no client acknowledges a body that none can parse, so that only a shutdown of the consumer ends its deliveries; `RpcEnds` |

Four more runs show disagreements between the code and what the repository says
of it; TLC finds the property violated:

| Run | What happens |
|---|---|
| `unlock_loss` | `unlockAll` sets statuses but not `reconsumeMap`; the callback reports as consumed what no client acknowledged |
| `ack_race` | an ack accepted between lines 35 and 36 is overwritten, and the acknowledged message comes again |
| `wrong_unit` | an ack of an earlier delivery marks the unit of a later one, whose batch then waits for a client forever or until the shutdown |
| `lost_key` | line 168 erases the key of the next consumer (`NotificationKept`, with two keys); its `shutdown()` waits for a callback nobody is told to release, and no consumer is shut down any more |

A relative of `lost_key`: a shutdown that ends by itself leaves its key, so that
`unlockAll` may hit a consumer created later, against the comment in line 163.

### Bounds

`consume`: two messages in batches of one or two, two consume calls, one ack
call at a time (it is reused without limit), one callback thread; a call is used
once. The interesting interleavings need two deliveries of one message (two
calls), or a batch with messages in different states (two messages). The three
limits are 1, 1 and 2 with ages up to 2 instead of 10, 10 and 20: the code
compares ages with the limits only, and what matters is their order. In
`timeouts` and the violation runs all limits are 1. The proofs cover any number
of threads, calls and messages.

`consumer_unit`: one callback thread whose batches have one or two messages (two
are needed for a race on `reconsumeMap`), the two callers without limit, one
spurious wakeup in each wait (`woken`).

`registry`: two units, which are reused when nobody refers to them (`Fresh`), for
one key and two getters: one unit that is shut down, and one that replaces it or
lost the insertion. `shutdown_one` has no handler jobs, `lost_key` two keys and no
handler. A key has one Consume call at a time, a batch one message.

`produce`: `MaxRetry` 2 for 5, two requests (`MaxRpc`), and as many call objects as
these can create. `logger`: five records, batches of two, two errors.

`rpc`: two clients, which are enough for one to hold what the other waits for; two
messages, one of which cannot be parsed; `MaxRetry` 1 for 5. `Copies` is two for
Consume and ConsumeAck, as a class has one object in use by its client and one that
waits; a third would need a second client of the same kind. It is three for Produce,
where each of the two tries makes another one. The programs are a PHP consumer with a
producer of each language, and a `ConsumeClient` alone (`Programs`): it goes on for
ever, and with a producer beside it the states are too many for the liveness check.
What two clients may do to each other is in the two pairs. A consumer may be shut down
at any time (`UnlockAll`). A client that is killed is not started again. `Num` is one
message for `ProduceClient`. The proofs cover any number of clients, messages, retries
and objects, and all programs.

### Fairness

`MsgWorker`: the matcher, a handler inside a handler function, `notifyTimeout`,
a callback whose batch has a verdict, and the clock go on: these are threads
that loop without conditions. Clients, the broker and the network owe nothing:
no fairness on requests, acks or message arrival. `ShutdownConsumer`: the
matcher, handler, shutdown, clear and callback threads and the clock go on, weakly;
the matcher comes to each request, strongly (`Match`), as its pool is a queue that
it takes from the front and appends to, so that no request is passed over
forever. `ProduceCallData`: a thread inside `process` goes on, and an asynchronous
send calls back. `ProxyClients`: for each client, gRPC matches its request with an
object that waits, and the handler comes to its events, strongly, as both are
queues that another client's requests may get ahead in; replies, timeouts and
callbacks weakly; a client takes a reply. It does not have to send anything. These
conditions are subscripted with the one variable that the action always changes
(`SF_rpc`, `SF_queue`, `WF_finishing`, `WF_client`), which is the same and cheaper.
`ProxyLogger`: the logger thread and the clock.

All runs but `consumer_unit` turn the deadlock check off: with calls used once,
requests bounded, clients that exit, or after a crash, the models stop where the
program would wait for the next client.

## Proofs

Every invariant of the passing runs is a theorem, and so are the two properties of
steps, `AnsweredOnce` and `ImplementsAtLeastOnce`. The proofs use the named
assumptions on the constants and, where the text says so, one more that the code or
a run of this project justifies. Few of the invariants are inductive as they stand;
what has to be added to them is the content of the proof.

**The locker.** `ConsumerUnitLockerProofs` has lemmas on the locker's methods:
`NewLocker` is accounted for; `GetMsg`, `SetMsgStatus` and `TriggerCheck` keep it so
(for `CONSUME_SUCCESS` if the id is acknowledged); more acknowledgements keep it so;
and `SuccessAcked`: what an accounted locker returns as consumed was acknowledged.

**The unit, lock by lock.** `ConsumerUnitProofs` proves, for any number of callback
threads and messages and any batches, `TypeCorrect`, `NoLoss`, `Settled` (for
`SettledBeforeReturn`) and `NotifyKept` (for `NoLostNotify`) from
`IInv == Types /\ Waits /\ Records /\ Works /\ Begins /\ NoLostNotify /\ NoSilentLoss`:

- `Waits`: a locker is in the map exactly while its thread is in `waitLock`, and the
  wait ends with a verdict only.
- `Records`: `Accounted` is too strong in the middle of `setMsgAck`, as a message is
  marked before its entry is linked. `Recorded` allows for the entries that a caller
  is about to link (`Pending`) and those that were lost (`raced`).
- `Works`: what a caller may rely on at its line. In the scan of `triggerCheck` it is
  that the units it came past have their verdict (`Seen`), which stays so whatever the
  other caller does, since a verdict is never taken back (`Later`, `WorkingLater`).
- `Begins`: a callback that is not blocked yet still has a message nobody was given,
  or its verdict: the reason why the notification without the mutex is not lost.

`Settled` follows: a callback that returns has left the map, in which every locker is
that a caller is in or will come to (`Works`), and its verdict needs all units settled
(`Recorded`).

**The consume path.** `MsgWorkerProofs` proves:

- `TypeCorrect`: `Spec => []TypeOK`, and `Accounts`: `Spec => []BatchesAccounted`,
  from `IInv == TypeOK /\ BatchesAccounted`. The second conjunct also says that the
  matcher has a message while it registers or responds, without which TypeOK is not
  inductive.
- `NoLoss`: `Spec => []NoSilentLoss`. By itself `consumed \subseteq acked` is not
  inductive: what a callback may return depends on the locker, and that the
  locker's verdicts are backed by acknowledgements is `Accounted`. The proof is
  `SuccessAcked` at `ReturnStatus`.
- `Refinement`: `Spec => ImplementsAtLeastOnce`: `ConsumeMessage` is `Take`,
  `ReturnStatus` is `Settle`, an accepted ack is `Acknowledge`, and every other
  step is a stutter.
- `OnlyDeliveryCutShort`: `Spec => []CutShortOnlyInDelivery`, and `Answered`:
  `Spec => AnsweredOnce`, from `CInv`, which adds who may still answer a call: its unit
  is in the pool once or in the matcher's hand (`OnePlace`), it is of a call in PROCESS
  as long as it has no message, and with a message its age is at least that of the
  consumer's last activity, unless the matcher is just answering it (`Calls`).
- `UnackedWatched`: `Spec => []WatchedUntilAcked`, with `Ack = {}`, as in the run
  `timeouts`: clients that are gone. With acks it does not hold: run `wrong_unit` shows
  a message that nobody watches. `WInv` says that a message which was handed out and
  has no verdict is about to be registered, or is that of a unit in CLIENT_RECEIVE
  that the matcher will come back to.
- `CopiesKept`: `Spec => []CopiesConserved`. The copies of a message in the batches are
  a finite set of places (`CopiesOf`); a batch that is taken or settled adds or removes
  as many as the broker loses or gets back.

**The produce path.** `ProduceCallDataProofs` proves `TypeCorrect`, `Owned` (for
`OwnedOnce`), `Exhausted` (for `RetriesExhausted`) and `SlotsKept` (for
`SlotsAccounted`), for any number of calls, keys and retries. The inductive invariant
adds to the first two that `sends` is `retryCount`, plus one while a send is out or was
answered with success, that a reply was given only to a call that is in FINISH or
deleted, and that a call in `process` has a key. The calls that wait are counted with
the retries, which are shown to be finitely many (`SInv`).

**The consumers' life.** `ShutdownConsumerProofs` proves `TypeCorrect`, `Erases` (for
`ErasesOwnUnit`) and `Runs` (for `RegisteredRuns`), for any number of keys, units and
messages. What is erased stays what was shut down because
`insert` keeps the entry that is there, and what is inserted runs because a unit is
in one place only: the inductive invariant adds that a unit about to be inserted
was started, is registered for no key and is inserted by no other thread
(`InsertsOwn`), that a unit is registered for one key (`Distinct`), and that
`shutdownConsumer` has a unit and a key from its test to `erase` (`ShutterHolds`).
`Shaped`, which is `Accounted` for all of `MsgId`, keeps the batches well typed.

`Kept` is `Spec => []NotificationKept` if there is one key; with two, run `lost_key`
refutes it. From `notify_one` to the return of `shutdown()` the key is in
`clearConsumerKey` or has been taken from there for this unit, or the callback is free
(`Told`). That needs the clear thread to have nothing left of the shutdown before when
a consumer that is too inactive is visited (`BeforeVisit`), and that `unlockAll` passes
over no waiting callback (`HasBatch`).

**The logger.** `ProxyLoggerProofs` proves `TypeCorrect`, with which no batch exceeds
`max`, and `Accounts` (for `RecordsAccounted`), for any number of records and errors.
The inductive invariant adds `Room`: a record is popped only into a batch that is not
full, as the batch is checked after each record. The rest is about sequences:
what left, the batch and the queue, one after the other, do not change when a
record goes from the queue to the batch (`PopMoves`) or when the batch leaves
(`LeaveInv`), and grow at the end when one is written (`WriteAppends`).

**Messages.** `ProxyMessagesProofs` proves `RoundTrip`: what a class parses from what it
serialised is the same message, with the fields at their defaults, which are not
written, and the unknown ones, which are; it is accepted exactly if its strings are
UTF-8. It holds for every class whose fields differ in name and number, for every message
of the class (`IsMessage`); that the six classes are such, and that constructors and
setters make such messages, are lemmas (`ClassesWellFormed`, `ClearIsMessage`,
`SetIsMessage`). Serialisation picks the fields to write with `Selected`, which is
defined by ranks, not by recursion over a sequence: an induction could not be proved.

**Server and clients.** `ProxyClientsProofs` proves, for any number of clients, messages,
retries and call objects, in two layers.

`Referenced` (for `ReferencedOnce`) and `OneNext` (for `NextWaits`) hold whatever the
messages are serialised to. The invariant says
of the statuses alone that an object's tag or pointer is in one place that fits its
status, that one event at most has it, and that an event which is not ok has one in
FINISH (`Apart`), that an object which exists is somewhere (`Reachable`) and that
each class has one that waits, and only Produce more than one (`OneWaits`); with it an
object's class is the one it was made for (`Classes`), and one that is not answered has
at most `MaxRetry` retries behind it (`Counted`). What a step does to the places
(`ProcessSound`, `RetrySound`, `AnswerSound`, `DelSound` and others) and to the objects
(`ProcessCalls`, `OneChanged`) is proved apart.

`TypeCorrect`, `Intact` (for `RequestIntact`) and `Unacknowledged` (for
`UnreadableNotAcked`) are about what is in the messages. `Protocol` follows each request
through its states: on the wire it is the serialisation of what the client has set
(`Clients`), an object that waits is as new, and one that has a request reads what was
sent, or has a reply that names a message with its body (`HeldCalls`). A client has one
RPC at a time, so that a step for an object changes no other's (`OnePerClient`).
`RoundTrip` is used twice: for the request that arrives, and for the reply that a
client reads, where its other half counts: an id is known only to a client that could
parse the body that came with it, so that no ack names an unreadable message
(`Stored`). A client that is killed leaves its request behind; nothing is said of its
fields then, but an ack among them still names a readable message. `NewerAssumption`
says that the fields of a newer client have numbers the server does not know.

**Model-checked only**: liveness (`BatchReleased`, `EveryRequestAnswered`,
`ShutdownCompletes`, `RequestAnswered`, `ProduceAnswered`, `RecordsLeave`, `RpcEnds`), as
fairness needs ENABLED, which is out of the prover's reach; and the violation runs,
which show counterexamples.

## Not modelled

- The start-up in `Server.cpp` with `Arg_helper.h` and `Ip.hpp`: configuration is
  read once, before the threads start, and nothing of it changes.
- Of the generated code `ByteSizeLong`, `MergeFrom`, `CopyFrom` and `Swap`, which
  the proxy and its clients do not call (the runtime calls the first), and the
  callback, generic and streamed variants of the service; of the PHP classes the
  replies' setters.
- The shutdown of the server, and with it `Next` returning false and requests
  that are reported not ok: nothing calls it.
- The text of replies and log records, and the fields of a message at the broker.
  One thing is lost there: `ProduceCallData::process` (line 75) calls `produce`
  without `delayLevel`, whose default is 0, so that the delay a PHP client sets
  (Common.php 63) is logged and not obeyed.
- `waitForLock`, `pushMsgBack`, `msgPool` (never used); the growth of `idUnitMap` and
  of the vector in `shutdownConsumer`; the file buffer behind `fwrite`; functions
  that return no value though they are declared `bool`.
- The RocketMQ library behind `include/`.

## Plan

Done, in this order: locker, consume path, its abstract specification and proofs;
shutdown; produce path and proofs; logger; the unit lock by lock; requests in the
shutdown module; messages, server and clients; proofs about the registry,
the logger and the server's call objects; proofs of all other invariants.

Next:
1. `ConsumerUnit.tla` shown to implement the atomic `setMsgAck` of `MsgWorker.tla`, as
   far as it does: the overlapping insertions do not. A verdict stays what it is once
   it is published, as an action property of the unit.
2. `Conserved` as a theorem of `AtLeastOnce.tla` itself, from which `CopiesKept` would
   follow by the refinement.
3. `MapTS`, with `getAllKeys` as it is.
