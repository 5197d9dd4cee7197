# A TLA+ verification of liveclass

liveclass is a Go back end for online classes: an HTTP and WebSocket gateway
(`internal/api`) in front of Kitex services for users, chat, quizzes, live
video, a points mall and an AI agent (`internal/rpc/*`).  State lives in MySQL
(lessons, quizzes, users, the mall), MongoDB (chat), Postgres and Qdrant (the
agent), Redis and Kafka.  This directory models the parts whose correctness
depends on the order in which several actors take their steps.

## 1. Inventory

| Component | State it keeps | Operations | Interacts with | What is hard | What makes it correct |
|---|---|---|---|---|---|
| mall coordinator (`mall/domain/coordinator.go`) | a singleflight group per process | `Exchange` | order DB, catalogue, DTM | the same request id in two replicas, with another payload | one order per request id, and the reply tells the truth about it |
| mall order, inventory, points (`mall/domain`, `mall_inventory`, `mall_points`) | orders, inventory counters, reservations, balances, ledger, one `dtm_barrier` table each | prepare/cancel/confirm, reserve/release/confirm/unconfirm, debit/refund | DTM over HTTP, other services over Kitex | late, lost, repeated and reordered branch calls | all or nothing; units and points are conserved |
| chat service (`rpc/chat`) | messages with an embedded outbox and a sequence counter per lesson, all in Mongo | `LiveChat`, `GetHistory`, `DelHistory` | outbox relay | insert, allocation and number are separate writes; client retries | one message per client id, no number used twice |
| chat outbox relay (`rpc/chat/kafka_dispatcher.go`) | leases in the documents, one gate per lesson | claim, fence, write, mark, defer, retry | Mongo, Kafka | lease expiry, crash between write and mark | at least once, in order within a lesson |
| chat gateway (`api/chatroom`, `api/service/chat_ws.go`) | rooms, clients, bounded queues, dedup window, held-back messages | register, broadcast, replay, finish resume, pumps | Kafka, chat service | replay racing live messages, slow clients, room removal | nothing twice, nothing missed in silence, consumer never held up |
| browser order buffer (`frontend/chat_order_buffer.js`) | next number, pending messages | `push` | chat gateway | gaps | messages in order, gaps reported |
| circuit breaker and executor (`resilience`) | state, window of outcomes, half-open counters | `Acquire`, `Done`, `Do` | every dependency of the agent | results of an older period, panics | bounded probes, recovery |
| agent task plans (`agent/memory/task_plan.go`, `agent/workflow/agent/plan_executor.go`) | plan, steps, step results in the transcript | create, execute, update, revise | Postgres, the model and its tools | crash between result and status, two instances | no step repeated, done is final, the answer is complete |
| live video (`rpc/webrtc_live/handler.go`) | broadcast and mic bundles, a gauge of connections | `Broadcast`, `View`, `PublishMic`, `ViewMic`, keyframes | Pion peers and their callbacks | replacement of a bundle while callbacks of the old one run | sessions never mix, late callbacks touch only their own session, ended broadcasts leave |
| lessons and sign-in (`rpc/webrtc_live/handler.go`, `dao`, `initialize`, `lua`) | lessons, enrolment, sign-ins, hands, live counts, lesson cache, Bloom filter | create, delete, enrol, join, sign in, ... | MySQL, Redis Lua, RedisBloom | the filter replaced under its writers, caches filled after a delete | an existing lesson is found; what is deleted or revoked is forgotten |
| quiz (`rpc/quiz`, `api/service/quiz_ws.go`) | questions, answers, question and permission cache | create, answer, delete, list | MySQL, Redis, live service | separate statements, counts published by goroutines | one answer per student, every answer reported |
| agent long-term memory (`agent/cdc`, `agent/memory`) | facts, outbox, index status, vectors | resolve, dispatch, consume | Postgres, Kafka, Qdrant | no lease, failed record skipped by a later commit, conflicting extractions | facts superseded once, nothing lost on the way to the index |
| RPC stubs and codec (`idl/kitex_gen`) | | `FastRead`, `FastWriteNocopy`, `BLength`, stubs of 50 methods | every service | builds of different IDL revisions; two walks over a struct that must agree | every field both sides know arrives, buffers are sized exactly |
| agent sessions (`agent/session`, `agent/agent/chat.go`) | transcript, checkpoints | append, recover, compact, chat | Postgres | concurrent requests of one session | every event is in the tail or behind the checkpoint |
| agent tools, retrieval, evaluation | confirmation tokens | prepare, exchange, search | mall, Elasticsearch | a token used in the turn that issued it, or twice | one exchange per token |
| user service, JWT, rate limiter | accounts, cache, Bloom filter, buckets | register, log in, allow | MySQL, Redis | a stale filter; clocks that differ | |
| commands, configuration, observability | | | | | |

`PROJECT.json` lists the same components with their status, and under
"hazards" what is hard to test in each, at its line.

## 2. Plan

Modules are written in the order of the damage a mistake would do.

1. *Done.* The mall: `MallModel`, `MallInventory`, `MallPoints`, `MallOrder`,
   composed in `MallSaga`, against the abstract `AtomicExchange`.
2. *Done.* Chat from the call to the partition: `ChatOutbox`, against the
   abstract `ChatLog`.
3. *Done.* Chat from the partition to the socket: `ChatHub`, which takes the
   chat service for a `ChatLog`.
4. *Done.* What every dependency call of the agent goes through: `CircuitBreaker`.
5. *Done.* The agent's plans: `TaskPlan`.
6. *Done.* The agent's memory: `FactMemory`.
7. *Done.* The classroom: `Lessons`, extended by `Quiz`, which calls it; and
   `LiveRoom`.
8. *Done.* What every call between services goes through: `Thrift` and
   `RpcCall`, with one description per generated struct in the `Idl...` modules.
9. Left: sign-in and hands (as more operations of `Lessons`), `AgentSession`
   (transcript, checkpoints, compaction), `MallCoordinator` composed with
   `MallSaga`.
10. *Done.* Theorems for every safety property of a run, but for those of the
    codec (section 6).
11. *Done.* The refinements of `ChatLog` and `AtomicExchange`, and the saga as
    one caller of the inventory and points services, which brings what holds of
    them under any callers to it.
12. Theorems to come: what the new modules of 9 add; the proofs of `Quiz` cover
    its own operations and those of `Lessons` it calls.

The catalogue of runs is kept to a dozen, so that all of it can be repeated
with every change: a module has one run, with its safety and its liveness
properties under one fair specification.  Properties that theorems establish
for all constants and that no run needs (type invariants, conservation of stock
and points under arbitrary callers, finality of a finished saga) are left to
the proofs.

## 3. Modules

Every module names the functions of the source; `PROJECT.json` "map" gives the
lines.  One SQL statement, Mongo operation, Redis command or critical section
is one step; a transaction is one step unless what it reads can change under it.

**MallModel, MallInventory, MallPoints, MallOrder.**  The tables of the three
services and their operations, one transaction each, with the three kinds of
answers a branch gives: ok, a business refusal, any other error.
`deterministicOrderID` is injective, so an order id is the pair (user, request).
`InventorySpec` and `PointsSpec` let callers send any payload in any order,
which is what the Kitex methods allow; no run explores those orders, the theorems
`InventorySafe`, `PointsSafe`, `InventoryCountersExact` and
`PointsConservedAlways` cover them.  What `cmd/mallbench` adds up over the
tables after a load test is stated here of every state: `CountersMatchRows`,
`PointsConserved`, and `NoReservedLeak` in `MallSaga`.  A sum of amounts is the
number of units they stand for (`Units`, `Total`): the units of one owner are
numbered, and a set of pairs of owner and number is counted, so that sums need
no recursion.

**MallSaga.**  The five branches of `DTMSagaSubmitter.Submit` behind the branch
barrier, and the DTM server that calls them.  DTM is external and modelled by
the use the code makes of it, like the barrier rows, which dtmcli writes: actions
in order, compensations in reverse from the failed branch, `RetryLimit` retries of
an action, compensations retried for ever.  A call may return, fail before its
commit, commit and lose its reply, or time out and be delivered later any number
of times.

**AtomicExchange.**  What an exchange promises: it ends with the order
confirmed, the goods sold and the points debited, or with none of the three,
and then stays so.  `MallSaga!ImplementsExchange` is the refinement.

**ChatOutbox.**  `LiveChat` as the writes it makes (time taken, upsert by client
id, allocation, number stored), `DelHistory`, and the relay workers of several
instances (claim with lease, lesson gate, fence, Kafka write with unknown
outcome, mark, defer, retry, crash, lease expiry).  A stamp is the pair
(created_at, message_id); clocks of instances may differ, so stamps need not
follow the calls.  An empty client_message_id is a key used once.  `Stop` of the
relay is covered by a crash or a failed write.  When lessons are assigned to
workers, the gate of a lesson is never contended.

**ChatLog.**  What readers of one lesson may rely on: a message is in the
history once and before its first record, and its records come after those of
the messages it found there, unless the history was deleted.
`ChatOutbox!ImplementsLog` is the refinement, for all lessons at once; calls,
numbers, leases and workers are hidden by it.

**ChatHub.**  One gateway instance and one lesson: the consumer's fetch, lookup,
snapshot, fan-out and commit as separate steps; the room with its delayed
removal; for each client the Serve goroutine with its paged replay,
`FinishResume` under `deliveryMu`, both pumps, the bounded queue, the buffer of
held-back messages and the deduplication window.  A message is its rank by
(created_at, message_id), the order of `GetHistory`.  The
chat service is what `ChatLog` promises (`Store`, `Record`), without deletion:
the history, which replays read, may be ahead of the partition, which the
consumer reads.

**CircuitBreaker.**  `resilience.Do` for the callers of one dependency, and the
breaker they share.  Time is relative: the age of each outcome and of the open
state, capped one tick beyond the comparison they enter.  The failure threshold
is a fraction.  A permit is marked as a probe of the current half-open period
or as older; the code does not know the difference, the properties do.

**TaskPlan.**  One request and the instances that execute it.
`UpdateTaskStep` is three steps (read and check, write and count, commit) at
read-committed isolation, with the row lock its write takes.  A step's result
is the revision that wrote the step, so results of steps with one key differ.
Every error return, expired context and crash is `Stop`.

**FactMemory.**  `ResolveFactWithOutbox` as two steps of its transaction (lock
and search, write and commit); the dispatchers, which take no lease; the
indexer of each partition with its skips and commits; the vector store.
Confidence is in tenths.  gorm's treatment of a zero value with a default is
part of the model (`Created`).  Of several facts of one key the query returns one
of the greatest confidence, any of them: the `updated_at` that decides between
equals also moves with every index status.

**Lessons, Quiz.**  One lesson and one question.  A handler call is a sequence
of steps, one per query, cache access, script or call of another service, any
of which may fail; `getLessonCached` and `getQuestionCached` are the same code
for two keys, with the flight of each key shared by the calls that wait for it.
`Quiz` extends `Lessons`, because its handlers ask the live service about
lessons and students.  Snowflake ids are never reused, so a lesson is created
once and a `Del` of a new id's cache entry finds nothing.  The room's count and
members are kept for the handlers that write them and carry no property.  The
outbox row `CreateLesson` adds to its transaction (ADD_BLOOM) is left out: nothing
reads that table.  A failing enrolment query, and a lost reply of the live service
once the lesson was found, leave the state as a failing read of the cache does.

**LiveRoom.**  The room of one lesson.  A peer is a call of `Broadcast`, `View`
or `PublishMic` and stands for its session id.  Loads, comparisons, stores and
deletes of the shared maps are separate steps; callbacks of a connection and of
remote tracks run in goroutines of their own, at any later time, and a callback
is registered by a step of the handler that may come after the connection ended.  Pion is external and modelled by
the use made of it.

**Thrift, RpcCall, Idl....**  The generated structs differ only in their fields,
so `Thrift` has the three codec methods as operators over a description of the
fields, and the `Idl` modules have one description per struct, in the order
`FastWriteNocopy` writes.  A message is a sequence of tokens with their lengths
in bytes.  `RpcCall` is a call through the stubs, with the reader's description
from the writer's revision of the IDL or a neighbouring one: some struct, nested
ones included, lacks a field or has another type for a field or for a list's
elements.  Kitex's transport
and thrift.Binary are external.

**MC modules** give constants their values and name the bounds.  The modules
named `...Proofs` hold theorems only.

## 4. Runs

| Run | Bounds | States | What it shows |
|---|---|---|---|
| `mall_saga` | 2 sagas of a user, 3 units, 3 points, 1 retry, 1 timeout | 189 thousand | calls find the rows they change, barrier rows agree with the tables, every saga ends, the saga implements `AtomicExchange` |
| `chat` | 2 messages and a retry (the retry is the fault, or another is), 2 workers of 2 instances, 1 fault | 1.1 million | nothing lost, each lesson is a `ChatLog`, numbers unique, one message per client id, published is final, everything stored is eventually sent |
| `hub` | 1 client and a visitor before it, 3 messages, 3 records, queue of 2, pages of 1, 2 faults, one notice in a queue at a time | 1.8 million | nothing twice, nothing missed in silence, live or resumed; open clients are in the room that is looked up; the consumer goes on |
| `hub_resume` | 1 client, 3 messages, out of order | violation | finding 1 below |
| `breaker` | 2 callers, 2 attempts, 2 probes, 3 outcomes in a window, 2 panics | 57 thousand | counters follow the probes, opens on fresh evidence, calls return, recovers |
| `plan` | 1 instance, 3 keys, plans of 2 or 3 steps that wait for none, one or two others or list one twice, 3 runs, 2 revisions, empty outputs | 1.2 million | statuses agree, a ready step exists and may start, answer complete, done preserved, nothing repeated |
| `plan_race` | 2 instances, 2 keys | violation | finding 2 below |
| `rpc` | all methods; nil, empty, full and partly set values; reader's structs the same, or with a field dropped or retyped at any depth, or the elements of a list retyped | 175 thousand | buffers exact, values arrive |
| `memory` | 2 extractions (certain, doubtful, without key), 2 dispatchers, 1 partition, batches of 1, 1 fault | 875 thousand | superseded once, events match facts, indexed is findable, every event is sent |
| `memory_replace` | 2 extractions of one key, no fault | violation | finding 3 below |
| `classroom` | a call of any user beside a student who asks again and again, 1 teacher, 1 student | 307 thousand | one answer each, all answers told, deleted and revoked forgotten, lessons found |
| `live` | 3 peers: at most 2 broadcasts with viewers, or microphones of 2 students; 1 late track at a time | 1.2 million | sessions not mixed, promised tracks, microphone kept, gauge exact, ended broadcasts leave |

*Why the bounds are enough.*  Two sagas with quantities 1 and 2 against 3 units
both fit and both collide; one retry and one timeout already give an action
that runs after its own compensation.  Two messages and two workers are a
message, its predecessor and a worker for each; the retry allocates a number of
its own before, between or after the others', and is the one fault of the
behaviours it occurs in; one fault is enough to lose a
lease, a reply or a process in every place, and the theorems remove the bound.
A queue of two fills; pages of one make every replay more than one page;
`MessageDedupSize` holds all messages of a run, because more than that many
between two copies is a limit the code accepts
(`HubNoDuplicates` needs the same).  Two probes and two callers let
late results mix with probes, and two panics can take every place of a period.
Three steps and two revisions reach dependencies on completed steps and keys
that are used again, and of three keys a step waits for none, for one, for two
or for one it names twice; three runs let a request be interrupted twice.  `plan`
has reads of step results succeed, as its theorems do: the code takes a failed read for a missing
result, and `NoRepeat` and `AnswerComplete` do not hold then.  The
visitor of `hub` leaves before the first message (constraint `VisitorFirst`):
until then it can leave its room to the client or have it removed under it,
and `HubRoomHoldsClients` proves the rest for any number of clients.  At most
one ack or status waits in a queue (constraint `OneNotice`); messages fill the rest.  Two
extractions are one fact and its rival; batches of one make every event a round
of its own, and a batch order within one partition is all an event's consumers
can see.  In `classroom` one call is any operation of a user, and the other
belongs to a student who answers and lists questions without end (`Caller`),
with a refresh, a restart and expiries between any two of their steps: that an
entry of Redis stays away is not for want of somebody who asks for it.  The
question or the lesson may exist from the start.
Three peers are a broadcast, its successor and a viewer, or a student's
microphone, its replacement and another student; of the goroutines of remote
tracks one at a time is late (`MaxStarting`).  `rpc` takes every struct of
the IDL, so its only bounds are values (each field zero, set, nil, empty or with
two elements) and one change between the two revisions.

Symmetry is used only in runs without liveness.  Deadlock is not checked where
a run may simply be over: all calls made, all sagas ended, the request answered.

*Fairness.*  `MallSaga`: a running saga's call returns, as DTM retries every
second and a request is answered unless it times out.  `ChatOutbox`: workers
poll, deferred messages become due, and the lease of a worker that is gone
expires; handlers and the fault actions get none.  `ChatHub`: the consumer
runs on, and so does a goroutine that holds a client's `deliveryMu`; nothing is
assumed of peers and sockets, which may never take another byte, nor of the
other goroutines of a connection.  `CircuitBreaker`: time passes, a goroutine
that is not in an operation runs on, and an operation ends because `Configure` refuses a
policy without a timeout.  `Recovers` holds when calls keep coming and panics
have not taken every half-open place.  `FactMemory`: the ticker keeps the
dispatchers running and the consumers loop; extractions get none.  `Quiz`: Redis
lets entries expire, and the refresh of the Bloom filter, which runs every half
hour, does not fail every time (strong fairness of its rename); handlers and
their callers get none.  `LiveRoom`: while callbacks of connections are under
way, one of them goes on; handlers, peers, their networks and new calls get none.

## 5. Findings

1. `hub_resume`.  A resume pages by (created_at, message_id), the live stream
   follows Kafka.  `LiveChat` takes created_at before it inserts, so a message
   may be stored and delivered after one with a later created_at; a client that
   resumes from the latter is told resume_complete and never gets the former.
   The same gap lies behind the fence: `HasEarlierUnpublishedOutbox` sees only
   what is stored, so records need not follow created_at.  `ChatLog` says what
   does hold.
2. `plan_race`.  `UpdateTaskStep` reads the row without a lock and updates by
   id; two instances that run one request can turn a done step into a failed
   one, which the revision then replaces.
3. `memory_replace`.  A doubtful preference that loses against an active one is
   to be stored inactive, but the column has `default:true`, and gorm's Create
   takes false for unset: it is stored active.  The key then has two active
   facts, and the next certain one replaces only the first of them, against the
   extraction prompt's rule.

Met while modelling, and visible in the modules: a success of a call admitted
before the breaker opened counts as a probe's; an operation that panics while
the breaker is half-open never gives its place back; an empty step result is
taken for none, so the step runs again after a crash; `replans` starts at zero
in every run of a request; `depends_on` may repeat a key, and such a step is
selected but refused for ever, because rows are counted against the list's length
(run `plan` has such plans; `NeverStuck` excepts exactly the start of such a
step); the generated readers check the type of a field but not that of a list's
elements (`k-quiz.go:221`), so elements that were retyped are misread (`Mistyped`
is the exception of `ValuesArrive`); a teacher is enrolled like a student and may
answer the quiz; with two instances a plan's status can contradict its steps; a broadcast whose
predecessor's callback has just compared the stored session can be deleted from
the room by it, and one whose offer is refused stays in the room; a MicBundle
that becomes empty between `getOrCreateMicBundle` and its lock is no longer the
lesson's; a nil reply struct inside a reply arrives as an empty one with code 0.

## 6. Proofs

The theorems hold for every value of the constants that satisfies the modules'
assumptions (finite sets only where cardinalities are counted, natural bounds)
and, where it is said, a hypothesis.  Each module of proofs has one inductive
invariant, its lemmas step by step, and short theorems that draw the properties
of the runs from it.

* `MallSagaProofs`, in three parts.  *The services under any callers.*
  `InventorySafe` and `PointsSafe` are inductive as they stand.
  `InventoryCountersExact` is about sums over rows: a call changes one row and
  one counter by the same quantity, and a sum that gains or loses one block of
  units changes by the size of the block (`TotalGrows`, `TotalShrinks`, from the
  library's facts on finite sets).  A row is then covered by its counter
  (`SettleCovered`), so the three "inventory invariant violation" errors of
  `mutations.go` cannot occur.  `PointsConservedAlways` is the same for balances
  and open debits.
  *The saga.*  `SagaAtomic` speaks of finished sagas only and is not inductive.
  `SagaInv` adds, for each order, what the barrier rows say about the business
  rows (`OrderMatchesRows`, `ReservationMatchesRows`, `LedgerMatchesRows`) and how
  far those rows and the late requests may be from the server's step
  (`PhaseMatchesRows`); with it a late request of a finished saga is always
  skipped.  From it follow `SagaTypeCorrect`, `SagaBarrierMatchesTables`,
  `SagaIsAtomic`, `SagaEndIsFinal` and, by step simulation,
  `SagaImplementsExchange`.
  *The saga as a caller.*  Each step of the saga is a call of the inventory
  service or leaves its tables alone: `SagaUsesInventory`, `SagaUsesPoints`.  So
  the saga inherits the sums (`SagaConserves`), and when no saga runs nothing is
  reserved (`SagaLeaksNoStock`).  With the rows an order's own (`RowsInv`) and
  covered by their counters, the server's call finds what it has to change:
  `SagaCallsReady`.  That is the safety half of `SagaEnds`: no compensation can
  fail for ever.  It is an invariant and not a property of steps because a
  refused compensation, which is only retried, changes no variable.
  `SagaTurnsOnShortage` draws the consequence for replies.
* `ChatOutboxProofs`.  `RelayInv` says what a worker knows at each point of
  `drain`: past the fence, every message stored before its own is sent or
  deleted, which stays true although the fence is only a check, because sent
  messages are never unsent.  It gives `ChatTypeCorrect`, `ChatNothingLost`,
  `ChatOrderKept` and `ChatPublishedIsFinal`.  `NumberInv` follows a number
  through calls, documents, workers and records, bounds it by the counter and
  ties it to one message: `ChatNumbersUnique`.  `KeyInv` adds that a message
  which is sent, or held by a worker, is stored or was deleted, so that the one
  document of a key is all that Kafka can know of it: `ChatOneMessagePerKey`.
  Both together give `ChatImplementsLog`: an insert is a `Store` of its lesson,
  a Kafka write past the fence is a `Record`, a deletion is a `DeleteAll`, and every
  other step leaves what readers see.  `ChatLessonIsLog` says it of one lesson.
* `ChatHubProofs`.  A step does one of six things to a client's queues
  (`QueueMoves`) and one of a few to its replay (`ResumeMoves`); everything else
  follows from these two.  `HubRoomHoldsClients` needs only the types of the
  room variables.  `LiveNotMissed` becomes inductive with `Serving`: while a
  record is under way, an open client that registered before it is in the room
  that was found, then in the copy of its clients, then has the record; and with
  `SeenKept`: what the window remembers, the client has, so skipping a duplicate
  loses nothing.  `HubNoDuplicates` is about lessons whose messages fit into the
  window, as in the run: the queues then hold exactly what was seen, and nothing
  is evicted because a window without repetition is no larger than the set it
  is drawn from.  `HubResumeNotMissed` follows each missed message (`Covered`): the
  client has it, or it is on the page, or after the cursor of a page that has
  more, or all of its records come after the registration, where `LiveNotMissed`
  takes over.  Its hypothesis, `~Reordered`, makes the history ascend by
  stamp; as a message is recorded after the earlier ones it found there, nothing
  smaller is left to record after it (`Fenced`), and first records ascend too.
  Run `hub_resume` shows that the hypothesis is needed.  `HubServiceIsLog` ties the
  gateway's view of the chat service to `ChatLog`, whose `before` is in both
  modules the set of messages with a smaller stamp that were stored before.
* `CircuitBreakerProofs`.  `ProbeInv` adds to `ProbesAccounted` that there are
  no probes outside a half-open period: `BreakerProbesAccounted`, and from it
  `BreakerProbeLoad`, at most 2 * HalfOpenProbes - 1 probes at a time.
  `BreakerOpensOnFreshEvidence` needs to know that outcomes are ordered by age, so
  that the prefix which is dropped holds all that are too old, and that a window
  never holds more outcomes than were reported since the breaker closed
  (`Evidence`).
* `TaskPlanProofs`.  On one instance (`OneInstance`, as in run `plan`; run
  `plan_race` refutes `DonePreserved` for two): `PlanInv` ties the plan's status
  and `completed` to its steps at each point of an execution, says what the
  executor knows of the row it is about to write (`Knows`), and keeps every set of open
  steps with a member whose dependencies are outside it, which a revision
  preserves because its new steps are acyclic and may depend only on steps that
  are done: `PlanStatusAgreesAlways`, `NeverStuckAlways`, `DonePreservedAlways`.
  With reads of step results that succeed (`~LoadMayFail`) `ResultInv` ties the
  results in memory and in the transcript to the steps: `AnswerCompleteAlways`,
  `NoRepeatAlways`.
* `FactMemoryProofs`.  The lock is held from the search to the commit, so what
  an extraction found is still so when it writes (`Transactions`); a supersession deactivates
  its fact in the same transaction, and only active facts are found:
  `SupersededOnceAlways`.  Every event id in a dispatcher's or consumer's hands
  is in the outbox, and one that is marked was written before (`Carried`, `Delivered`):
  `EventsMatchFactsAlways`.  Vectors are written before the status (`Vectors`), and a fact
  never becomes active again: `DoneIsFindableAlways`, `MemoryTypeCorrect`.
* `QuizProofs`.  The unique index makes `OneAnswerAlways` short; for
  `AllAnswersToldAlways` the strengthening (`ToldOrUnderway`) is that answers not told
  yet have a handler which is about to count, or to publish a total that covers
  them, unless a message was dropped.  `DeletedStaysForgotten`
  and `RemovedStaysOut` are the safety half of the two liveness properties: once
  the question is deleted and neither cached nor in the hands of a query, no step
  of any caller caches it again, and a user who is neither enrolled nor permitted,
  with no check of his between its answer and its Set, gets the permission only by
  being enrolled again.
* `LiveRoomProofs`.  A bundle holds tracks of its own session only, a viewer
  those of its bundle, because a late track goroutine writes the bundle it compared,
  whatever is stored by then (`CastInv`: `StreamsNotMixedAlways`,
  `PromisedTracksAlways`); the entry
  of an open microphone is its own because a callback deletes only what it
  compares equal to (`MicInv`: `MicKeptAlways`); the gauge is the number of peers that were
  counted and have not left it (`LifeInv`: `GaugeExactAlways`).

These theorems state what no run checks any more, or what needs no run because
a stronger property is checked: `InventorySafe`, `PointsSafe`,
`InventoryCountersExact`, `PointsConservedAlways`, `SagaUsesInventory`,
`SagaUsesPoints`, `SagaTypeCorrect`, `SagaIsAtomic`, `SagaEndIsFinal`,
`SagaTurnsOnShortage`, `SagaConserves`, `SagaLeaksNoStock`, `ChatTypeCorrect`,
`ChatOrderKept`, `ChatLessonIsLog`, `HubServiceIsLog`, `DeletedStaysForgotten`,
`RemovedStaysOut`, `MemoryTypeCorrect` and
`BreakerProbeLoad`.  The other theorems name a property of a run.

*Only model-checked.*  All liveness, as the prover has no fairness: `SagaEnds`,
`EventuallySent`, `RecordsConsumed`, `CallsReturn`, `Recovers`,
`EventuallyPublished`, `DeletedForgotten`, `RemovedLosesPermission`,
`LessonFound`, `EndedLeavesRoom`.  The codec (`BufferExact`, `ValuesArrive`):
`Thrift` needs RECURSIVE operators and induction over messages, both out of the
prover's reach.  Where a proof speaks of a first record or the oldest recent
outcome it uses a least element of a set of positions, which well-foundedness of
the natural numbers gives without induction.  The two-instance behaviour of
`TaskPlan` is explored only by run `plan_race`.

## 7. Not modelled

Of the live service: sign-in, roll call, raised hands, the whiteboard,
recordings, `ViewMic` and keyframe requests.  The mall coordinator, which reads
the order before and after `Submit` and decides only what the caller is told.
The agent's sessions and tools: what they do next depends on the language
model.  The rate limiter: one atomic script that computes with fractions of
real time.  The user service: one row per registration, and a cache and Bloom
filter of the structure that `Lessons` models.  The browser's order buffer,
which no page includes at this commit.  The Redis subscriber of the chat
gateway (`BroadcastJSON`), a second producer that is never started and to whose
channel nothing publishes.  Permission checks of chat: a refused call changes
nothing.  Media, prompts, retrieval scores, text formats, metrics and
configuration: numerical or textual work without state that several actors
share.
