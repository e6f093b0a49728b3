# nestjs-agent: specifications, model checks and proofs

A TLA+ development of the parts of `nestjs-agent` whose correctness is in the
order of steps: independent approvals of actions, the message queue of a
thread under both runners, the calls a run parks on a person, the token stream
of a run, and conversations over a text channel. Source paths below are
relative to `src/packages/` unless they start with `docs/`.

## 1. Inventory

| Component | Source | State it keeps | Operations | Talks to | Hard behaviour |
|---|---|---|---|---|---|
| Proposal store (independent approvals) | `core/src/action-proposal-{transitions,outcome,tool-call}.ts`, `core/src/in-memory-action-proposal-store.ts`, `core/src/in-memory-store.ts` | one row per proposal: decision, execution with generation and lease, attached outcome, delivery with generation and lease; the tool-call record; the thread's messages | create (and replace the group's pending one), decide, expire due, supersede, claim / extend / settle execution, claim / admit outcome | the agent loop creates, people decide, workers do the rest | first-wins decisions, fencing tokens, lapsed leases, one message per outcome |
| Proposal worker | `core/src/action-proposal-worker.ts`, `-executor.ts`, `nestjs/src/proposals/*` | the tick in progress, executions in flight, renewal timers | start, tick, execute, renew, settle, admit, stop | the store; the tools | crashes, stalls, tools longer than a lease, store calls that throw, `Promise.all` abandoning a tick |
| SQL proposal stores | `store-drizzle/src/drizzle-action-proposal-store.ts`, `store-mikro-orm/src/mikro-orm-action-proposals.ts` | the row with its `version`, the tool-call row | read, compute, compare-and-set, retry; second statement for the record; transactions | several processes | lost updates, a crash between two statements, clocks of several hosts |
| Message queue of a thread | `nestjs/src/queue/chat-queue.service.ts`, `core/src/spi/chat-queue.ts`, `core/src/in-memory-store.ts`, queue requests of `nestjs/src/agent.service.ts` | waiting messages, the pause, `activeStreamId`, the set `starting` | send (auto / queue / interrupt), edit, remove, move, interrupt, clear, resume; plan, kick, launch, restore | runners, sinks, quota | every await is a place where another request acts |
| Inline runner | `nestjs/src/runner/inline-agent-runner.ts` | live runs, parked calls, Stops and aborts | start, signal, cancel, settle, delegate | the loop, the queue | approval timer, decision and cancel racing; registering a run |
| Durable runner | `nestjs/src/durable/` | journal of the workflow (external engine), child runs | start, signal, cancel from outside, queue handover as a step | the queue, the workflow engine | replay of half-done steps, two places that settle a run |
| Agent loop, tools, delegation | `core/src/agent-loop.ts`, `core/src/tool-registry.ts`, `core/src/delegation.ts` | messages and tool calls of the turn | steps, gates, parallel calls, proposals, delegation | model, tools, store, sink | parked calls, dead runs, replays |
| Token-stream sinks | `nestjs/src/in-process-sink.ts`, `core/src/sql-token-stream-sink.ts`, `transport-redis/src/redis-token-stream-sink.ts` | rows or chunks of a run, gathered text, cursors | open, write, end, fail, subscribe, purge | runners write, SSE reads | late readers, lost wake-ups, purging a parked run |
| Questions, confirmed tools | `core/src/elicitation.ts`, `core/src/confirmed-tool.ts`, `core/src/confirm-token.ts` | parked questions; spent tokens | ask, answer; preview, claim, commit, release | store, people | single use across replicas, a commit that throws |
| Usage ledger, quota, pricing | `core/src/usage-ledger.ts`, `core/src/pricing/`, `nestjs/src/ledger-quota-provider.ts` | usage rows, prices | record, report | loop, queue | check then act |
| Text channels | `channels/src/` | claims with a TTL, pending questions, jobs | webhook, follow, relay outcome | service, workflow engine, provider | duplicate and reordered webhooks |
| OpenCode engine | `opencode/src/` | sessions, event hub | begin, prompt, observe, reply, settle | external server | reconnects, continuing after a restart |
| Poppy | `poppy/src/` | connections, pending connects, conversations | connect, resume, call | other companies | races of one connection's state |
| React client | `react/src/` | client queue, transcript | send, resume, reconnect | HTTP | replays of a stream |
| MCP client and server, SQL stores (rest), retrieval, dashboard, telescope, evals, adapters, codegen, genui | the other packages | — | — | — | I/O, rendering or data transformation |

What makes each correct, in short: *proposals*: one decision, no execution
without approval, one writer of the end, one message per outcome, everything
approved ends and is told; *queue*: a message is started once, never lost, the
thread is never left claimed, what waits is eventually started or paused, one
run per thread; *runners*: a parked call is settled by one of decision, timer
and Stop, and is recorded as what settled it; *sinks*: every reader sees the
same frames in the same order, and the end after the last; *channels*: a message
starts one turn, a piece is said once, a question has one outcome and ends.

## 2. Plan

| Step | Modules | State |
|---|---|---|
| 1 | `ActionProposal`, `ProposalStore`, `ProposalLifecycle`: the row, the atomic store, the life of a proposal it implements | done |
| 2 | `ProposalStore_proofs`: the inductive invariant of the store and what follows | done |
| 3 | `ProposalWorker`: workers over the store, faults, liveness | done |
| 4 | `SqlProposals`: the store statement by statement | done |
| 5 | `ChatQueue`: the queue, its requests, the inline runner's settling | done |
| 6 | `ParkedCalls`: decisions, timers, Stops, delegation, a restart | done |
| 7 | `TokenStream`, `StreamRun`, `SqlTokenSink`, `RedisTokenSink`: a stream and two transports that implement it | done |
| 8 | `ChannelTurns`: webhooks, jobs, the outbox, questions | done |
| 9 | `DurableRuns`: the queue's step and a Stop under the durable runner | done |
| 10 | Proofs of `TokenStream` and of the safety of `ChannelTurns` | done |
| 11 | Proofs of `ParkedCalls`: rows and decisions, late decisions, cards | done |
| 12 | `ProposalStore` implements `ProposalLifecycle`; `ProposalWorker` implements `ProposalStore` and is safe | done |
| 13 | Proofs of `ChatQueue`: one start, nothing lost, no claim left; the same under `DurableRuns` | done |
| 14 | Proofs of `SqlProposals`: fences, records, the life of a proposal | done |
| 15 | Proofs of the two sinks: a loss is told, gathered text is never stranded | done |

Which module composes which: `ProposalWorker` and `SqlProposals` are about the
rows of `ActionProposal` and are shown to implement `ProposalStore` and
`ProposalLifecycle`; `ParkedCalls` stands for the loop and the inline runner
together; `DurableRuns` extends `ChatQueue`; `SqlTokenSink` and `RedisTokenSink`
extend `StreamRun`, which is mapped to `TokenStream`.

## 3. Modules and the code

### Independent approvals

`ActionProposal` has the row (`Row`, `Outcome`) and one operator per pure
transition: `Decided`, `Superseded`, `Claimed`, `Extended`, `SettledRow`,
`Attach`, `ClaimedOutcome`, and `ToolCallStatus` for the record a row implies.
A transition answers the same row where the code answers `conflict` or an
idempotent success. Times are relative: `expiresAt` and lease ends count down
with `Elapse`, so no clock grows; a caller's clock is its offset (`now` in
`Clocks`), which is how hosts whose clocks differ are modelled. Payloads,
scopes, validation, wording, audit columns, remembered grants and pagination
are left out: nothing here depends on them.

`ProposalStore` is the store whose every call takes effect at once (the
in-memory store; `Mutate` includes the tool-call record, as `proposalChanged`
does). `ProposalLifecycle` is what it promises: pending, decided, running,
ended, told; no leases, generations or deadlines.

`ProposalWorker` puts workers over it. A worker's tick is a small program
counter (`claim`, `work`, `outcomes`, `admit`); executions are records in
`jobs`, each running beside the tick as in the code, where `tick` claims the
next one without waiting and awaits them all. Faults: a crash, a stall past the
lease, `stop()`, a renewal that throws, a settlement that throws, and a call of
the tick itself that throws (`TickThrows`: the sweep, a claim, the claim of an
outcome, its admission), each whether or not the store took it. A tick that
threw leaves its executions running by themselves; a settlement that throws
while the tick still claims, or after a tick that threw while claiming, ends the
process, since nobody awaits that promise. Each worker stamps with the clock of
its own host (`Clock`).

`SqlProposals` refines the granularity: each operation is begin, read, write
where the version still matches (retry otherwise, `MaxAttempts`), and the
record's statement. Replacing creations and admissions are transactions over
locked rows and stay single steps.

### Message queue

`ChatQueue` has one thread in one process. Each request (`Message` for a send,
`Visit` for the others) and each settling run is a task with a program counter,
and every `await` of the code separates two steps; what the code read before an
await is kept in the task (`saw`, `holding`, `head`). `plan` is `Guard`, `List`,
`Vacate`, `ReadPause`, `SetPause`, `Leave`, `Claim`, `TakeOut`, `GiveBack`;
`launch` and `restore` are `Launch`, `Restore`, `RestorePause`, `RestoreFree`.
The store's calls are its one-instant operations (`Claimable`, `Release`,
`Without`). The inline runner appears as `live`, `RunEnds`, `RunCloses` and
`Cancel`. The quota's verdict is a choice, counted with `failures`. The requests
are resume, remove, reorder, clear, prioritize and Stop. Not modelled: the edit
of a waiting message's text, regenerating, frames and views, stores without a
queue, store calls that throw.

`DurableRuns` extends it with the durable runner. A body ends its loop (`Ends`),
reads once more whether it was stopped (`LooksBack`), plans as above, and its
step is recorded (`Journal`) before the next turn is spawned (`Spawn`, or
`Restore`). A Stop reads the run's record (`Detail`), tells the runtime (`Tell`)
and plans on its own; meanwhile the body may see it and unwind (`Halts`), or be
ended by the runtime where it is suspended (`EndedOutside`). `WorkerEnds` ends a
worker within the queue's step, which another does again from its start. A run
the runtime does not know counts as running, as `isRunActive` says
(`durable-agent-runner.ts:192-209`).

### Parked calls

`ParkedCalls` has a turn, a sub-agent it waits for, one it detaches, and a
sub-agent that an awaited sub-agent waits for. Each asks for a batch of calls
in one model step, claims them all (which puts their cards on screen), and
runs them in order: an action parks its run (`Park`) on a promise that a
decision (`Deliver`), the approval's timer (`Timer`) or a Stop (`Cancel`)
settles; a delegation starts another run and waits for it or not. `approve`
and `reject` are `Check` (has it lapsed?), `Probe` (does its run wait?),
`Deliver`, or `Bury` (`settleDeadRun`), with other steps between. `Lapsed`,
`IsRunActive`, `FailedUnsettled` and `Stopped` are the code's functions of
these names or their bodies. A restart of the process loses every waiter and
leaves the rows.

### Token streams

`TokenStream` is the promise: one sequence of frames in an order that no writer
contradicts (a frame knows, by a vector clock, which frames its writer had
learned of), readers that are given prefixes of it from its first frame, and the
end only after the last. `StreamRun` is a run's writers, a turn and its
delegates, in replicas, and what the sinks have in common. `SqlTokenSink` has
rows with a number read and inserted by one statement that may lose its number
and be retried, text gathered on a timer, the failure of a send that nobody
awaits, polls by page, and a purge in two statements. `RedisTokenSink` has the
list of chunks and the terminal, the drain that one send at a time runs, wakes
that may be lost, the poll behind them, and keys that expire. `MCTokenStream`
chooses the transport in its initial states.

### Text channels

`ChannelTurns` has one conversation under the durable executor. A webhook is
admitted once and becomes a job; jobs run one at a time through the phases *act*
(claim the message, start its turn, or take it as the answer of a question) and
*read* (follow the run's stream and send what it says, each piece under a
numbered slot claimed before it is sent). `Expire` and its followers are a
question's timer: it claims the question, marks it, drops the record, skips the
question at the run, and queues a *resume* job for the rest. A phase that did
not end runs again, from its start, with what the store has. Any call may throw
(`Fails`, `TimerFails`, and the second halves of `Enqueue`, `Tell`, `Start`,
`Arm`, `Send`, `Skip`, `Resume`), and a call that throws may have had its effect:
the job enqueued, the run answered, the turn started (`orphans`), the piece
delivered (`stray`). The call that undoes what came before it may throw in the
same outage, which the code swallows: the message stays claimed, the slot stays
taken (`torn`). A run is taken to say something before it asks, so a read that
gives up on it sends no notice (`handler.ts:1541`). Not modelled: the
prepare phase and its gates, media, presses and text decisions, components,
proposal cards, outcomes that are relayed, the turn's own deadline, the
channel's queueing of messages, and the inline executor, which loses its jobs
with the process.

## 4. Runs

| Run | Instance | Shows |
|---|---|---|
| `store` | 2 proposals of one group, 1 worker, 2 claims | invariants of the store, refinement of the life of a proposal |
| `worker` | 2 workers on clocks that agree, 1 proposal, 1 fault of any kind, 1 busy delivery | one execution per fault, refinement of the store, three liveness properties |
| `jobs` | two scenes: 2 workers on clocks a lease apart, 1 proposal, 1 fault; 1 worker with 2 executions, 2 proposals of one group, 1 fault and one of what an abandoned tick left behind | no late decision and no settlement without its lease in spite of skew; abandoned ticks, which proposal replaces which |
| `sql` | 2 operations in flight, 1 proposal, 2 attempts, 1 crash | unique fences, settlement by the latest claim, the record follows the row, refinement of the life of a proposal |
| `queue` | 2 messages, all modes, 1 other request of any of six kinds, refused start or quota, or restart | a message runs once, is never lost, and the thread is freed |
| `drain` | either runner; 2 messages, 2 of: a removal or Stop, a refused start or quota, an end of the process or worker | nothing is lost, no claim outlives its turn, what waits is drained |
| `streams` | SQL or Redis; the turn writes 2 frames, its delegate 1; 2 replicas, 1 reader, 1 crash, 1 refused send or lost wake, 2 attempts, pages of 2 | the sink implements `TokenStream`, no loss is silent, nothing is stranded, readers reach the end |
| `parked` | turn, awaited, detached or nested sub-agent, 2 actions, 2 people, 1 Stop, 1 failing model call or restart | rows say what was decided, decisions are kept, late ones refused, cards close, the turn ends |
| `channels` | three scenes: 2 messages, 1 question, 1 end of the process and 1 outage; 3 messages, 2 questions, 1 end; 3 messages, 1 of them no answer, 1 outage | pieces are said once and whole and one turn per message, but for what a call that threw had done; one outcome per question, questions end |

The bounds. Two proposals of one group are what a replacement needs; two claims
of one generation counter give an old and a new token, which is what fencing
distinguishes. A second worker, operation, message or person is what a race
needs; the third actor is the run that settles. A third message in `channels` is
the one that comes behind an answer; its bounds are the scripts' own, so that
what three messages need is not multiplied by both faults. Three frames from two writers in two
replicas are the fewest whose order can contradict a writer, and a page of two
makes a reader go on. One fault is enough for each kind to meet every step of
the others; more only multiply recoveries (`OneClaimPerFault` states how many).
`MaxGeneration` bounds the claims; `LooseBound` says why it refuses none that a
worker would make, so liveness is not an artefact of it. `MaxDrainAttempts` is
the code's 8 and is not reached with two messages. `MaxEvents` bounds what else
happens to the two messages of a queue: one request, refusal or restart in
`queue`, two in `drain`. Symmetry is used only in runs without liveness.

Deadlock is checked in `worker` and `jobs`: a deployment with a running worker
can always take a step. `jobs` has no liveness, so its scenes restrict the
next-state relation: what else its workers could do, `worker` does. In the other runs the system may stop (all claims used,
everything said, or nobody sends anything) and the check is off.

Fairness. `ProposalWorker`: a worker that is not stopped keeps ticking
(`setInterval` and the loop in `tick`), a tool returns, renewals fire, a turn
records its call and ends, and time passes. `InTime` says a lease does not lapse
while a healthy worker has its renewal due: the interval is shorter than the
lease (`action-proposal-worker.ts:105-126`); `Stall` is the fault that breaks
it. Nobody is forced to decide: `PendingLapses` comes from the sweep alone.
`ChatQueue` and `DurableRuns`: every await returns, every turn ends, and the
runtime gives the body of a run whose worker ended to another; nobody is forced
to send, resume or stop. `MCTokenStream`: readers poll or are woken, sends on
the wire return, closing calls are made. `ParkedCalls`: loops run on (a model
and a tool answer), time passes and timers fire; nobody has to decide.
`ChannelTurns`: the job at the head of the conversation is run and a timer that
is due fires, as the executor promises; nobody has to write. A fault
does not stand in for progress: each kind is bounded, and where a call may throw
it may also succeed.

### Disagreements found

Each is a run that ends in a counterexample, with the quoted text in
`PROJECT.json`.

- `ChatTakenOver`: between a send's claim and the inline runner's registration,
  another send takes the claim for a dead run's: two runs on a thread.
- `ParkedDecisionLost`: a step's cards are on screen before its run parks on
  them; a decision on the second is accepted and dropped.
- `DurableStopForgets`: a Stop of a durable run tells the runtime first and the
  queue several awaits later. A body that unwinds in between releases the
  thread, the Stop's own plan then decides nothing, and what waits behind the
  Stop is neither paused nor started. (An interrupt's message too.)

More that the models show and no run is kept for, with what excludes them from
the passing runs:

- Two drains of an idle thread both claim its head, with success, since a
  claim is idempotent per message; the one that finds it removed gives the
  claim back (`chat-queue.service.ts:247`) under the turn the other started.
  So "exactly one turn runs per thread" is an invariant of no passing run,
  under either runner (`Modes` with `"queue"` is needed to kick an idle
  thread).
- An interrupt whose run settled before its message was queued
  (`agent.service.ts:702`), a message queued behind the pause that
  `clearQueue` is about to lift (`agent.service.ts:835`), and a resume while a
  settling run has read the pause leave a message waiting, unpaused, on an
  idle thread: `QueueDrains` is checked with removals and Stops, and says
  nothing after a refused start, a restart, or a Stop of a durable run.
- A worker that ends in the durable queue step between the claim and the
  removal, or after it, leaves the thread held by the message's id, a run the
  runtime never heard of and so counts as active; the repeated step finds the
  thread not its own and decides nothing. If the message was already removed
  it is lost. (`chat-queue.service.ts:65-67` says the ids make "every step
  here idempotent"; `plan`'s guard does not let the repeated step get there.)
  `NeverWedged` and `QueueDrains` stop at a crash, and `NothingLost` counts
  such a message as `gone`. One that ends within `queue:restore` would enqueue
  the message twice; that step is not repeated in the model. So would an API
  process that ends between claim and start leave the thread held.
- `RecordFollows` says nothing after a process ended: a row and its record are
  two statements of the SQL store, and an end between them leaves the record
  `proposed`. So does a decision between the creation of a proposal and the
  record of its call (`agent-loop.ts:2256`, `2301`), which the record in `sql`
  and `store` is allowed.
- In a database a decision computed before the deadline may be written just
  after it, so `NeverDecidedLate` is a property of the atomic store; and the
  store's plain `supersedeActionProposal`, which nothing in the deployment
  calls, does not check which proposal is newer (`ReplacedByNewer` is about
  creations).
- A Stop rejects only the waits of the run it names
  (`inline-agent-runner.ts:196`): a sub-agent parked under its own id, or a
  call parked after the Stop, waits for its card or timer. A cancelled turn
  leaves its calls `pending_approval` (`CardsClose` excludes it). So does an
  awaited sub-agent that fails through an awaited sub-agent of its own, which
  fails no unsettled call (`core/README.md:47` says a failing run does);
  `CardsClose` is about runs that complete, and turns and detached runs that
  fail. A nested sub-agent that is executing counts as inactive, so a decision
  on a later call of it is refused and its pending calls are failed though it
  goes on.
- A worker whose clock runs ahead claims again what is leased and being run, and
  the renewals of the one that runs it, on its own clock, do not prevent it: an
  action is executed twice without a fault. `OneClaimPerFault` is about clocks
  that agree (`ClocksAgree`, which `worker` has); that such a claim settles
  nothing under a lapsed lease is in `jobs`.
- A Stop by the own id of a sub-agent is seen between its steps but does not
  abort its model call (`inline-agent-runner.ts:555`).
- Redis: the keys' TTL runs from the terminal (`redis-token-stream-sink.ts:212`),
  a reader's from its last drain (311). A reader whose consumer was slow, or that
  missed the `end` message while it drained, may look when the keys are gone, and
  returns at line 309 without the end. `ImplementsStream` and `EndReaches` allow
  it of a run whose keys expired (`Expired`), and still hold every reader to a
  prefix, and to stopping.
- Redis: `fail()` after a refused send raises that failure before the terminal
  is queued (`redis-token-stream-sink.ts:195-204`), so none is written and
  readers wait for the keys to expire; an `end` may become a `fail`. In the
  table the first terminal row wins.
- Channels: a process that ends between the webhook's claim and its enqueue
  loses the message, whose redelivery is a duplicate (`hook` ends as an
  orphan). One that ends between the claim and the mark of a question leaves
  it to nobody (`QuestionEnds` excludes it). One that ends between the
  deletion of an answered question and the record of what the answer came to
  takes the answer for a new message (`handler.ts:1396`). A definite error of
  `answer`, or of the send of a question, leaves the run parked (`GaveUp`). A
  question answered on another surface after its run is over swallows messages
  until its TTL.
- Channels, calls that throw: `service.send` may throw after it enqueued the
  message or started the run (`nestjs/src/agent.service.ts:619-620`, `683-711`).
  The handler takes it for "Nothing started: a retry may start it."
  (`handler.ts:1866`), frees the message, and the retry starts a second turn, in
  spite of "never start a second turn for one message" (1822-1823); `OneTurn`
  allows one more turn for each such send. A post that timed out has no status,
  so it is not definite (`http.ts:14-21`), is retried, and may reach the person
  twice; a slot whose give-back throws is not sent at all (841), though the
  comment at 805 says that "A failed send frees its slot, so the retry sends
  it". `SentOnce` and `WholeReply` count the one and name the other. A store that
  throws at 796 leaves a question to nobody: the retry finds it claimed by no
  owner (`QuestionEnds` excludes it). A read that gives up on a run whose cancel
  throws leaves the run waiting (1542).

## 5. Proofs

`ProposalStore_proofs` proves, for any sets of proposals and workers, any keys,
lifetimes, clock offsets, lease and bound:

- `Invariance`: `Spec => []Inv`. `Inv` is `TypeOK`, `RowInv` of every row,
  `PostedOnce`, `OnePendingPerGroup` and `ToolCallNeverLies`. The safety
  invariants are not inductive alone: that an outcome tells the right end needs
  that a row has work exactly when approved, a lease exactly while executing or
  claimed for delivery, and a delivery only with an outcome. `RowInv`
  says so for one row.
- `TypeCorrect`, `RowSafety`, `PostsOnce`, `OnePending`, `RecordsTrue`: the
  invariants of the `store` run.
- `DecisionsFinal`, `NoLateDecision`, `Fenced`: the action properties of the
  `store` and `jobs` runs.
- `LifecycleRefined`: the store implements `ProposalLifecycle`; each call is a
  step of the life of one proposal, of a creation with the proposal it replaces,
  or a stutter.

The argument is one row at a time. Each transition of `ActionProposal` is shown
to be a `RowStep`: it preserves `RowInv`, changes no decision
or outcome that was final, decides nothing late, settles only under the latest
lease. Every action of `Next` is then shown to move every row by a `RowStep`,
and to deal with what several rows share: the group at a creation,
the record after a move, the messages at an admission. Assumptions are the
constants' (`LeaseMs` positive, clock offsets natural, null values outside
their sets), each checked by TLC in the runs.

`TokenStream_proofs` proves of the promise itself, for any readers and frames,
what a client relies on: `ReadersAlwaysAgree` (what one reader has seen and what
another has are prefixes of each other) and `AnEndIsComplete`. The invariant is that every reader's part is a prefix of
the stream, and a whole one once it saw the end; the prefix order's reflexivity,
transitivity and comparability are lemmas. Together with `ImplementsStream`,
which the `streams` run checks of both sinks, they hold of the sinks' instances.

`ChannelTurns_proofs` proves, for any messages, scripts, ends of the process
and calls that throw: `OneTurnForAMessage`, `OneOutcomeOfAQuestion`,
`NothingSaidTwice` and `ReplyIsWhole`, each with the exceptions its property
names. The invariant relates the store's keys to what the phase
in hand holds in memory: a message in the place *start* has its key taken and no
turn but those of sends that threw (so a repeated phase cannot start another
unless one did); a claim of a question is
marked only by the job or timer that made it; and each piece of a reply has
one number within its phase, whichever way the phase goes, so the slot that
guards the number guards the piece. That last part (`Numbered`, `Recorded`) is
why sending is once: slots are numbered by counting sends, and a repeated
phase may skip some. That a reply is whole needs the converse, `Whole`: a slot is
taken only by the attempt that tells its piece (`SlotsTold`, so a repeated phase
that finds it taken may go on), what is due at a place of a read has been told or
is still in hand (`Owing`), and a message that came to a turn is not acted on
again (`Acting`).

`ProposalWorker_proofs` proves of the workers, for any number of them, of faults
and of busy deliveries, and any concurrency:

- `StoreUsed`: what they do to the store is what it offers, so every theorem of
  the store holds of the deployment; `DeploymentSafe` is its invariant.
- `ReplacementsNewer` (`ReplacedByNewer`) and, of hosts whose clocks agree
  (`ClocksAgree`), `OneClaim` (`OneClaimPerFault`).
  The second is the one that needs an argument over several steps: a row's
  generation is at most one more than the faults, and a row at that bound that
  is executing is held, under a lease that has not lapsed, by an execution in
  flight that still renews it, so no other claim is admitted.

`SqlProposals_proofs` proves of the store as statements: `OneFence`,
`RecordsFollow`, `SqlKeepsStore` (the atomic store's whole invariant),
`SqlDecisionsFinal`, `LatestClaimSettles` and `SqlLifecycleRefined`, for any
proposals, callers, attempts and ends of a process. `CallsInv` is the argument
for compare-and-set: while a row's version is the one a caller read, what the
caller computed is still a legal move of that row. The version guards all of a
transition except its time: a result computed before a deadline may be written
after it. A row's step without the two clauses on time is `RowMove`, and is
what these theorems use, so lateness is proved of the atomic store only.
`FencesInv` says no fence is ahead of its row's generation, so a new one is new.

`ParkedCalls_proofs` proves, for any nesting of sub-agents, batches, people,
Stops and faults, `TypeCorrect`, `RecordedRight`, `DecisionKept`, `LateRefused`
and `NoCardWaits`: all the run checks but its liveness. The
inductive `ParkedInv` is `TypeOK`, that a run's position is one of its batch
(`Placed`), what each call's row and waiter are before, at and behind its
run's position (`CallsInv`), which runs were asked for their batch (`Asked`),
what each request has seen (`Requests`), and when a run may be over (`Lives`).
It needs that no two calls start one run (`DelegationAssumption`: the code draws
a new id for each).

`ChatQueue_proofs` proves `OneTurn`, `KeptSafe` and `NoClaimLeft` of the inline
runner's queue, and `DurableKeptSafe` and `NotWedged` of the durable one's, for
any messages, requests, refusals, restarts and drain attempts. `Tokens` is why a
message runs once: it is in one place, its sender's, the queue, the hand of
one task, or a started run, and every step passes it from one hand or the queue
to the other. `Held` is why the thread is freed: the run that has the thread is
going on, or a start of it is under way, until a process ends. Both are shown
for a step of any task, so the durable runner's own steps are all that its
theorems add.

`TokenSinks_proofs` proves `NoLossInSilence` (`LossIsTold`) of both sinks and
`NothingIsStranded` (`NothingStranded`) of the Redis sink, for any delegates,
replicas, writes, ends of a process and refused sends. A frame is lost long
after its writer called, when a send nobody awaits is refused, so the invariant
follows it from the call on. `Kept`: an untold loss leaves a failure for the
next call. `SqlOwn` and `RedisOwn`: a writer's frames are gathered, queued or
lost in its own replica only, and nowhere once it is through with its last call
accepted; `LossIsTold` is the part of it about losses. It is kept when a
closing call settles because nothing of its writer is behind what that call
awaits (`SqlLast`, `RedisLast`), and because the call is not made again while
that is queued (`Closers`). In the Redis sink gathered text may lie ahead of the
closing send and still be in no send: then a send that takes it waits at or
before the closing one. For that, and for `NothingStranded`, `Drained`: where
text is gathered the flag is set, and where the flag is set a text send waits.
Each sink's steps are of three kinds, and each kind is one lemma: a call that
queues something, the head of the queue that goes one command on, and the head
that is dealt with, so that the call awaiting it settles.

Assumptions are the constants' (named `...Assumption` in the modules that
declare them), each evaluated by TLC in the runs.

Only model-checked: liveness and everything under fairness, which these
provers do not reach, with the properties of what eventually comes
(`QueueDrains`, `QuestionEnds`, `RestIsTold` among them); and of the sinks
`ImplementsStream`: that a reader has a prefix of the stream rests on what
flattening a list of chunks gives for every list, an induction over data.

## 6. Not modelled

- *Durable runner*: the loop's own steps under replay, detached deliveries
  (`deliver:detached` repeated after a crash would append its answer twice,
  for `settleUnsettledDelegation` checks and then acts), signals, and a crash
  within `queue:restore`. The runtime is an external package; the model takes
  from the code's comments that a recorded step is read back and an unrecorded
  one done again.
- *Agent loop*: gates, policies, prompts, compaction, the model's retries and
  the frames a run writes. *Inline runner*: the retries of the model and
  client answers. *Sinks*: the in-process sink, the blocking Redis reader, a
  reader's abort, `close()`, a run parked for longer than the TTL, a purge
  that races a write of such a run.
- *Confirmed tools*: a token is redeemed by one conditional insert before its
  tool runs; the rest is formatting.
- *Usage ledger and quotas*: arithmetic over recorded usage. The queue takes
  the quota's verdict as either one.
- *OpenCode, Poppy, MCP*: turns and connections over external servers, whose
  delivery guarantees are not in the repository.
- *React client*: hooks and components over the server's streams.
- Guardrails, history, memory, skills, personas, generated interfaces,
  retrieval, model and authorization adapters, dashboards, codegen, the
  website and the examples: transformations of data, rendering, or statements
  over a database, with no control that interleaves.

`PROJECT.json` lists every component with its status; a hazard that no property
covers has a note saying why.
