# Verification of the AirHop center backend

AirHop runs the back office of children's activity centers on top of the Buzz
relay. Parents write to a center through a messenger (Telegram, WhatsApp) or book
on its web page; an agent, Hermes, answers them until a member of the staff takes
over; the staff keeps lessons, bookings, enrollments and payments. This project
models the parts where several actors change the same state: who may answer a
parent and what happens to a reply on its way out, the harness that runs the
agents, the seats of a lesson, and the payments of a month.

## 1. Inventory

| Component | State | Operations | Talks to | Hard behaviour |
|---|---|---|---|---|
| Hermes conversation ownership (`external_conversation.rs`, `staff_control.rs`) | conversation row (owner, control version, cycle), inbound receipts, outbound intents | insert event, staff control, classifier decision, commit reply, publish | turns, client threads, outbox | takeover during a running turn, late classifier decisions, publication after commit |
| Hermes turn leases (`agent_runtime.rs`) | turn receipts (status, token, expiry, attempt), deployment | claim, rotate, finish, change deployment | ownership, ACP harness | lease expiry against late requests, retries, several batches |
| Client threads (`client_threads.rs`, `migration.rs`) | queue status, branch, channel of the conversation | status, branch, reopen, migrate legacy channel | ownership | reopening while a turn of the old cycle is leased |
| Channel gateway (`channel_gateway.rs`, `whatsapp.rs`) | connections, routes, delivery outbox, attempts | configure, claim, complete, provider status | ownership, connectors | lease of deliveries, retries, route change while a delivery is out |
| Conversation booking (`conversation_booking`, `booking_handoff.rs`) | drafts, family bindings | book, redeem handoff | ownership, bookings | binding a family under a running turn |
| Bookings (`booking.rs`, `public_booking.rs`, `public_management.rs`, `booking_decision.rs`) | bookings, commands by key, notices of decisions with leases | reserve, decide, confirm, cancel, ask for a transfer; claim and complete a notice | lessons, enrollments, connectors | last seat, lost answers, lock order, leases that run out |
| Lessons, groups, enrollments (`schedule.rs`, `group_directory.rs`, `lesson_exception.rs`, `lesson_participants.rs`) | groups, rules, exceptions, materialized lessons, enrollments | change or archive a group, cancel, change or restore a lesson, add a child, enroll | bookings, payments | a lesson taken away under a reservation that waits for it |
| Payments (`payment_automation.rs`, `payment_queue.rs`, `airhop_payments.rs`) | monthly expectations, ledger, commands by key, overdue summary and its cards | receive, refund, change, react to a card; create months ahead, prepare, post, complete | enrollments, settings, relay | stale ledger sums, retries, a pod that stops between two posts, a channel that changes |
| ACP harness (`buzz-acp`) | per-channel event queue, pool of agents, tasks, leases of parent turns | push, flush, requeue, steer, cancel, respawn, complete | relay, Hermes turns | one turn per channel, interrupted batches, panics, open circuits, late steers |
| Relay (`buzz-relay`) | connections, subscriptions, fan-out | subscribe, publish, close | database, pub/sub | slow readers, ordering |
| Git on object store, multi-tenant relay | manifests; tenant rows | publish; route | object store | compare-and-swap races; tenant isolation |
| Pairing, workflows, push, audit, replica fence | session; runs; outbox; chain; positions | ... | relay | timeouts, leases, retries |
| Clients, SDK, command line | - | - | relay | user interface |

What makes the conversation correct:

* at most one turn of a conversation is leased, whatever batches, retries and
  expired leases overlap;
* a reply is stored only by the newest lease of its turn, under the control
  version the lease was granted under, while Hermes owns the conversation;
* a committed reply is final, and is published or given up;
* ownership goes back to Hermes only on a command newer than the takeover;
* nothing that waits to be sent is left behind in an archived channel.

What makes the delivery correct:

* a message that was accepted, delivered or has finally failed is never sent
  again, whatever late completion, expired lease or retry comes after;
* it counts as delivered exactly when there is evidence of it, in whatever order
  completions, receipts and the 25-hour limit come;
* the system moves the conversation to `waiting_parent` only if a message that is
  not older than the parent's newest one was delivered;
* every accepted message, and every queued one on a route that stays active, is
  settled in the end;
* superseded messages stay superseded.

What makes the harness correct:

* a slot has its agent in one place only, and a channel one turn at a time;
* an event is held once: never both in the queue and with a turn, a steer or an
  interrupted batch, and it is lost only where a bound says so;
* a turn never mixes threads, and a parent turn runs only under its lease;
* once failures stop, every event is answered, given up or handed over.

What makes bookings correct:

* nobody gets a seat that is not there, or on a lesson that does not take place;
* a lesson cancelled by the staff has no live booking, and a rule that an
  enrollment selected keeps producing its lessons;
* a request that is sent again books once;
* circles of waiting transactions arise only where three known commands take part;
* a decision reaches the parent or becomes a call by the staff.

What makes payments correct:

* the ledger of a payment agrees with its status, whatever commands race;
* a reaction confirms the amount its card shows; a retried command gets the
  answer of the first;
* no month of an active enrollment is skipped, the next one is there in time, and
  an overdue payment gets its card although pods stop at any step.

`PROJECT.json` lists all components with what is modelled of each, the hazards at
their lines, and the properties that cover them.

## 2. Plan

Most important behaviour first; the first five steps are built.

| Step | Module | Content |
|---|---|---|
| 1, done | `HermesConversation`, `ReplyLedger` | ownership, turn leases, replies and their publication; the abstract ledger of replies |
| 2, done | `ExternalDelivery` | the outbox: leases, completions, receipts, route and connection changes |
| 3, done | `EventQueue`, `AcpHarness` | the queue of the harness, composed with its main loop, pool, steers and parent leases |
| 4, done | `Payments` | commands, ledger, billing horizon, overdue cards |
| 5, done | `Bookings` | seats, lessons, groups, enrollments as transactions with their locks; notices of decisions |
| 6 | `ParentChannel` | composes `HermesConversation` and `ExternalDelivery`: a published intent becomes an outbox row, a failed delivery takes the conversation over and cancels its turns; the handoff's snapshot and lock as two steps |
| 7 | `PairingSession`, `PushOutbox`, `ReplicaFence`, `AgentActions` | small state machines with timeouts and leases |
| proofs, done | `HermesConversation_proofs` | every safety property of the conversation and the simulation of `ReplyLedger` |
| proofs, done | `Payments_proofs` | `LedgerBalanced`, `ConfirmsWhatItShows`, `RetryAnswered` |
| proofs, done | `PaymentsAutomation_proofs` | `NoMonthSkipped`, `RetryStable`, the type invariant |
| proofs, done | `Bookings_proofs` | every safety property of the bookings, `LockOrder` included |
| proofs, done | `EventQueue_proofs`, `AcpHarness_proofs` | the methods of the queue; every safety property of the harness |

The Git store and the tenant isolation of the relay have specifications of their
own in `docs/spec` and are not repeated.

## 3. Modules

| Module | What it is |
|---|---|
| `HermesConversation` | one conversation: its row, events, inbound receipts, turn receipts and outbound intents |
| `ReplyLedger` | the abstract promise: a reply is stored only under a grant of the present version |
| `ExternalDelivery` | one conversation's outbox, route, connections, delivery attempts and receipts |
| `EventQueue` | the event queue of the ACP harness: a record and one operator per method |
| `AcpHarness` | the main loop of the harness around that queue: tasks, results, steers, respawns, leases |
| `Payments` | an enrollment's payments, the commands on them, and the automation of the relay's pods |
| `Bookings` | the lessons of one group, their bookings and enrollments, and the notices of decisions |
| `MCHermesConversation`, `MCExternalDelivery`, `MCAcpHarness`, `MCPayments`, `MCBookings` | the modules TLC runs |
| `HermesConversation_proofs`, `ExternalDelivery_proofs`, `EventQueue_proofs`, `AcpHarness_proofs`, `Payments_proofs`, `PaymentsAutomation_proofs`, `Bookings_proofs` | theorems and proofs |

### HermesConversation

| Variable | Table |
|---|---|
| `conv` | `airhop_external_conversations` with the newest row of its cycles |
| `config` | `airhop_agent_deployments` (enabled, not paused) and the status of route and connection |
| `event`, `clock` | `events`: `received_at` and channel |
| `receipt` | `airhop_external_inbound_receipts` |
| `turn` | `airhop_hermes_turn_receipts`; `attempt` stands for the lease token, which every rotation replaces |
| `intent` | `airhop_hermes_outbound_intents` by turn and sequence |
| `humanSince` | history: when the staff took over |

Every operation locks the conversation row until its transaction commits, so each
is one action. `InboundParent` is a parent's message (with the reopening of a
resolved conversation in `record_inbound`). `StaffReply`, `StaffPause`,
`StaffResume`, `StaffAsk` and `StaffNote` are the outcomes of a staff message in
`apply_staff_control`, and `ResolveResume`, `ResolvePause` and `ResolveOther` the
classifier's decision on a request that `StaffAsk` left pending. `SetStatus`,
`AssignBranch` and `MigrateLegacy` are client commands, `BindByHandoff` and
`BindByBooking` bind a family, `PutDeployment` and `PutLink` are configuration.
`LeaseNew` and `LeaseAgain` are the two outcomes of
`lease_airhop_parent_agent_turn`; `CommitReply` and `FinishTurn` take any token
that was ever handed out, so late requests are included. `PublishIntent` and
`PublicationFails` are the two outcomes of a publication attempt. `LeaseExpires`
is time passing.

`ImplementsLedger` maps the leased turn to the ledger's grant and the control
version stored with a turn's intents to its reply.

### ExternalDelivery

| Variable | Table |
|---|---|
| `conv` | owner, queue status, `updated_at` and `last_inbound_at` of the conversation |
| `route`, `rebind` | `airhop_external_conversation_routes`; a rebind between its look for leases and its write |
| `connection` | `airhop_channel_connections` |
| `out` | `airhop_external_message_outbox`, with the transactions that will insert a row |
| `outcome` | `airhop_external_message_delivery_attempts` by message and token |
| `receipts` | `airhop_whatsapp_delivery_receipts` |
| `parent` | the transactions that insert the parent's messages |
| `clock` | the newest `now()` taken |
| `used` | how many changes of configuration and commands are used up (bound) |

`now()` is the time of a transaction's BEGIN, and the lock of the conversation row
decides the order in which transactions take effect. `BeginMessage` and
`BeginParent` take the time; `ReadRoute`, `Enqueue` and `record_inbound` are what
happens under the lock. `enqueue_external_message` reads the route without locking
it, hence `ReadRoute` and `Enqueue`; a rebind looks for leases before it writes,
hence `CheckRebind` and `Rebind`. The rest is one action per transaction: `Claim`
(gives up unconfirmed and exhausted messages, then leases any subset of the ones
that are due), `Accept`, `Deliver`, `Retry` and `Fail` (a completion under any
token), `WhatsAppStatus` (a receipt), `PutConnection`, `PutRouteStatus`,
`SetOwner`, `SetStatus`. `TimePasses` ends a lease or the 25 hours.

### EventQueue and AcpHarness

`EventQueue` is the value `EventQueue` of `queue.rs`; `push`, `flush_next`,
`requeue`, `requeue_preserve_timestamps`, `requeue_as_cancelled`, `defer`,
`mark_complete`, `drain_channel` and the steer methods are operators from a queue
to a queue. Events are numbered by arrival; instants are abstracted to whether
they have passed.

| Variable | Code |
|---|---|
| `q` | the queue, owned by the main loop |
| `idle`, `task`, `respawning`, `crashes`, `circuit` | the pool's slots: agents at rest, `task_map`, respawns in flight, circuit breaker |
| `results`, `acks` | the result channel and the steer acknowledgements |
| `leases` | what the parent runtime holds with the supervisor (`airhop.rs`) |
| `removed`, `pool` | channels the agent left; the lazily started pool |
| `loop` | where the loop is: at its select, in a dispatch, draining |
| `fate`, `overran` | history: how an event left, which turn outran its deadline |

The loop is one thread. `HandleResult`, `RecoverPanicked`, `HandleSteerAck`,
`Receive`, `Control`, `RemoveMember`, `AddMember`, `Reap`, `Maintain`,
`RespawnOk`, `RespawnFailed`, `WakeDone` and `Shutdown` are arms of its biased
select; each ends in `dispatch_pending`, whose iterations are `DispatchRun`,
`DispatchNoAgent`, `DispatchDeferred`, `DispatchRefused` and `DispatchDone`. The
tasks of the turns go on between them: `TurnEnds`, `TurnFails`, `TurnSignalled`,
`TurnPanics` and `AnswerSteer`.

### Payments

| Variable | Code |
|---|---|
| `enrollment`, `payment` | `airhop_enrollments`; `airhop_payment_expectations` with the sums of the ledger |
| `request`, `tx`, `done`, `answer` | requests by key, transactions that wait for their row, `airhop_commands`, what the client saw |
| `stream`, `archived` | the payments channel of the settings; channels that are gone |
| `summary`, `card`, `posted` | the two Buzz state tables and the messages of the relay |
| `worker`, `jobs` | the automation of each pod and the summaries prepared |
| `active`, `forgiven` | history: months to be billed |

`Ask`, `React`, `Begin`, `Commit` and `Rollback` are a command on a payment:
`Begin` reads the ledger sum in the snapshot of the statement that waits for the
row, `Commit` is what happens under the lock. `Pause`, `Resume`, `End` and
`ChangeTariff` are the lifecycle of an enrollment, `SetStream` and `Archive` the
settings. A cycle of a pod is `LoadHorizon`, `ReadEnrollments`, `Materialize`,
`LoadTargets`, `Prepare`, `PostRoot`, `PostReply`, `Reserve`, `PostCards` and
`Complete`; `Fail` ends it at any step, which is also what a crash does.

### Bookings

| Variable | Code |
|---|---|
| `group`, `rule`, `exception`, `lesson` | `airhop_groups`, `airhop_recurrence_rules`, `airhop_lesson_exceptions`, `airhop_lesson_occurrences` |
| `booking`, `enrolled` | `airhop_bookings`, `airhop_enrollments` with their selected rules |
| `done`, `expect`, `tries` | `airhop_commands`; the version a client has seen; how often a request was sent |
| `tx` | transactions under way: next statement, locks held, values read |
| `notice`, `lease`, `receipt`, `callback` | the outbox rows of decisions, their lease tokens, delivery attempts, and the connectors' completions |

Here the locks themselves are the subject, so a command is not one action. `Plan`
lists the statements of each command that lock a row or read something no lock
protects, in the order of the code; `Step` runs one of them: it waits for the rows
in `Needs`, takes them one by one in any order, and then applies the code's check
(`LessonRefused`, `GroupRefused`, `CountRefused`, ...). `Reserve`,
`AddParticipant`, `Decide`, `Manage`, `PutException`, `PutGroup` and `Enroll`
are the commits. `Deadlock` is PostgreSQL ending a transaction in a circle of
waits, `Abort` a lost connection. A statement with `FOR UPDATE OF o` that waited
sees the lesson as it is and the joined group as it was; the step `snapshot` reads
the group before the wait. `Claim`, `Expire`, `Report`, `Complete` and `Crash` are
the connectors.

## 4. What the runs check

| Run | Result | What it shows |
|---|---|---|
| `hermes_ownership` | holds | two parent messages, a staff message, two turns with a retry each: one lease at a time, leases and replies under the present version, stable source of a retried batch, final replies, resume only on a newer command, the ledger |
| `hermes_config` | holds | the fence of leases while a family is bound, the conversation moves to a thread, deployment and link change; committed replies settle, a dead runtime's lease does not block the next message for ever |
| `delivery_receipts` | holds | evidence of delivery and the queue, with two messages over WhatsApp, receipts in any order, the 25-hour limit, a parent message and a command |
| `delivery_routes` | holds | leases, retries and late completions between two providers and two connectors while route and connections change; queued and accepted messages settle |
| `acp_queue` | holds | eleven configurations of the harness: no event held twice or lost, one turn per channel, one place per agent, with failures, panics, steers, respawns, membership changes and leases |
| `acp_liveness` | holds | once failures stop, every event settles |
| `payments` | holds | races on one payment with lost answers, three months of billing, overdue cards of one and two pods that fail at any step |
| `bookings` | holds | any two commands on a lesson, and any three of the main ones, in every order of their locks; retries; notices with connectors that stop, are late and report twice |
| `hermes_replay` | violated | an answered message is answered again after a late resume |
| `delivery_rebind` | violated | a rebind leaves a message pending, or under a live lease, on the old routing version |
| `acp_interrupted` | violated | an interrupted batch is lost when the batch it was merged into finds the pool exhausted |
| `payments_leak` | violated | a summary is posted in the old channel after the settings named a new one |

Each violated property restates a sentence of the repository's documents or
comments that the code does not keep; `PROJECT.json` quotes it under `findings`
with the line. Whether code or sentence should change is for the maintainers.
More differences of that kind were seen and are recorded with their hazards:

* an expired lease of a turn is rotated without the limit of three attempts;
* a turn's own booking binds a family, so a retry of its batch is refused;
* a reply committed before a takeover is published after it (which may be intended);
* a retryable failure puts a message back into the queue of a disabled connection;
* a message given up by lease expiry does not hand the conversation to the staff;
* the acknowledgement of an older reply wins over a parent message that arrived
  later but began earlier;
* a decision of the staff checks the status of the booking, not lesson and seat, and
  its notice goes out although the parent has cancelled meanwhile;
* a reservation that commits between a group command's look for bookings and its
  lock of the lesson keeps a live booking on a lesson that is no longer produced.

Properties that are proved and that no schedule of a small instance makes more
vivid (the type invariants of the first two modules, `HermesOwnsOpenCycle`) are left
to the proofs; the other modules have their type invariant in a run.

Every property of a passing run has a mutant: a definition with a plausible mistake
(names such as `ReservePlan_Unlocked`), written before the definition it replaces,
under which TLC finds the property violated.

### Bounds

* Two turns and two attempts are the least that let a stale token meet a newer
  lease and two batches compete; a third turn repeats the competition.
* Rotations of an expired lease are bounded by `MaxAttempt`, in the code they are not:
  `TriggerIsServed` does not speak of a runtime that dies for ever in the same turn.
* Control versions up to 3 allow a takeover, a resume and a second change.
* One part per reply: parts are published independently and the properties speak
  of each part.
* Two messages suffice for "the newest message" of a handoff; the other rows of the
  outbox are independent. `MaxAttempts` is 1 where receipts are the subject and 2
  where retries are; 5 in the code. The theorems hold for every value.
* Two connections (WhatsApp and another) and two connectors cover a rebind and a
  change of connector.

* Harness: two channels, two agents and up to four events in two threads; queue and
  batch limits of 2, one retry, a circuit that opens at the second crash. Each
  configuration turns on one or two of the harness's modes (steering, parent
  runtime, lazy pool, initial messages) and a few faults and controls: two events
  that compete for a place, and a third that meets them there, are what the
  properties tell apart.
* Payments: one enrollment, as rows of different enrollments never meet but in a
  summary; three months of two days, two months created per refresh (so that a pause
  of the automation leaves some due), prices 0 and 2 (so that a part can be paid),
  three keys, two pods; ten configurations.
* Bookings: two lessons of a group (a command that rematerializes locks both), one
  child on record and one more per web form, up to three requests of two tries each,
  seats for one or two, two attempts instead of five, three leases. 447
  configurations: every pair of sixteen commands on a booked lesson, every triple of
  the eight that take seats or take the lesson away, every reservation of a free seat
  against every command, every command against a confirmed trial, and a few with
  retries, faults and notices.

`CHECK_DEADLOCK FALSE`: conversations, queues and requests may be idle for ever, and
the bounded versions, messages, keys and tries run out.

### Fairness

* `HermesConversation`: time passes (`LeaseExpires`); the relay's recovery loop
  (`airhop_gateway.rs`) keeps retrying committed intents; the runtime keeps
  claiming a message that is still a trigger (the harness retries its batch). No
  fairness is assumed of replies, completions, staff or classifier.
* `ExternalDelivery`: time passes, a transaction that read the route commits or is
  rolled back, and the connectors keep asking for work (their polling loop).
  Nothing is assumed of completions and receipts: connectors may die in every
  attempt and Meta may never answer. `QueuedSettles` is stated for a route that
  stays as it is, because a paused route may hold a message for ever.
* `AcpHarness`: the loop takes the arms that are ready, a turn ends (it has a hard
  cap), processes that are spawned report, delays and cooldowns elapse. Strong
  fairness is used for arms that are ready again and again while others are served:
  the biased select polls all of them in every iteration. Faults are bounded, so they
  stop in the end.
* `Payments`: the automation of a pod runs on a timer (weak fairness of its cycle);
  nothing obliges staff or parents.
* `Bookings`: connectors poll, a lease runs out, and a connector that has not stopped
  reports. Nothing obliges the clients; how often connectors stop is bounded.

## 5. What is proved

All safety properties of the passing runs are theorems, for every value of the
constants that satisfies the named assumptions: any number of messages, batches, turns,
connections, connectors, attempts, channels, agents, events, payments, pods, lessons,
requests and keys. The assumptions are

* `EventsAssumption`, `FirstAssumption`, `MessagesAssumption`, `RoutesAssumption` and
  `BoundsAssumption`: limits are numbers, messages of parents and of the staff are
  different, a batch is a set of them, and the first route is one of the connections;
* `QueueAssumption`: the events of the harness are numbered from 1;
* `HarnessAssumption`: no channel has the name "none" or "heartbeat", which the model
  uses where the code has `None` and the heartbeat task;
* `PaymentsAssumption`: there is a highest price, some channel exists and "unset" is
  none, the pods are finitely many, and idempotency keys of commands and ids of
  reactions differ: `buzz_confirmation_digest` hashes a reaction under a prefix of its own;
* `BookingsAssumption`: children, bookings and requests are finitely many, and the
  bookings that exist initially are not those of requests to come.

`HermesConversation_proofs`: `TypeCorrect`, `OneLease`, `FencedLease`,
`FencedReply`, `OwnedCycle` and `StableSource` follow from `Inductive`. The safety
properties are not inductive by themselves. `LeaseFence` speaks of the current cycle
only, so `StoredNotAhead` is needed: when a cycle is opened, no stored turn or
receipt already carries its number, and when the version is raised, none carries the
new version. That the newest trigger of a batch is unique needs `ReceivedOrder`.
That a rotated lease finds the source it had, and that its version is again the
present one, needs `TurnScope`: what a turn of the current cycle knows of its batch.

The rest is built on `Inductive`. `StepShape` sorts the steps by what they do to turn
receipts and reply intents: at most cancel leased turns, write one turn that is not
completed, or settle one committed part. `RepliesMove` and `FinalReply` follow case by
case; the second needs `ReplyFence`, because only a completed turn has replied.
`NewerResume` needs one more invariant, `PendingNewer`: in human hands, a command that
carries the present version came after the takeover, because the takeover raised the
version. `OwnerShape` sorts the steps for it. `Implementation` is the refinement: the
leased turn is the grant and `replyVersion` the reply; `Simulation` maps each action
to one step of `ReplyLedger` or a stutter. It needs `SingleLease` (a lease replaces all
grants), `LeaseFence` (the grant used by a reply carries the present version) and
`ReplyFence` (a turn leased again has not replied).

`ExternalDelivery_proofs`: `TypeCorrect`, `OutcomeIsLast`, `EvidenceDecides`,
`QueueJustified` and `FinalForever` follow from `Inductive`. `RowSound` relates one
row to its outcomes and receipts: besides the properties it says that a lease has no
outcome yet (so a completion cannot contradict one), that no outcome is ahead of the
attempts, and that only a message Meta accepted has a provider status and receipts.
Each way a row changes is a lemma (`LeasedRow`, `EndedRow`, `GivenUpRow`,
`ReceiptRow`, `QuietRow`), and each action applies one of them to one row.
`QueueKept` and `DeliveredJustified` carry `QueueEvidence`: a delivered message
stays delivered, so the evidence is never withdrawn.

`Payments_proofs`: `BalancedLedger`, `ReactionConfirms` and `AnsweredRetry` follow
from `PaymentsInductive`. The ledger is balanced because a change is validated
against what is paid, but a command validates against a sum it read before it had the
row. `TxOk` says why that is sound: as long as the payment has the version the
request names, the sum is the present one. It needs requests never to be ahead of
their payment (`RequestOk`), hence cards never to be ahead either, in a channel, in
the pending summary or in the hands of a pod (`CardsOk`). `Grows` carries all of it
over a step: a row stays as it is or its version rises. `ApplyFacts` is the
arithmetic of the seven kinds of change.

`PaymentsAutomation_proofs`: `MonthsBilled`, `StableRetry` and `TypeCorrect`, on top of
`PaymentsInductive`.

* That no month is skipped follows from `MonthsOf`: a gap before a billed month lies
  before the floor of its enrollment, and the active months there that are not billed
  were forgiven by a resume. A pod reads the floor and inserts later, so a resume may
  lie between; `SeenOk` says that the floor it has read is at most the present one, and
  that suffices: pods need not exclude each other. `BilledNext` and `FilledFacts` say
  which months one refresh inserts, also when it stops half-way.
* Retries repeat nothing while one pod runs and the channel stays (`OnePod`, the
  conditions of `RetryStable` itself). `RetryInv` is about order: the period of the
  summary only rises (`SummaryOk`), the pod works on the pending summary and posts only
  what it has reserved (`PodOk`), a root of the month is posted only if the summary
  knows it, and no posted card is ahead of the reserved or the pending one (`IsPosted`,
  `Ahead`). A second message for the same month would have to be behind itself.
* The type invariant is split into seven named parts by what the steps touch
  (`Touches`), each with a lemma of its own.

`Bookings_proofs`: `TypeCorrect`, `NeverOverbooked`, `BooksOpenLessons`,
`CancelledLessonsEmpty`, `SelectionsKept`, `BooksOncePerRequest` and
`ReceiptsAreDecisive` follow from `Invariance`. The argument is that of two-phase
locking. `TxInv` says of every transaction under way which rows it has locked and what
it has checked, by the statements it is past (`Locked`, `Checked`): a reservation that
has counted has a free seat, an enrollment that has looked finds the child free.
`Guarantee` says what a commit may change and which row locks it owns for that. `Stable`
is the heart: if another transaction commits under its guarantee, what this one has
locked and checked stays true, because each change needs a lock that this one holds.
Where the code checks without a lock, a fact about committed rows takes its place: the
web form reads the group before it waits for the lesson, but `ScheduleInv` says that an
archived group has no open lesson.

`OrderOfLocks` is `LockOrder`. It needs the converse of `Locked`, `TakenInv`: a
transaction holds no row of a statement that is still to come, and a command on a lesson
holds bookings of that lesson only. `Level` numbers the statements in the order of the
locks, those that lock several rows of a table after those that lock one, and `Deeper`
shows that who is waited for waits at a higher level, if at all. Two statements of the
same level would need the group, or the lesson, exclusively at the same time. Leaving
and moving a booking lock the booking before the key, against the order; `KeyIsFree`
shows that they never wait for the key.

`EventQueue_proofs`: `SortIsStable` says that the order of a batch is a stable
permutation by `created_at`. The lemmas cover the methods of the queue that
`AcpHarness` uses: each returns a queue in which no event is twice (`Tidy`), which holds
what it held and what it was given (`Puts`), less only (`Leaves`), or as much as the cap
allows (`Fits`).

`AcpHarness_proofs`: `TypeCorrect`, `Exclusive`, `Leased`, `SingleThread`, `Conserved`
and `LossBounded` follow from `Invariance`. The invariant has three parts.

* `Steady` is about slots and turns. `TurnsExclusive` is not inductive: a result that
  waits in the channel must be of a turn that has returned, and of each turn once
  (`ResultsReady`); a slot that was not opened has counted too few crashes
  (`CircuitCounts`); and nothing is dispatched before the pool is there (`PoolAsleep`).
  `OneTurn` is the property without the exception for an expired deadline: a channel
  that was never released early is in flight exactly while it has its one turn.
* `Apart` says that no event is in two places: not twice in a channel's queue, in two
  channels, in two batches, or in a queue and a batch.
* `Ledger` says that the events held are those received that have no fate. `HeldOnce`
  needs both, since an event that moves from a batch to a queue must be in neither other.

The steps are proved through what they move: `Transfer` (events go from a batch to the
queue of its channel), `Dwindle` (events leave with a fate), `GivenBack` (a batch
returns after its turn), `EndAccounts` (a turn ends, whatever becomes of its batch),
`ChannelAccounts` (a channel is removed). `LostOnlyAtCap` is proved with each of them
(`LossStep`): where events are dropped at the cap, those of the channel in the queue and
in its turns, the arriving one included, are more than `MaxPending`.

Only model-checked: the liveness properties (`CommittedSettles`, `TriggerIsServed`,
`QueuedSettles`, `AcceptedSettles`, `EventSettles`, `CardAppears`, `BilledAhead`,
`DecisionTold`), because fairness and ENABLED are out of the prover's reach, and the four
runs that expect a violation, which are counterexamples.

## 6. Limits

* In `HermesConversation` and `ExternalDelivery`, requests the code refuses, and
  replays it answers from stored state, change nothing and are not actions. Rollbacks leave no trace: a transaction that is
  rolled back is one that never took effect.
* In `HermesConversation`, `received_at` is taken in the order of the locks.
  `ExternalDelivery` separates the two for messages; commands and completions take
  their time when they commit.
* Retry delays (`next_attempt_at`) and the limit of a claim are covered by `Claim`
  leasing any subset of the claimable messages.
* The handoff after a failure sees every stored message when it takes the lock;
  PostgreSQL evaluates its look for newer messages in an earlier snapshot.
* In `ExternalDelivery` the migration of a legacy channel is left out: it raises the
  routing version after checking, under the conversation's lock, that nothing is
  pending or leased, so only settled and accepted rows keep the old one.
* Harness: prompts, sessions and the wire protocol are left out, retry counts are kept
  as the code keeps them but delays only as "not yet" and "over"; the rotation of an
  agent's key, and a steer that was delivered into a turn which then fails, are not
  told apart from an answered one.
* Payments: names, currencies, texts and `end_date` are left out; one organization;
  the analytics report is not modelled.
* Bookings: lessons lie in the future and are of one group and organization; visit
  policies, identities, consents and ages are valid; the web form creates a child
  instead of finding one by phone; attendance, the binding of messengers, the refresh
  of the horizon and the expiry of enrollments are not modelled.
* Not modelled: keys and signatures, channel memberships, message contents and
  mentions, template quotas, credentials, notifications, history snapshots,
  deterministic batch identifiers beyond the batch itself.
* The parts of the system that are not modelled at all are listed in `PROJECT.json`
  with the reason: planned, transport or user interface, or specified elsewhere.
