----------------------------- MODULE AcpHarness -----------------------------
(***************************************************************************)
(* The ACP harness: the main loop of crates/buzz-acp/src/lib.rs with the   *)
(* event queue, the pool of agents (pool.rs), one task per turn            *)
(* (run_prompt_task), the respawning of agents behind a circuit breaker    *)
(* per slot, non-cancelling steers and their acknowledgements, and the     *)
(* lease the parent runtime holds with the supervisor (airhop.rs).         *)
(*                                                                         *)
(* The loop is one thread: a handler runs to its end, and it ends with     *)
(* dispatch_pending.  The variable loop keeps that order while the tasks   *)
(* go on between the iterations of the dispatch.  The select is biased:    *)
(* results come before panics, panics before steer acknowledgements, and   *)
(* those before what the relay sends.                                      *)
(***************************************************************************)
EXTENDS EventQueue

CONSTANTS
    Agents,       \* slots of pools
    Configs,      \* configurations to run: records of the fields below
    Owned,        \* events whose author is the owner of the agent
    Threshold     \* CIRCUIT_BREAKER_THRESHOLD

ASSUME HarnessAssumption ==
    /\ Configs \subseteq [parent   : BOOLEAN,   \* role ParentAdministrator
                          handling : {"queue", "steer", "interrupt", "ownerInterrupt"},
                          drop     : BOOLEAN,   \* DedupMode::Drop
                          initial  : BOOLEAN,   \* an initial_message is configured
                          lazy     : BOOLEAN,   \* lazy_pool
                          reaper   : BOOLEAN,   \* exit_after_inactivity_secs is set
                          agents   : (SUBSET Agents) \ {{}},  \* slots of the pool
                          events   : Nat,       \* bound: events received
                          faults   : Nat,       \* bound: failures of turns, spawns, calls
                          controls : Nat]       \* bound: controls, membership changes
    /\ Channels \cap {"none", "heartbeat"} = {}
    /\ Owned \subseteq Events
    /\ Threshold \in Nat \ {0}

VARIABLES
    config,       \* the configuration of this process
    q,            \* the event queue
    received,     \* number of events received
    idle,         \* slots holding an agent
    task,         \* task_map: the turn of each slot that is checked out
    respawning,   \* slots with respawn_in_flight
    crashes,      \* crash_times within the window, per slot
    circuit,      \* open_until of each slot: unset, in the future, or passed
    results,      \* result channel: slots whose task has returned, in order
    acks,         \* steer acknowledgements not yet handled
    leases,       \* leases of the supervisor gate
    removed,      \* removed_channels
    loop,         \* where the main loop is
    pool,         \* PoolLifecycle
    faults,       \* failures so far
    controls,     \* controls so far
    fate,         \* history: how each event left the harness
    overran       \* history: channels whose turn outran its deadline

vars == <<config, q, received, idle, task, respawning, crashes, circuit, results,
          acks, leases, removed, loop, pool, faults, controls, fate, overran>>

slotVars == <<idle, task, respawning, crashes, circuit>>

-----------------------------------------------------------------------------
(* Turns *)

NoTask == [channel |-> "none"]

Busy == {a \in Agents : task[a] # NoTask}

\* Slots whose turn serves channel c.
TurnsOn(c) == {a \in Busy : task[a].channel = c}

Running == {a \in Busy : task[a].phase = "running"}

Panicked == {a \in Busy : task[a].phase = "panicked"}

NewTurn(ch, b, isolated) ==
    [channel  |-> ch,         \* Channel(ch) or Heartbeat
     batch    |-> b,          \* the batch, and its recoverable copy
     isolated |-> isolated,   \* flushed for a single thread
     phase    |-> "running",
     outcome  |-> "ok",
     returned |-> FALSE,      \* PromptResult carries the batch
     signal   |-> "none",     \* control signal sent to the task
     steers   |-> <<>>]       \* steer requests not yet answered

NoBatch == [channel |-> "none", events |-> <<>>, cancelled |-> <<>>]

BatchEvents(b) == Elems(b.events) \cup Elems(b.cancelled)

\* How a turn fails: the agent exits, is idle too long, meets the hard cap
\* while active or loses its pipe ("died"); it meets the hard cap inactive
\* ("hard"); or it reports an error over an intact pipe ("auth", "app").
Failures == {"died", "hard", "auth", "app"}

\* Outcomes after which the agent process is replaced; "drain" is a cancelled
\* turn that did not stop in time.
Fatal == {"died", "hard", "drain"}

\* Events the harness still has: in the queue or in the batch of a turn.
Held == (UNION {HeldFor(q, c) : c \in Channels}) \cup
        (UNION {BatchEvents(task[a].batch) : a \in Busy})

\* The events of S have left for the reason why.  Any other event that is no
\* longer held was let go by the depth cap of its channel, without a reason.
Settle(S, why) ==
    fate' = [e \in Events |-> IF e \in S THEN why
                              ELSE IF e \in Held \ Held' THEN "overflow"
                              ELSE fate[e]]

Init ==
    /\ config \in Configs
    /\ q = EmptyQueue
    /\ received = 0
    /\ pool = IF config.lazy THEN "listening" ELSE "ready"
    /\ idle \in IF config.lazy THEN {{}} ELSE (SUBSET config.agents) \ {{}}
    /\ task = [a \in Agents |-> NoTask]
    /\ respawning = {}
    /\ crashes = [a \in Agents |-> 0]
    /\ circuit = [a \in Agents |-> "unset"]
    /\ results = <<>>
    /\ acks = {}
    /\ leases = {}
    /\ removed = {}
    /\ loop = "select"
    /\ faults = 0
    /\ controls = 0
    /\ fate = [e \in Events |-> "none"]
    /\ overran = {}

\* The loop is between two handlers and no result and no panic, the first arms
\* of the select, is ready.  A turn that returns while the head of the loop
\* runs is as one that returns after it.
Quiet == loop = "select" /\ results = <<>> /\ Panicked = {}

-----------------------------------------------------------------------------
(* dispatch_pending *)

\* Mutant: every lease is finished, those of running turns too.
BeginDispatch_FinishAll(ls, failed) ==
    /\ loop' = "dispatch"
    /\ leases' = {}
    /\ faults' = failed

\* The head of dispatch_pending: leases of channels without a turn are
\* finished; an unanswered finish leaves its lease in place.
BeginDispatch(ls, failed) ==
    LET active == {c \in ls : \E a \in Agents : task'[a].channel = c}
    IN  /\ loop' = "dispatch"
        /\ \E kept \in SUBSET (ls \ active) :
              /\ kept # {} => failed < config.faults
              /\ leases' = active \cup kept
              /\ faults' = IF kept # {} THEN failed + 1 ELSE failed

Isolated(c) == config.parent /\ c \notin q.flat

\* What flush_next can return: the batch it drains and the queue it leaves.
\* It begins with the backstop.
Refreshed == ExpireOverdue(IF config.parent THEN Reunite(q) ELSE q)

FlushNext ==
    UNION {{[batch |-> FlushBatch(r, c, Isolated(c)), rest |-> Flushed(r, c, Isolated(c))] :
                c \in Flushable(r)} : r \in {Refreshed}}

DispatchDone ==
    /\ loop = "dispatch"
    /\ FlushNext = {}
    /\ q' = Refreshed
    /\ loop' = "select"
    /\ overran' = overran \cup q.overdue
    /\ UNCHANGED <<config, received, slotVars, results, acks, leases, removed, pool,
                   faults, controls>>
    /\ Settle({}, "none")

\* The pool is exhausted: the batch goes back to the front of its channel,
\* the interrupted events merged into it do not.
DispatchNoAgent ==
    /\ loop = "dispatch"
    /\ idle = {}
    /\ loop' = "select"
    /\ overran' = overran \cup q.overdue
    /\ UNCHANGED <<config, received, slotVars, results, acks, leases, removed, pool,
                   faults, controls>>
    /\ \E f \in FlushNext :
          /\ q' = mark_complete(requeue_preserve_timestamps(f.rest, f.batch), f.batch.channel)
          /\ Settle(Elems(f.batch.cancelled), "interrupted")

\* The supervisor grants the claim, or there is none to ask.  Its answer says
\* whether the conversation is threaded; what stays pending may be paced anew.
DispatchRun ==
    /\ loop = "dispatch"
    /\ leases = {}
    /\ overran' = overran \cup q.overdue
    /\ UNCHANGED <<config, received, respawning, crashes, circuit, results, acks, removed,
                   loop, pool, faults, controls>>
    /\ \E f \in FlushNext, a \in idle :
          LET c == f.batch.channel
          IN  /\ task' = [task EXCEPT ![a] = NewTurn(c, f.batch, Isolated(c))]
              /\ idle' = idle \ {a}
              /\ leases' = IF config.parent THEN {c} ELSE {}
              /\ \E flat \in IF config.parent THEN {q.flat, q.flat \cup {c}, q.flat \ {c}}
                                              ELSE {q.flat},
                    paused \in IF config.parent /\ f.rest.queues[c] # <<>>
                               THEN {q.paused, q.paused \cup {c}} ELSE {q.paused} :
                    q' = [f.rest EXCEPT !.flat = flat, !.paused = paused]
              /\ Settle({}, "none")

\* The supervisor does not grant the claim.  A lease is still held, or the call
\* failed, perhaps after the lease was recorded: the batch waits.
DispatchDeferred ==
    /\ loop = "dispatch"
    /\ config.parent
    /\ idle # {}
    /\ leases # {} \/ faults < config.faults
    /\ overran' = overran \cup q.overdue
    /\ UNCHANGED <<config, received, slotVars, results, acks, removed, loop, pool, controls>>
    /\ faults' = IF leases # {} THEN faults ELSE faults + 1
    /\ \E f \in FlushNext :
          /\ leases' \in IF leases # {} THEN {leases} ELSE {{}, {f.batch.channel}}
          /\ q' = mark_complete(defer(f.rest, f.batch), f.batch.channel)
          /\ Settle({}, "none")

\* The supervisor refuses the input for good.
DispatchRefused ==
    /\ loop = "dispatch"
    /\ config.parent
    /\ idle # {}
    /\ leases = {}
    /\ faults < config.faults
    /\ faults' = faults + 1
    /\ overran' = overran \cup q.overdue
    /\ UNCHANGED <<config, received, slotVars, results, acks, leases, removed, loop, pool,
                   controls>>
    /\ \E f \in FlushNext :
          /\ q' = mark_complete(f.rest, f.batch.channel)
          /\ Settle(BatchEvents(f.batch), "refused")

-----------------------------------------------------------------------------
(* Results and panics *)

\* SlotCircuit::record_crash: whether the slot may respawn, and its circuit.
MayRespawn(a) ==
    \/ circuit[a] = "passed"
    \/ circuit[a] = "unset" /\ crashes[a] + 1 < Threshold

record_crash(a) ==
    /\ crashes' = [crashes EXCEPT ![a] = CASE circuit[a] = "passed" -> Threshold - 1
                                          [] circuit[a] = "future" -> @
                                          [] OTHER -> @ + 1]
    /\ circuit' = [circuit EXCEPT ![a] = CASE circuit[a] = "passed" -> "unset"
                                          [] circuit[a] = "unset" /\ ~MayRespawn(a) -> "future"
                                          [] OTHER -> @]

\* The agent of slot a is gone; the loop ends when no slot has an agent or is
\* about to have one.
ReplaceAgent(a, next) ==
    /\ record_crash(a)
    /\ respawning' = IF MayRespawn(a) THEN respawning \cup {a} ELSE respawning
    /\ idle' = idle
    /\ loop' = IF respawning' = {} /\ idle = {} /\ Busy = {a} THEN "exited" ELSE next

\* finish_channel, called for the channel of a result: whether the reply is
\* still owed, and the leases and failures it leaves.  A turn that ends well
\* without its reply counts among the failures, as an unanswered call does.
FinishChannel(ch, outcome) ==
    IF ch \notin leases
    THEN {[owed |-> FALSE, leases |-> leases, failed |-> faults]}
    ELSE {[owed |-> FALSE, leases |-> leases \ {ch}, failed |-> faults]}
         \cup {fin \in {[owed |-> TRUE, leases |-> leases \ {ch},
                         failed |-> IF outcome = "ok" THEN faults + 1 ELSE faults],
                        [owed |-> TRUE, leases |-> leases, failed |-> faults + 1]} :
                   fin.failed <= config.faults}

\* handle_prompt_result on a result that carries its batch.
RequeueResult(b, outcome) ==
    IF b.channel \in removed \/ outcome \in {"hard", "auth"} THEN q
    ELSE IF outcome \in {"cancelled", "drain"} THEN requeue_as_cancelled(q, b)
    ELSE requeue(q, b)

\* The events that leave with the result, and why.
ResultFate(t, has, outcome) ==
    CASE ~has /\ outcome = "ok" -> <<BatchEvents(t.batch), "answered">>
      [] ~has /\ outcome # "ok" -> <<BatchEvents(t.batch), IF config.drop THEN "dropped" ELSE "stopped">>
      [] has /\ t.channel \in removed -> <<BatchEvents(t.batch), "drained">>
      [] has /\ t.channel \notin removed /\ outcome \in {"cancelled", "drain"} -> <<{}, "none">>
      [] OTHER -> IF outcome \in {"hard", "auth"} \/ Exhausted(q, t.channel)
                  THEN <<BatchEvents(t.batch), "dead">>
                  ELSE <<Elems(t.batch.cancelled), "interrupted">>

HandleResult ==
    /\ loop = "select"
    /\ pool = "ready"
    /\ results # <<>>
    /\ results' = Tail(results)
    /\ UNCHANGED <<config, received, acks, removed, pool, controls, overran>>
    /\ LET a == Head(results)
           t == task[a]
       IN  \E fin \in FinishChannel(t.channel, t.outcome) :
              LET has     == t.returned \/ (fin.owed /\ ~config.drop)
                  outcome == IF fin.owed /\ t.outcome = "ok" THEN "app" ELSE t.outcome
                  left    == ResultFate(t, has, outcome)
              IN  /\ leases' = fin.leases
                  /\ faults' = fin.failed
                  /\ task' = [task EXCEPT ![a] = NoTask]
                  /\ IF t.channel = "heartbeat"
                     THEN q' = q /\ Settle({}, "none")
                     ELSE /\ q' = mark_complete(IF has THEN RequeueResult(t.batch, outcome) ELSE q,
                                                t.channel)
                          /\ Settle(left[1], left[2])
                  /\ IF outcome \in Fatal
                     THEN ReplaceAgent(a, "drain")
                     ELSE /\ idle' = idle \cup {a}
                          /\ loop' = "drain"
                          /\ UNCHANGED <<respawning, crashes, circuit>>

\* recover_panicked_agent: no failure notice is posted for a batch whose
\* retries are used up.
RecoverPanicked(a) ==
    /\ a \in Panicked
    /\ loop = "drain" \/ (loop = "select" /\ results = <<>>)
    /\ task' = [task EXCEPT ![a] = NoTask]
    /\ UNCHANGED <<config, received, results, acks, removed, pool, controls, overran>>
    /\ LET b == task[a].batch
           c == task[a].channel
       IN  IF c = "heartbeat"
           THEN q' = q /\ Settle({}, "none")
           ELSE /\ q' = mark_complete(IF config.drop \/ c \in removed THEN q ELSE requeue(q, b), c)
                /\ CASE config.drop -> Settle(BatchEvents(b), "dropped")
                     [] ~config.drop /\ c \in removed -> Settle(BatchEvents(b), "drained")
                     [] OTHER -> IF Exhausted(q, c) THEN Settle(BatchEvents(b), "silent")
                                 ELSE Settle(Elems(b.cancelled), "interrupted")
    /\ IF loop = "drain"
       THEN ReplaceAgent(a, "drain") /\ UNCHANGED <<leases, faults>>
       ELSE \/ ReplaceAgent(a, "dispatch") /\ loop' = "exited" /\ UNCHANGED <<leases, faults>>
            \/ ReplaceAgent(a, "dispatch") /\ BeginDispatch(leases, faults)

\* drain_ready_join_results is done.
DrainDone ==
    /\ loop = "drain"
    /\ Panicked = {}
    /\ UNCHANGED <<config, q, received, slotVars, results, acks, removed, pool, controls,
                   fate, overran>>
    /\ BeginDispatch(leases, faults)

-----------------------------------------------------------------------------
(* The relay: events, controls and membership *)

\* signal_in_flight_task: the first signal wins; one that finds no turn, or a
\* turn that has returned, has no effect.
Signal(c, s) ==
    \E a \in IF TurnsOn(c) = {} THEN Agents ELSE TurnsOn(c) :
        task' = IF a \in Running /\ task[a].channel = c /\ task[a].signal = "none"
                THEN [task EXCEPT ![a].signal = s] ELSE task

\* mode_gate_signal
GateSignal(e) ==
    CASE config.handling = "steer" -> "steer"
      [] config.handling = "interrupt" -> "interrupt"
      [] config.handling = "ownerInterrupt" /\ e \in Owned -> "interrupt"
      [] OTHER -> "none"

\* send_steer: one request may wait while the read loop answers another.  A
\* request is refused when one waits, and once the read loop is over.
SteerAccepted(a) == a \in Running /\ Len(task[a].steers) < 2

\* An event of the relay that passed the gates.
Receive(c, e) ==
    /\ Quiet
    /\ e = received + 1
    /\ e <= config.events
    /\ received' = e
    /\ UNCHANGED <<config, idle, respawning, crashes, circuit, results, acks, removed,
                   pool, controls, overran>>
    /\ \E paused \in IF config.parent THEN {q.paused, q.paused \cup {c}} ELSE {q.paused} :
          LET q1       == [Push(q, c, e) EXCEPT !.paused = paused]
              signal   == IF e \notin Kickoffs /\ c \in q.inFlight THEN GateSignal(e) ELSE "none"
          IN  CASE config.drop /\ c \in q.inFlight -> q' = q /\ task' = task /\ Settle({e}, "dropped")
                [] ~(config.drop /\ c \in q.inFlight) /\ signal = "none" ->
                      q' = q1 /\ task' = task /\ Settle({}, "none")
                [] OTHER ->
                      \/ /\ signal = "steer"
                         /\ \E a \in TurnsOn(c) :
                               /\ SteerAccepted(a)
                               /\ task' = [task EXCEPT ![a].steers = Append(@, e)]
                         /\ q' = mark_native_steer_pending(q1, c, e)
                         /\ Settle({}, "none")
                      \/ /\ Signal(c, "requeue")
                         /\ q' = q1
                         /\ Settle({}, "none")
    /\ IF pool = "ready" THEN BeginDispatch(leases, faults) ELSE UNCHANGED <<loop, leases, faults>>

\* !cancel, !rotate and the observer's cancel_turn and switch_model: the first
\* three stop the turn and drop its batch, a switch of the model requeues it.
Control(c, s) ==
    /\ Quiet
    /\ controls < config.controls
    /\ controls' = controls + 1
    /\ TurnsOn(c) # {}
    /\ Signal(c, s)
    /\ UNCHANGED <<config, q, received, idle, respawning, crashes, circuit, results, acks,
                   leases, removed, loop, pool, faults, fate, overran>>

\* The loop ends: the owner's !shutdown, a signal, or the relay task is gone.
Shutdown ==
    /\ Quiet
    /\ controls < config.controls
    /\ controls' = controls + 1
    /\ loop' = "exited"
    /\ UNCHANGED <<config, q, received, slotVars, results, acks, leases, removed, pool,
                   faults, fate, overran>>

\* The inactivity reaper looks at turns in flight, not at pending events.
Reap ==
    /\ Quiet
    /\ config.reaper
    /\ q.inFlight = {}
    /\ \A a \in Busy : task[a].channel # "heartbeat"
    /\ loop' = "exited"
    /\ UNCHANGED <<config, q, received, slotVars, results, acks, leases, removed, pool,
                   faults, controls, fate, overran>>

RemoveMember(c) ==
    /\ Quiet
    /\ controls < config.controls
    /\ c \notin removed
    /\ controls' = controls + 1
    /\ removed' = removed \cup {c}
    /\ q' = drain_channel(q, c)
    /\ UNCHANGED <<config, received, slotVars, results, acks, leases, loop, pool, faults, overran>>
    /\ Settle(HeldFor(q, c), "drained")

AddMember(c) ==
    /\ Quiet
    /\ c \in removed
    /\ removed' = removed \ {c}
    /\ UNCHANGED <<config, q, received, slotVars, results, acks, leases, loop, pool, faults,
                   controls, fate, overran>>

\* The answer to a steer: delivered, rejected by the agent or of unknown
\* delivery, or never delivered, in which case the turn is interrupted.
HandleSteerAck(k) ==
    /\ Quiet
    /\ k \in acks
    /\ acks' = acks \ {k}
    /\ UNCHANGED <<config, received, idle, respawning, crashes, circuit, results, removed,
                   pool, controls, overran>>
    /\ CASE k.ack = "success" ->
                /\ q' = remove_event(extend_in_flight_deadline(q, k.channel), k.channel, k.event)
                /\ task' = task
                /\ Settle({k.event} \cap (Held \ Held'), "steered")
         [] k.ack = "release" ->
                /\ q' = release_native_steer(q, k.channel, k.event)
                /\ task' = task
                /\ Settle({}, "none")
         [] OTHER ->
                /\ q' = release_native_steer(q, k.channel, k.event)
                /\ Signal(k.channel, "requeue")
                /\ Settle({}, "none")
    /\ BeginDispatch(leases, faults)

-----------------------------------------------------------------------------
(* Timers, respawns and the lazy pool *)

\* The maintenance tick: expired retry state is dropped and empty slots whose
\* circuit allows it are refilled.
Maintain ==
    /\ Quiet
    /\ pool = "ready"
    /\ LET refill == {a \in config.agents : /\ a \notin idle \cup Busy \cup respawning
                                            /\ circuit[a] # "future"}
           probe  == {a \in refill : circuit[a] = "passed"}
       IN  /\ respawning' = respawning \cup refill
           /\ crashes' = [a \in Agents |-> IF a \in probe THEN Threshold - 1 ELSE crashes[a]]
           /\ circuit' = [a \in Agents |-> IF a \in probe THEN "unset" ELSE circuit[a]]
    /\ UNCHANGED <<config, received, idle, task, results, acks, removed, pool, controls>>
    /\ LET q1 == compact_expired_state(q)
       IN  /\ q' = ExpireOverdue(q1)
           /\ overran' = overran \cup q.overdue
           /\ IF has_flushable_work(q1) THEN BeginDispatch(leases, faults)
                                        ELSE UNCHANGED <<loop, leases, faults>>
    /\ Settle({}, "none")

\* The pacing timer of the parent runtime, and the heartbeat when there is
\* something to do, look for work.
DispatchTick ==
    /\ Quiet
    /\ pool = "ready"
    /\ has_flushable_work(q)
    /\ q' = ExpireOverdue(q)
    /\ overran' = overran \cup q.overdue
    /\ UNCHANGED <<config, received, slotVars, results, acks, removed, pool, controls>>
    /\ Settle({}, "none")
    /\ BeginDispatch(leases, faults)

\* A respawned agent is put into its slot and work is dispatched to it.
RespawnOk(a) ==
    /\ Quiet
    /\ a \in respawning
    /\ respawning' = respawning \ {a}
    /\ idle' = idle \cup {a}
    /\ UNCHANGED <<config, q, received, task, crashes, circuit, results, acks, removed, pool,
                   controls, fate, overran>>
    /\ BeginDispatch(leases, faults)

\* A failed spawn opens the circuit of its slot.
RespawnFailed(a) ==
    /\ Quiet
    /\ a \in respawning
    /\ faults < config.faults
    /\ faults' = faults + 1
    /\ respawning' = respawning \ {a}
    /\ circuit' = [circuit EXCEPT ![a] = "future"]
    /\ UNCHANGED <<config, q, received, idle, task, crashes, results, acks, leases, removed,
                   loop, pool, controls, fate, overran>>

\* The heartbeat runs only when there is nothing else to do.
Heartbeat(a) ==
    /\ Quiet
    /\ pool = "ready"
    /\ ~has_flushable_work(q)
    /\ a \in idle
    /\ \A b \in Busy : task[b].channel # "heartbeat"
    /\ q' = ExpireOverdue(q)
    /\ overran' = overran \cup q.overdue
    /\ task' = [task EXCEPT ![a] = NewTurn("heartbeat", NoBatch, FALSE)]
    /\ idle' = idle \ {a}
    /\ UNCHANGED <<config, received, respawning, crashes, circuit, results, acks, leases,
                   removed, loop, pool, faults, controls>>
    /\ Settle({}, "none")

\* PoolLifecycle: pending work wakes a lazy pool, a failed wake is repeated
\* when its delay has passed.
WakeStart ==
    /\ Quiet
    /\ pool \in {"listening", "due"}
    /\ has_flushable_work(q)
    /\ pool' = "waking"
    /\ UNCHANGED <<config, q, received, slotVars, results, acks, leases, removed, loop,
                   faults, controls, fate, overran>>

WakeDone ==
    /\ Quiet
    /\ pool = "waking"
    /\ pool' = "ready"
    /\ idle' \in (SUBSET config.agents) \ {{}}
    /\ UNCHANGED <<config, q, received, task, respawning, crashes, circuit, results, acks,
                   removed, controls, fate, overran>>
    /\ BeginDispatch(leases, faults)

WakeFailed ==
    /\ Quiet
    /\ pool = "waking"
    /\ faults < config.faults
    /\ faults' = faults + 1
    /\ pool' = "failed"
    /\ UNCHANGED <<config, q, received, slotVars, results, acks, leases, removed, loop,
                   controls, fate, overran>>

\* Instants pass: a retry delay, a pause of the parent, a wake delay, the
\* cooldown of a circuit, the window of the crashes.  A dispatch that finds a
\* lease makes no call and takes no time.
Elapse(c) ==
    /\ loop = "dispatch" => leases = {}
    /\ \/ c \in q.throttled /\ q' = [q EXCEPT !.throttled = @ \ {c}]
       \/ c \in q.paused /\ q' = [q EXCEPT !.paused = @ \ {c}]
    /\ UNCHANGED <<config, received, slotVars, results, acks, leases, removed, loop, pool,
                   faults, controls, fate, overran>>

CooldownElapses(a) ==
    /\ circuit[a] = "future"
    /\ circuit' = [circuit EXCEPT ![a] = "passed"]
    /\ UNCHANGED <<config, q, received, idle, task, respawning, crashes, results, acks, leases,
                   removed, loop, pool, faults, controls, fate, overran>>

WindowElapses(a) ==
    /\ circuit[a] = "unset"
    /\ crashes[a] > 0
    /\ \E n \in 0..(crashes[a] - 1) : crashes' = [crashes EXCEPT ![a] = n]
    /\ UNCHANGED <<config, q, received, idle, task, respawning, circuit, results, acks, leases,
                   removed, loop, pool, faults, controls, fate, overran>>

WakeDelayElapses ==
    /\ pool = "failed"
    /\ pool' = "due"
    /\ UNCHANGED <<config, q, received, slotVars, results, acks, leases, removed, loop,
                   faults, controls, fate, overran>>

\* A turn with an initial message has two prompts, each with the full budget
\* of a turn, against a deadline made for one.
DeadlinePasses(c) ==
    /\ config.initial
    /\ c \in q.inFlight \ q.overdue
    /\ TurnsOn(c) # {}
    /\ q' = [q EXCEPT !.overdue = @ \cup {c}]
    /\ UNCHANGED <<config, received, slotVars, results, acks, leases, removed, loop, pool,
                   faults, controls, fate, overran>>

-----------------------------------------------------------------------------
(* Tasks: run_prompt_task *)

\* Mutant: a turn that ends leaves its steer requests unanswered.
Unanswered_Forgotten(t) == {}

\* Steer requests a turn leaves unanswered are released.
Unanswered(t) == {[channel |-> t.channel, event |-> t.steers[i], ack |-> "release"] :
                      i \in DOMAIN t.steers}

Return(a, outcome, returned) ==
    /\ task' = [task EXCEPT ![a] = [@ EXCEPT !.phase = "returned", !.outcome = outcome,
                                             !.returned = returned, !.steers = <<>>]]
    /\ results' = Append(results, a)
    /\ acks' = acks \cup Unanswered(task[a])
    /\ UNCHANGED <<config, q, received, idle, respawning, crashes, circuit, leases, removed,
                   loop, pool, controls, fate, overran>>

TurnEnds(a) ==
    /\ a \in Running
    /\ Return(a, "ok", FALSE)
    /\ UNCHANGED faults

TurnFails(a, outcome) ==
    /\ a \in Running
    /\ faults < config.faults
    /\ faults' = faults + 1
    /\ Return(a, outcome, task[a].channel # "heartbeat" /\ ~config.drop)

\* The control signal is taken: the turn is cancelled in time or it is not,
\* unless it had already completed.  A stop drops the batch.
TurnSignalled(a, outcome) ==
    /\ a \in Running
    /\ task[a].signal # "none"
    /\ outcome \in {"cancelled", "ok"} \/ faults < config.faults
    /\ faults' = IF outcome \in {"cancelled", "ok"} THEN faults ELSE faults + 1
    /\ Return(a, outcome, outcome # "ok" /\ task[a].signal = "requeue" /\ ~config.drop)

TurnPanics(a) ==
    /\ a \in Running
    /\ faults < config.faults
    /\ faults' = faults + 1
    /\ task' = [task EXCEPT ![a] = [@ EXCEPT !.phase = "panicked", !.steers = <<>>]]
    /\ acks' = acks \cup Unanswered(task[a])
    /\ UNCHANGED <<config, q, received, idle, respawning, crashes, circuit, results, leases,
                   removed, loop, pool, controls, fate, overran>>

\* The read loop answers the oldest steer request.
AnswerSteer(a, ack) ==
    /\ a \in Running
    /\ task[a].steers # <<>>
    /\ acks' = acks \cup {[channel |-> task[a].channel, event |-> Head(task[a].steers), ack |-> ack]}
    /\ task' = [task EXCEPT ![a].steers = Tail(@)]
    /\ UNCHANGED <<config, q, received, idle, respawning, crashes, circuit, results, leases,
                   removed, loop, pool, faults, controls, fate, overran>>

-----------------------------------------------------------------------------

TaskStep(a) ==
    \/ TurnEnds(a)
    \/ \E o \in Failures : TurnFails(a, o)
    \/ \E o \in {"ok", "cancelled", "drain", "died", "app"} : TurnSignalled(a, o)
    \/ TurnPanics(a)
    \/ \E k \in {"success", "release", "fallback"} : AnswerSteer(a, k)

\* A handler that has begun, and the arms of the select that come first.
LoopGoesOn ==
    \/ DispatchDone \/ DispatchNoAgent \/ DispatchRun \/ DispatchDeferred \/ DispatchRefused
    \/ HandleResult \/ DrainDone
    \/ \E a \in Agents : RecoverPanicked(a)

LoopStep ==
    \/ LoopGoesOn
    \/ \E k \in acks : HandleSteerAck(k)
    \/ Maintain \/ DispatchTick
    \/ \E a \in Agents : RespawnOk(a) \/ RespawnFailed(a) \/ Heartbeat(a)
    \/ WakeStart \/ WakeDone \/ WakeFailed

Input ==
    \/ \E c \in Channels, e \in Events : Receive(c, e)
    \/ \E c \in Channels, s \in {"stop", "requeue"} : Control(c, s)
    \/ \E c \in Channels : RemoveMember(c) \/ AddMember(c)
    \/ Shutdown \/ Reap

Clock ==
    \/ WakeDelayElapses
    \/ \E a \in Agents : CooldownElapses(a) \/ WindowElapses(a)
    \/ \E c \in Channels : Elapse(c) \/ DeadlinePasses(c)

Next == (\E a \in Agents : TaskStep(a)) \/ LoopStep \/ Input \/ Clock

Spec == Init /\ [][Next]_vars

\* What the code guarantees: the loop takes the arms that are ready, a turn
\* ends by its hard cap, spawned processes report, and instants pass.  Nothing
\* obliges a steer to be answered before its turn ends, nor anyone to write.
Fairness ==
    /\ WF_vars(LoopGoesOn)
    /\ SF_vars(\E k \in acks : HandleSteerAck(k))
    /\ SF_vars(Maintain)
    /\ SF_vars(\E a \in Agents : RespawnOk(a))
    /\ WF_vars(WakeStart) /\ WF_vars(WakeDone) /\ WF_vars(WakeDelayElapses)
    /\ \A a \in Agents : WF_vars(CooldownElapses(a)) /\ WF_vars(TurnEnds(a))
    /\ \A c \in Channels : SF_vars(Elapse(c))

FairSpec == Spec /\ Fairness

-----------------------------------------------------------------------------
(* Properties *)

Fates == {"none", "answered", "steered", "dead", "silent", "overflow", "drained", "refused",
          "stopped", "interrupted", "dropped"}

Batches == [channel : Channels \cup {"none"}, events : Seq(Events), cancelled : Seq(Events)]

Turns == [channel : Channels \cup {"heartbeat"}, batch : Batches, isolated : BOOLEAN,
          phase : {"running", "returned", "panicked"},
          outcome : Failures \cup {"ok", "cancelled", "drain"}, returned : BOOLEAN,
          signal : {"none", "stop", "requeue"}, steers : Seq(Events)]

\* Every variable has its type.
TypeOK ==
    /\ config \in Configs
    /\ q \in Queues
    /\ received \in Events \cup {0}
    /\ idle \subseteq Agents /\ respawning \subseteq Agents
    /\ task \in [Agents -> Turns \cup {NoTask}]
    /\ crashes \in [Agents -> 0..Threshold]
    /\ circuit \in [Agents -> {"unset", "future", "passed"}]
    /\ results \in Seq(Agents)
    /\ acks \subseteq [channel : Channels, event : Events, ack : {"success", "release", "fallback"}]
    /\ leases \subseteq Channels /\ removed \subseteq Channels
    /\ loop \in {"select", "drain", "dispatch", "exited"}
    /\ pool \in {"listening", "waking", "failed", "due", "ready"}
    /\ faults \in 0..config.faults /\ controls \in 0..config.controls
    /\ fate \in [Events -> Fates]
    /\ overran \subseteq Channels

\* An agent slot is idle, running one turn, being respawned or empty, never
\* two of these, and it is empty while its circuit breaker is open.
SlotHeldOnce ==
    \A a \in Agents :
        /\ a \in idle => a \notin Busy \cup respawning
        /\ a \in Busy => a \notin respawning
        /\ circuit[a] = "future" => a \notin idle \cup Busy \cup respawning

\* A channel has at most one turn, and it is marked in flight exactly while it
\* has one, as long as no turn of its own has outrun its deadline.
OneTurnPerChannel ==
    \A c \in Channels \ (overran \cup q.overdue) :
        /\ Cardinality(TurnsOn(c)) <= 1
        /\ c \in q.inFlight <=> TurnsOn(c) # {}

\* No agent serves two turns and no channel is served by two, whatever crashes,
\* respawns, cooldowns, panics and late results overlap.
TurnsExclusive == SlotHeldOnce /\ OneTurnPerChannel

\* The places of the harness that hold event e: pending, withheld for a steer,
\* interrupted, or in the batch of a turn.
Places(e) ==
    {<<"queue", c>>     : c \in {d \in Channels : e \in Elems(q.queues[d])}} \cup
    {<<"withheld", c>>  : c \in {d \in Channels : e \in Elems(q.withheld[d])}} \cup
    {<<"cancelled", c>> : c \in {d \in Channels : e \in Elems(q.cancelled[d])}} \cup
    {<<"turn", a>>      : a \in {b \in Busy : e \in BatchEvents(task[b].batch)}}

NoRepeat(s) == Cardinality(Elems(s)) = Len(s)

\* A received event is in exactly one place until it has a fate, and in none
\* once it has one: no step duplicates it and nothing it was settled for
\* brings it back.
HeldOnce ==
    /\ \A e \in Events :
          Cardinality(Places(e)) = IF e <= received /\ fate[e] = "none" THEN 1 ELSE 0
    /\ \A c \in Channels : NoRepeat(q.queues[c]) /\ NoRepeat(q.withheld[c]) /\ NoRepeat(q.cancelled[c])

\* A turn of the parent runtime whose channel is not a flat conversation
\* mixes no two threads, whatever was interrupted, requeued or deferred.
OneThreadPerTurn ==
    \A a \in Busy : task[a].isolated =>
        \A e, f \in BatchEvents(task[a].batch) : ThreadOf[e] = ThreadOf[f]

\* The parent runtime runs one turn at a time, and the supervisor gate holds
\* the lease of that turn and no other until its result is handled.
ParentTurnLeased ==
    config.parent => /\ Cardinality(leases) <= 1
                     /\ \A a \in Busy : task[a].channel \in Channels => leases = {task[a].channel}

\* What the harness holds for channel c.
Load(c) == HeldFor(q, c) \cup UNION {BatchEvents(task[a].batch) : a \in TurnsOn(c)}

\* An event leaves without a fate of its own only while the harness holds more
\* events for its channel than the depth cap, the one that arrives included.
LostOnlyAtCap ==
    [][\A e \in Events : fate[e] # fate'[e] /\ fate'[e] = "overflow" =>
          \E c \in Channels : /\ e \in Load(c)
                              /\ Cardinality(Load(c)) + (received' - received) > MaxPending]_vars

\* A batch that a newer message interrupted is kept until a turn has served it
\* or its retries are used up: no requeue leaves it behind.
InterruptedSurvive == \A e \in Events : fate[e] # "interrupted"

\* Every event the harness has received is settled, or the harness has ended:
\* no event is forgotten in the queue, in the table of withheld events, among
\* the interrupted batches, behind an open circuit or behind a stale lease.
EventSettles ==
    \A e \in Events : received >= e ~> (fate[e] # "none" \/ loop = "exited")

=============================================================================
