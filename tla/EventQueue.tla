----------------------------- MODULE EventQueue -----------------------------
(***************************************************************************)
(* The event queue of the ACP harness (crates/buzz-acp/src/queue.rs).      *)
(*                                                                         *)
(* The queue is a value owned by the main loop of the harness, so it is    *)
(* modelled as a record and each method as an operator from a queue to a   *)
(* queue; AcpHarness composes them into the handlers of the loop.          *)
(*                                                                         *)
(* Events are the numbers of their arrival, which stand for received_at:   *)
(* the number survives every requeue, as received_at does.  created_at,    *)
(* the author's own clock, is a constant that need not agree with it.      *)
(* Instants are abstracted to whether they have passed: a channel is       *)
(* throttled until its retry_after passes, and overdue once its in-flight  *)
(* deadline has.  The reason and the framing of an interruption, and what  *)
(* is only logged, are left out.                                           *)
(***************************************************************************)
EXTENDS Integers, Sequences, FiniteSets

CONSTANTS
    Channels,    \* channels the agent is subscribed to
    Events,      \* events, by number of arrival
    CreatedAt,   \* created_at of each event
    ThreadOf,    \* conversation_thread_key of each event
    Kickoffs,    \* events that are kickoff tasks
    MaxPending,  \* MAX_PENDING_PER_CHANNEL
    MaxBatch,    \* MAX_BATCH_EVENTS
    MaxRetries   \* MAX_RETRIES

ASSUME QueueAssumption ==
    /\ Events \subseteq Nat \ {0}
    /\ CreatedAt \in [Events -> Nat]
    /\ Kickoffs \subseteq Events
    /\ MaxPending \in Nat \ {0}
    /\ MaxBatch \in Nat \ {0}
    /\ MaxRetries \in Nat

EmptyQueue ==
    [queues    |-> [c \in Channels |-> <<>>],  \* pending events
     inFlight  |-> {},                         \* in_flight_channels
     overdue   |-> {},                         \* in_flight_deadlines passed
     throttled |-> {},                         \* retry_after in the future
     paused    |-> {},                         \* parent_batch_ready is false
     flat      |-> {},                         \* parent_flat_channels
     retries   |-> [c \in Channels |-> 0],     \* retry_counts
     cancelled |-> [c \in Channels |-> <<>>],  \* cancelled_batches
     withheld  |-> [c \in Channels |-> <<>>]]  \* withheld_native_steer

Queues == [queues : [Channels -> Seq(Events)], inFlight : SUBSET Channels,
           overdue : SUBSET Channels, throttled : SUBSET Channels,
           paused : SUBSET Channels, flat : SUBSET Channels,
           retries : [Channels -> 0..MaxRetries], cancelled : [Channels -> Seq(Events)],
           withheld : [Channels -> Seq(Events)]]

-----------------------------------------------------------------------------
(* Helpers on sequences of events *)

Elems(s) == {s[i] : i \in DOMAIN s}

\* s without e, which it holds at most once.
Without(s, e) ==
    LET i == CHOOSE j \in DOMAIN s : s[j] = e
    IN  IF e \in Elems(s) THEN SubSeq(s, 1, i - 1) \o SubSeq(s, i + 1, Len(s)) ELSE s

\* The newest events give way when a requeue exceeds the depth of a channel.
Trim(s) == SubSeq(s, 1, IF Len(s) > MaxPending THEN MaxPending ELSE Len(s))

\* Number of events that stay in front of s[i] when s is sorted by created_at;
\* the sort is stable.
Before(s, i) ==
    Cardinality({j \in DOMAIN s : \/ CreatedAt[s[j]] < CreatedAt[s[i]]
                                  \/ CreatedAt[s[j]] = CreatedAt[s[i]] /\ j <= i})

SortByCreatedAt(s) ==
    [k \in DOMAIN s |-> s[CHOOSE i \in DOMAIN s : Before(s, i) = k]]

-----------------------------------------------------------------------------
(* Methods *)

\* push: the oldest pending event gives way when the channel is full.
Push(q, c, e) ==
    LET s == q.queues[c]
        kept == IF Len(s) >= MaxPending THEN Tail(s) ELSE s
    IN  [q EXCEPT !.queues[c] = Append(kept, e)]

\* Mutant: withheld events are dropped when their channel expires.
RecoverWithheld_Drop(q, E) ==
    [q EXCEPT !.withheld = [c \in Channels |->
                             IF c \in E THEN <<>> ELSE q.withheld[c]]]

\* recover_withheld_for_expired_channel, for each channel in E.
RecoverWithheld(q, E) ==
    [q EXCEPT !.queues = [c \in Channels |->
                             IF c \in E /\ q.withheld[c] # <<>>
                             THEN Trim(q.withheld[c] \o q.queues[c])
                             ELSE q.queues[c]],
              !.withheld = [c \in Channels |->
                             IF c \in E THEN <<>> ELSE q.withheld[c]]]

\* The backstop at the head of flush_next and has_flushable_work: a channel
\* past its in-flight deadline is released without waiting for its turn.
ExpireOverdue(q) ==
    [RecoverWithheld(q, q.overdue) EXCEPT
        !.inFlight = q.inFlight \ q.overdue,
        !.overdue  = {}]

\* Mutant: interrupted batches are merged in the parent runtime too.
Reunite_Merge(q) == q

\* Parent runtime: interrupted batches go back to the front, unmerged.
Reunite(q) ==
    [q EXCEPT !.queues = [c \in Channels |-> q.cancelled[c] \o q.queues[c]],
              !.cancelled = [c \in Channels |-> <<>>]]

\* Mutant: a channel with a turn in flight is flushed again.
Pending_InFlight(q) ==
    {c \in Channels : /\ q.queues[c] # <<>>
                      /\ c \notin q.throttled
                      /\ c \notin q.paused}

Pending(q) ==
    {c \in Channels : /\ q.queues[c] # <<>>
                      /\ c \notin q.inFlight
                      /\ c \notin q.throttled
                      /\ c \notin q.paused}

\* Interrupted batches wait for no throttle.
Interrupted(q) == {c \in Channels : q.cancelled[c] # <<>> /\ c \notin q.inFlight}

has_flushable_work(q) ==
    LET r == ExpireOverdue(q) IN Pending(r) # {} \/ Interrupted(r) # {}

\* FIFO fairness: the channel whose head has waited longest.
Oldest(q) ==
    CHOOSE c \in Pending(q) :
        \A d \in Pending(q) : Head(q.queues[c]) <= Head(q.queues[d])

\* The channels flush_next may choose: interrupted batches come last and in
\* the order of a hash map.
Flushable(q) == IF Pending(q) # {} THEN {Oldest(q)} ELSE Interrupted(q)

\* Length of the longest prefix of s, of at most n events, whose events are
\* all in S.
Prefix(s, n, S) ==
    CHOOSE k \in 0..Len(s) :
        /\ k <= n
        /\ \A i \in 1..k : s[i] \in S
        /\ k = Len(s) \/ k = n \/ s[k + 1] \notin S

\* A batch keeps to one thread in the parent runtime, and a kickoff task
\* always runs alone.
DrainCount(s, isolated) ==
    LET n == Prefix(s, MaxBatch,
                    IF isolated THEN {e \in Events : ThreadOf[e] = ThreadOf[s[1]]}
                                ELSE Events)
        k == Prefix(s, n, Events \ Kickoffs)
    IN  IF k = 0 THEN 1 ELSE k

\* The batch flush_next drains from channel c.
FlushBatch(q, c, isolated) ==
    IF c \in Pending(q)
    THEN [channel   |-> c,
          events    |-> SortByCreatedAt(
                            SubSeq(q.queues[c], 1, DrainCount(q.queues[c], isolated))),
          cancelled |-> q.cancelled[c]]
    ELSE [channel |-> c, events |-> q.cancelled[c], cancelled |-> <<>>]

\* The queue after flush_next has drained channel c.
Flushed(q, c, isolated) ==
    LET s == q.queues[c]
    IN  [q EXCEPT !.queues[c] = IF c \in Pending(q)
                                THEN SubSeq(s, DrainCount(s, isolated) + 1, Len(s))
                                ELSE s,
                  !.cancelled[c] = <<>>,
                  !.inFlight = q.inFlight \cup {c}]

\* A channel under an active throttle was requeued and keeps its count.
mark_complete(q, c) ==
    [q EXCEPT !.inFlight = q.inFlight \ {c},
              !.overdue  = q.overdue \ {c},
              !.retries[c] = IF c \in q.throttled THEN q.retries[c] ELSE 0]

\* Mutant: one attempt more than MAX_RETRIES.
Exhausted_Late(q, c) == q.retries[c] > MaxRetries

\* requeue returns the batch to its caller once the retries are used up.
Exhausted(q, c) == q.retries[c] + 1 > MaxRetries

requeue_preserve_timestamps(q, b) ==
    [q EXCEPT !.queues[b.channel] = Trim(b.events \o q.queues[b.channel])]

requeue(q, b) ==
    LET c == b.channel
    IN  IF Exhausted(q, c)
        THEN [q EXCEPT !.retries[c] = 0, !.throttled = q.throttled \ {c}]
        ELSE [requeue_preserve_timestamps(q, b) EXCEPT
                 !.retries[c] = q.retries[c] + 1,
                 !.throttled  = q.throttled \cup {c}]

defer(q, b) ==
    [requeue_preserve_timestamps(q, [b EXCEPT !.events = b.cancelled \o b.events])
        EXCEPT !.throttled = q.throttled \cup {b.channel}]

requeue_as_cancelled(q, b) ==
    [q EXCEPT !.cancelled[b.channel] = q.cancelled[b.channel] \o b.cancelled \o b.events]

drain_channel(q, c) ==
    [q EXCEPT !.queues[c]    = <<>>,
              !.throttled    = q.throttled \ {c},
              !.retries[c]   = 0,
              !.cancelled[c] = <<>>,
              !.withheld[c]  = <<>>]

\* Mutant: the event stays in the queue while its steer is pending.
mark_native_steer_pending_Copy(q, c, e) ==
    IF e \in Elems(q.queues[c])
    THEN [q EXCEPT !.withheld[c] = Append(q.withheld[c], e)]
    ELSE q

mark_native_steer_pending(q, c, e) ==
    IF e \in Elems(q.queues[c])
    THEN [q EXCEPT !.queues[c]   = Without(q.queues[c], e),
                   !.withheld[c] = Append(q.withheld[c], e)]
    ELSE q

release_native_steer(q, c, e) ==
    IF e \in Elems(q.withheld[c])
    THEN [q EXCEPT !.withheld[c] = Without(q.withheld[c], e),
                   !.queues[c]   = Trim(<<e>> \o q.queues[c])]
    ELSE q

remove_event(q, c, e) ==
    [q EXCEPT !.withheld[c] = Without(q.withheld[c], e),
              !.queues[c]   = Without(q.queues[c], e)]

\* The new deadline is in the future again; a released channel is left alone.
extend_in_flight_deadline(q, c) == [q EXCEPT !.overdue = q.overdue \ {c}]

compact_expired_state(q) ==
    [q EXCEPT !.retries = [c \in Channels |->
        IF c \in q.throttled \/ q.queues[c] # <<>> \/ c \in q.inFlight
        THEN q.retries[c] ELSE 0]]

-----------------------------------------------------------------------------

\* Events the queue holds for channel c.
HeldFor(q, c) == Elems(q.queues[c]) \cup Elems(q.withheld[c]) \cup Elems(q.cancelled[c])

=============================================================================
