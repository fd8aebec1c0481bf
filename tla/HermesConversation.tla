-------------------------- MODULE HermesConversation --------------------------
(***************************************************************************)
(* One external (messenger) conversation of an AirHop center: who answers  *)
(* the parent, Hermes or the staff, and which Hermes turn may send a reply. *)
(*                                                                         *)
(* Every operation of the code locks the conversation row (FOR UPDATE, or   *)
(* FOR SHARE for a lease) until its transaction commits, so each one is one *)
(* action.  What is concurrent is everything between the transactions: the  *)
(* model turn that runs on a leased receipt while the parent writes, staff  *)
(* takes over, the deployment is changed, the lease runs out and is rotated *)
(* to another runtime, and a committed reply that waits to be published.    *)
(* Requests the code rejects, and replays it answers from stored state,     *)
(* change nothing and are not actions.                                      *)
(*                                                                         *)
(* crates/buzz-db/src/airhop: external_conversation.rs, staff_control.rs,   *)
(* agent_runtime.rs, client_threads.rs, channel_gateway.rs, and the two     *)
(* places that bind a family to a conversation.                             *)
(***************************************************************************)
EXTENDS Integers, FiniteSets

CONSTANTS
  ParentEvents,           \* messages of the parent
  StaffEvents,            \* messages of staff members in the client thread
  AdminEvents,            \* the staff messages whose author is owner or admin
  Batches,                \* the sets of events the runtime may form a batch of
  FirstBound,             \* the conversation is registered with a family
  FirstChannel,           \* "legacy": a channel of its own; "thread": a thread
  NoEvent,                \* the source of a turn receipt not yet created
  MaxTurns,               \* bound: turn receipts of the conversation
  MaxParts,               \* events of one reply (3 parent messages + handoff)
  RetryLimit,             \* attempts a turn without reply may have (3)
  MaxPublicationAttempts, \* MAX_HERMES_PUBLICATION_ATTEMPTS (10)
  MaxVersion,             \* bound: conversation.control_version
  MaxConfig,              \* bound: changes of deployment, route and connection
  MaxAttempt              \* bound: attempts of a turn

ASSUME EventsAssumption ==
  /\ ParentEvents \cap StaffEvents = {}
  /\ AdminEvents \subseteq StaffEvents
  /\ Batches \subseteq SUBSET (ParentEvents \cup StaffEvents)
  /\ NoEvent \notin ParentEvents \cup StaffEvents

ASSUME FirstAssumption == FirstBound \in BOOLEAN /\ FirstChannel \in {"legacy", "thread"}

ASSUME BoundsAssumption ==
  /\ MaxTurns \in Nat /\ MaxParts \in Nat \ {0}
  /\ RetryLimit \in Nat /\ MaxPublicationAttempts \in Nat \ {0}
  /\ MaxVersion \in Nat \ {0} /\ MaxAttempt \in Nat \ {0} /\ MaxConfig \in Nat

Events == ParentEvents \cup StaffEvents
Turns  == 1..MaxTurns
Parts  == 1..MaxParts

VARIABLES
  conv,       \* the row of airhop_external_conversations and its newest cycle
  config,     \* the deployment is enabled and not paused (live); the provider
              \* link: status of route and connection, hermes_enabled; and how
              \* often they were changed (their version columns)
  event,      \* events: received_at (0: not received) and channel
  clock,      \* the received_at of the newest event
  receipt,    \* airhop_external_inbound_receipts
  turn,       \* airhop_hermes_turn_receipts
  intent,     \* airhop_hermes_outbound_intents, by turn and sequence
  humanSince  \* history variable: the clock at the last takeover

vars == <<conv, config, event, clock, receipt, turn, intent, humanSince>>

-----------------------------------------------------------------------------
(* Rows.                                                                   *)

Owners   == {"hermes", "human"}
Queues   == {"waiting_staff", "waiting_parent", "resolved"}
Channels == {"legacy", "thread"}
\* How the current cycle ended (ended_reason), "open" before.
Endings  == {"open", "human_takeover", "staff_pause", "hermes_handoff"}
Links    == {"active", "held", "disabled"}
Reasons  == {"none", "hermes_owns_conversation", "hermes_not_available",
             "channel_connection_not_available", "staff_resume", "staff_pause",
             "staff_internal", "staff_control_pending"}

Conversation ==
  [owner : Owners, paused : BOOLEAN, version : Nat, cycle : Nat, ended : Endings,
   queue : Queues, bound : BOOLEAN, channel : Channels]

Receipt == [decision : {"none", "trigger", "suppressed"}, reason : Reasons,
            cycle : Nat, version : Nat]

\* attempt stands for the lease token, which every rotation replaces.  fence
\* and by are history variables: the control version at the last lease, and
\* the attempt whose request completed the turn.  replyVersion is the
\* control_version stored with the intents of the turn.
Turn == [status : {"free", "leased", "completed", "failed", "cancelled"},
         cycle : Nat, batch : Batches \cup {{}}, source : Events \cup {NoEvent},
         bound : BOOLEAN, channel : Channels, attempt : Nat, expired : BOOLEAN,
         error : {"none", "no_reply", "other"},
         fence : Nat, by : Nat, replyVersion : Nat]

Intent == [status : {"none", "committed", "published", "failed"}, attempts : Nat]

NoReceipt == [decision |-> "none", reason |-> "none", cycle |-> 0, version |-> 0]
NoIntent  == [status |-> "none", attempts |-> 0]
FreeTurn  == [status |-> "free", cycle |-> 0, batch |-> {}, source |-> NoEvent,
              bound |-> FALSE, channel |-> "legacy", attempt |-> 0, expired |-> FALSE,
              error |-> "none", fence |-> 0, by |-> 0, replyVersion |-> 0]

TypeOK ==
  /\ conv \in Conversation
  /\ config \in [live : BOOLEAN, link : Links, version : Nat]
  /\ event \in [Events -> [at : Nat, channel : Channels]]
  /\ clock \in Nat
  /\ receipt \in [Events -> Receipt]
  /\ turn \in [Turns -> Turn]
  /\ intent \in [Turns -> [Parts -> Intent]]
  /\ humanSince \in Nat

\* A registered conversation belongs to Hermes, in its first cycle.
Init ==
  /\ conv = [owner |-> "hermes", paused |-> FALSE, version |-> 1, cycle |-> 1,
             ended |-> "open", queue |-> "waiting_staff", bound |-> FirstBound,
             channel |-> FirstChannel]
  /\ config = [live |-> TRUE, link |-> "active", version |-> 0]
  /\ event = [e \in Events |-> [at |-> 0, channel |-> "legacy"]]
  /\ clock = 0
  /\ receipt = [e \in Events |-> NoReceipt]
  /\ turn = [t \in Turns |-> FreeTurn]
  /\ intent = [t \in Turns |-> [p \in Parts |-> NoIntent]]
  /\ humanSince = 0

-----------------------------------------------------------------------------
(* Parts of the transactions.                                              *)

HermesOwns == conv.owner = "hermes" /\ ~conv.paused

HermesAvailable == config.live /\ config.link = "active"

\* The predicate that the batch route, the lease and the classifier share.
CurrentTrigger(e) ==
  /\ receipt[e].decision = "trigger"
  /\ receipt[e].cycle = conv.cycle
  /\ receipt[e].version = conv.version

\* The newest current trigger of a batch whose events lie in the channel.
BatchRoute(b, e) ==
  /\ HermesOwns /\ HermesAvailable
  /\ e \in b /\ CurrentTrigger(e)
  /\ \A f \in b : /\ event[f].at # 0 /\ event[f].channel = conv.channel
                  /\ CurrentTrigger(f) => event[f].at <= event[e].at

Receive(e) ==
  /\ event[e].at = 0
  /\ event' = [event EXCEPT ![e] = [at |-> clock + 1, channel |-> conv.channel]]
  /\ clock' = clock + 1

\* The expiry of a turn that is not leased is never looked at.
Closed(r, status, error) ==
  [r EXCEPT !.status = status, !.error = error, !.expired = FALSE]

cancel_active_turns(ts) ==
  [t \in Turns |-> IF ts[t].status = "leased"
                   THEN Closed(ts[t], "cancelled", "other")
                   ELSE ts[t]]

\* Expired leases of the other turns, when turn self is leased.
FailExpired(ts, self) ==
  [t \in Turns |-> IF t # self /\ ts[t].status = "leased" /\ ts[t].expired
                   THEN Closed(ts[t], "failed", "other")
                   ELSE ts[t]]

\* Mutant: an expired lease still counts as live.
OtherLive_IgnoresExpiry(self) == \E t \in Turns \ {self} : turn[t].status = "leased"

OtherLive(self) ==
  \E t \in Turns \ {self} : turn[t].status = "leased" /\ ~turn[t].expired

\* take_over_conversation: the cycle ends but stays the current one.
TakenOver(c, reason) ==
  [c EXCEPT !.owner = "human", !.paused = TRUE, !.version = @ + 1,
            !.ended = IF @ = "open" THEN reason ELSE @]

\* Mutant: running turns survive the takeover.
take_over_KeepsTurns(reason) ==
  /\ conv.version < MaxVersion
  /\ conv' = TakenOver(conv, reason)
  /\ UNCHANGED turn

take_over(reason) ==
  /\ conv.version < MaxVersion
  /\ conv' = TakenOver(conv, reason)
  /\ turn' = cancel_active_turns(turn)

Resumed(c) ==
  [c EXCEPT !.owner = "hermes", !.paused = FALSE, !.version = @ + 1,
            !.cycle = @ + 1, !.ended = "open"]

ResumeReceipt == [decision |-> "trigger", reason |-> "staff_resume",
                  cycle |-> conv.cycle + 1, version |-> conv.version + 1]

-----------------------------------------------------------------------------
(* Messages: insert_airhop_external_conversation_event.                    *)

\* A message to a resolved conversation reopens it in a new cycle.
record_inbound(c) ==
  LET d == IF c.queue = "resolved"
           THEN [c EXCEPT !.cycle = @ + 1, !.ended = "open", !.version = @ + 1]
           ELSE c
  IN  [d EXCEPT !.queue = "waiting_staff"]

InboundParent(e) ==
  LET c == record_inbound(conv)
      trigger == HermesOwns /\ HermesAvailable
  IN  /\ config.link # "disabled"
      /\ c.version <= MaxVersion
      /\ Receive(e)
      /\ conv' = c
      /\ receipt' = [receipt EXCEPT ![e] =
           [decision |-> IF trigger THEN "trigger" ELSE "suppressed",
            reason   |-> IF trigger THEN "hermes_owns_conversation"
                         ELSE IF config.link # "active" THEN "channel_connection_not_available"
                         ELSE "hermes_not_available",
            cycle    |-> c.cycle, version |-> c.version]]
      /\ UNCHANGED <<config, turn, intent, humanSince>>

\* A staff message without a mention goes to the parent and takes over.
StaffReply(e) ==
  /\ Receive(e)
  /\ take_over("human_takeover")
  /\ humanSince' = clock'
  /\ UNCHANGED <<config, receipt, intent>>

\* "@Hermes pause": parse_hermes_control knows the command.
StaffPause(e) ==
  /\ Receive(e)
  /\ take_over("staff_pause")
  /\ humanSince' = clock'
  /\ UNCHANGED <<config, receipt, intent>>

\* "@Hermes continue": a new cycle, and the command triggers one turn in it.
StaffResume(e) ==
  /\ Receive(e)
  /\ conv.version < MaxVersion
  /\ conv' = Resumed(conv)
  /\ turn' = cancel_active_turns(turn)
  /\ receipt' = [receipt EXCEPT ![e] = ResumeReceipt]
  /\ UNCHANGED <<config, intent, humanSince>>

\* Free text that mentions only Hermes waits for the staff-control classifier.
StaffAsk(e) ==
  /\ Receive(e)
  /\ receipt' = [receipt EXCEPT ![e] =
       [decision |-> "suppressed", reason |-> "staff_control_pending",
        cycle |-> conv.cycle, version |-> conv.version]]
  /\ UNCHANGED <<conv, config, turn, intent, humanSince>>

\* Any other mention makes the message internal.
StaffNote(e) ==
  /\ Receive(e)
  /\ UNCHANGED <<conv, config, receipt, turn, intent, humanSince>>

-----------------------------------------------------------------------------
(* The classifier's decision: resolve_airhop_staff_control_batch.          *)

\* Mutant: the receipt is matched by cycle only; a takeover keeps the cycle.
ControlCandidate_AnyVersion(e) ==
  /\ e \in AdminEvents
  /\ receipt[e].reason = "staff_control_pending"
  /\ receipt[e].cycle = conv.cycle
  /\ event[e].channel = conv.channel
  /\ HermesAvailable
  /\ \A f \in AdminEvents : event[f].at <= event[e].at

ControlCandidate(e) ==
  /\ e \in AdminEvents
  /\ receipt[e].reason = "staff_control_pending"
  /\ receipt[e].cycle = conv.cycle
  /\ receipt[e].version = conv.version
  /\ event[e].channel = conv.channel
  /\ HermesAvailable
  /\ \A f \in AdminEvents : event[f].at <= event[e].at

\* Parent messages that arrived after the command in the old ownership
\* version are fenced into the new cycle.
Refenced(e, p) ==
  /\ p \in ParentEvents
  /\ receipt[p].reason \in {"hermes_not_available", "hermes_owns_conversation"}
  /\ receipt[p].cycle = conv.cycle /\ receipt[p].version = conv.version
  /\ event[p].at > event[e].at /\ event[p].channel = conv.channel

ResolveResume(e) ==
  /\ ControlCandidate(e)
  /\ conv.version < MaxVersion
  /\ conv' = Resumed(conv)
  /\ turn' = cancel_active_turns(turn)
  /\ receipt' = [f \in Events |->
       IF f = e THEN ResumeReceipt
       ELSE IF Refenced(e, f)
            THEN [ResumeReceipt EXCEPT !.reason = "hermes_owns_conversation"]
            ELSE receipt[f]]
  /\ UNCHANGED <<config, event, clock, intent, humanSince>>

ResolvePause(e) ==
  /\ ControlCandidate(e)
  /\ take_over("staff_pause")
  /\ humanSince' = clock
  /\ receipt' = [receipt EXCEPT ![e].reason = "staff_pause"]
  /\ UNCHANGED <<config, event, clock, intent>>

ResolveOther(e) ==
  /\ ControlCandidate(e)
  /\ receipt' = [receipt EXCEPT ![e].reason = "staff_internal"]
  /\ UNCHANGED <<conv, config, event, clock, turn, intent, humanSince>>

-----------------------------------------------------------------------------
(* Commands of the staff, and configuration.                               *)

\* Mutant: the version is raised but running turns are not cancelled.
SetStatus_KeepsTurns(q) ==
  /\ conv.version < MaxVersion
  /\ conv' = [conv EXCEPT !.queue = q, !.version = @ + 1]
  /\ UNCHANGED <<config, event, clock, receipt, turn, intent, humanSince>>

SetStatus(q) ==
  /\ conv.version < MaxVersion
  /\ conv' = [conv EXCEPT !.queue = q, !.version = @ + 1]
  /\ turn' = cancel_active_turns(turn)
  /\ UNCHANGED <<config, event, clock, receipt, intent, humanSince>>

\* By staff, or by a live turn that quotes the parent's choice.
AssignBranch ==
  /\ conv' = [conv EXCEPT !.queue = "waiting_staff"]
  /\ UNCHANGED <<config, event, clock, receipt, turn, intent, humanSince>>

\* Mutant: unpublished replies do not block the migration.
MigrateLegacy_LeavesReplies ==
  /\ conv.channel = "legacy" /\ clock # 0
  /\ \A t \in Turns : ~(turn[t].status = "leased" /\ ~turn[t].expired)
  /\ conv.version < MaxVersion
  /\ conv' = [conv EXCEPT !.channel = "thread", !.version = @ + 1]
  /\ turn' = cancel_active_turns(turn)
  /\ UNCHANGED <<config, event, clock, receipt, intent, humanSince>>

\* Nothing unsent may be left behind in the archived channel.
MigrateLegacy ==
  /\ conv.channel = "legacy" /\ clock # 0
  /\ \A t \in Turns : ~(turn[t].status = "leased" /\ ~turn[t].expired)
  /\ \A t \in Turns, p \in Parts : intent[t][p].status # "committed"
  /\ conv.version < MaxVersion
  /\ conv' = [conv EXCEPT !.channel = "thread", !.version = @ + 1]
  /\ turn' = cancel_active_turns(turn)
  /\ UNCHANGED <<config, event, clock, receipt, intent, humanSince>>

\* A website booking proves who the parent is.
BindByHandoff ==
  /\ ~conv.bound /\ config.link # "disabled"
  /\ conv.version < MaxVersion
  /\ conv' = [conv EXCEPT !.bound = TRUE, !.version = @ + 1]
  /\ turn' = cancel_active_turns(turn)
  /\ UNCHANGED <<config, event, clock, receipt, intent, humanSince>>

\* A booking made by the turn itself binds the new family; the turn goes on.
BindByBooking(t) ==
  /\ HermesOwns /\ HermesAvailable /\ ~conv.bound
  /\ turn[t].status = "leased" /\ ~turn[t].expired
  /\ turn[t].cycle = conv.cycle /\ turn[t].source \in ParentEvents
  /\ ~turn[t].bound
  /\ conv' = [conv EXCEPT !.bound = TRUE]
  /\ UNCHANGED <<config, event, clock, receipt, turn, intent, humanSince>>

\* Any change of the deployment cancels the turns that run under it.
PutDeployment(live) ==
  /\ config.version < MaxConfig
  /\ config' = [config EXCEPT !.live = live, !.version = @ + 1]
  /\ turn' = cancel_active_turns(turn)
  /\ UNCHANGED <<conv, event, clock, receipt, intent, humanSince>>

PutLink(l) ==
  /\ config.version < MaxConfig
  /\ config' = [config EXCEPT !.link = l, !.version = @ + 1]
  /\ UNCHANGED <<conv, event, clock, receipt, turn, intent, humanSince>>

-----------------------------------------------------------------------------
(* Hermes turns.                                                           *)

\* A completed turn of this cycle already covers the source.
Answered(e) ==
  \E t \in Turns : /\ turn[t].status = "completed" /\ turn[t].cycle = conv.cycle
                   /\ event[turn[t].source].at >= event[e].at

\* The turn receipt inserted for batch b with source e.
NewTurn(b, e) ==
  [FreeTurn EXCEPT !.status = "leased", !.cycle = conv.cycle, !.batch = b, !.source = e,
                   !.bound = conv.bound, !.channel = conv.channel,
                   !.attempt = 1, !.fence = conv.version]

\* The next receipt is t, and (cycle, batch) has none yet.
NewBatch(t, b) ==
  /\ turn[t].status = "free"
  /\ \A u \in Turns : /\ turn[u].status = "free" => t <= u
                      /\ ~(turn[u].status # "free" /\ turn[u].cycle = conv.cycle
                           /\ turn[u].batch = b)

\* Mutant: the source is some current trigger of the batch, not the newest.
LeaseNew_AnyTrigger(t, b, e) ==
  /\ HermesOwns /\ HermesAvailable /\ e \in b /\ CurrentTrigger(e)
  /\ \A f \in b : event[f].at # 0 /\ event[f].channel = conv.channel
  /\ NewBatch(t, b) /\ ~Answered(e) /\ ~OtherLive(t)
  /\ turn' = [FailExpired(turn, t) EXCEPT ![t] = NewTurn(b, e)]
  /\ UNCHANGED <<conv, config, event, clock, receipt, intent, humanSince>>

LeaseNew(t, b, e) ==
  /\ BatchRoute(b, e)
  /\ NewBatch(t, b) /\ ~Answered(e) /\ ~OtherLive(t)
  /\ turn' = [FailExpired(turn, t) EXCEPT ![t] = NewTurn(b, e)]
  /\ UNCHANGED <<conv, config, event, clock, receipt, intent, humanSince>>

Recoverable(t) ==
  turn[t].status = "failed" /\ turn[t].error = "no_reply" /\ turn[t].attempt < RetryLimit

\* The receipt under its next token.
Rotated(r) ==
  [r EXCEPT !.status = "leased", !.error = "none", !.expired = FALSE,
            !.attempt = r.attempt + 1, !.fence = conv.version]

\* Mutant: a live lease of another batch is not looked for.
LeaseAgain_IgnoresOthers(t) ==
  /\ BatchRoute(turn[t].batch, turn[t].source)
  /\ turn[t].cycle = conv.cycle /\ turn[t].bound = conv.bound
  /\ (turn[t].status = "leased" /\ turn[t].expired) \/ Recoverable(t)
  /\ turn[t].attempt < MaxAttempt
  /\ turn' = [FailExpired(turn, t) EXCEPT ![t] = Rotated(turn[t])]
  /\ UNCHANGED <<conv, config, event, clock, receipt, intent, humanSince>>

\* The same batch again: an expired lease, or a turn that ended without a
\* reply, is leased under a new token.
LeaseAgain(t) ==
  /\ BatchRoute(turn[t].batch, turn[t].source)
  /\ turn[t].cycle = conv.cycle /\ turn[t].bound = conv.bound
  /\ (turn[t].status = "leased" /\ turn[t].expired) \/ Recoverable(t)
  /\ ~OtherLive(t)
  /\ turn[t].attempt < MaxAttempt
  /\ turn' = [FailExpired(turn, t) EXCEPT ![t] = Rotated(turn[t])]
  /\ UNCHANGED <<conv, config, event, clock, receipt, intent, humanSince>>

\* now() reaches lease_expires_at; the runtime may still be working.
LeaseExpires(t) ==
  /\ turn[t].status = "leased" /\ ~turn[t].expired
  /\ turn' = [turn EXCEPT ![t] = [@ EXCEPT !.expired = TRUE]]
  /\ UNCHANGED <<conv, config, event, clock, receipt, intent, humanSince>>

\* Mutant: any token the turn ever had is accepted.
OwnLease_AnyToken(t, k) ==
  k <= turn[t].attempt /\ turn[t].status = "leased" /\ ~turn[t].expired

\* A request of the runtime that holds the lease of attempt k.
OwnLease(t, k) ==
  turn[t].attempt = k /\ turn[t].status = "leased" /\ ~turn[t].expired

\* The receipt after the request of attempt k that ends the turn.
Finished(r, status, error, k) ==
  [r EXCEPT !.status = status, !.error = error, !.by = k]

Replied(r, k) ==
  [r EXCEPT !.status = "completed", !.error = "none", !.by = k,
            !.replyVersion = conv.version]

\* commit_airhop_hermes_reply: n signed events, the last one a handoff or not.
CommitReply(t, k, n, handoff) ==
  /\ OwnLease(t, k)
  /\ turn[t].cycle = conv.cycle /\ turn[t].channel = conv.channel
  /\ HermesOwns /\ HermesAvailable
  /\ handoff => conv.version < MaxVersion
  /\ intent' = [intent EXCEPT ![t] =
       [p \in Parts |-> IF p <= n THEN [status |-> "committed", attempts |-> 0] ELSE @[p]]]
  /\ LET done == [turn EXCEPT ![t] = Replied(turn[t], k)]
     IN  turn' = IF handoff THEN cancel_active_turns(done) ELSE done
  /\ conv' = IF handoff THEN TakenOver(conv, "hermes_handoff") ELSE conv
  /\ humanSince' = IF handoff THEN clock ELSE humanSince
  /\ UNCHANGED <<config, event, clock, receipt>>

\* Whether every parent message before the resume has a delivered answer is
\* decided by the outbox; without an earlier message there is nothing to answer.
ResumeHasNoPendingParent(t, delivered) ==
  /\ receipt[turn[t].source].reason = "staff_resume"
  /\ \/ delivered
     \/ \A p \in ParentEvents : \/ event[p].at = 0
                                \/ event[p].at > event[turn[t].source].at
                                \/ event[p].channel # event[turn[t].source].channel

\* Mutant: the completion is written without looking at the stored status.
FinishTurn_Rewrites(t, k, how, delivered) ==
  /\ turn[t].attempt = k /\ turn[t].status # "free" /\ ~turn[t].expired
  /\ turn' = [turn EXCEPT ![t] =
       Finished(turn[t], IF how = "no_reply" THEN "failed" ELSE how,
                IF how = "completed" THEN "none" ELSE "other", k)]
  /\ UNCHANGED <<conv, config, event, clock, receipt, intent, humanSince>>

\* finish_airhop_parent_agent_turn: how is "completed", "no_reply" (failed with
\* runtime_finished_without_reply), "failed" or "cancelled".
FinishTurn(t, k, how, delivered) ==
  LET silent == how = "no_reply" /\ ResumeHasNoPendingParent(t, delivered)
      status == IF silent THEN "completed" ELSE IF how = "no_reply" THEN "failed" ELSE how
      error  == IF status = "completed" THEN "none"
                ELSE IF how = "no_reply" THEN "no_reply" ELSE "other"
  IN  /\ OwnLease(t, k)
      /\ turn' = [turn EXCEPT ![t] = Finished(turn[t], status, error, k)]
      /\ UNCHANGED <<conv, config, event, clock, receipt, intent, humanSince>>

-----------------------------------------------------------------------------
(* Publication of committed replies, by commit_reply or by recovery.       *)

PublishIntent(t, p) ==
  /\ intent[t][p].status = "committed"
  /\ intent' = [intent EXCEPT ![t][p].status = "published"]
  /\ UNCHANGED <<conv, config, event, clock, receipt, turn, humanSince>>

\* Mutant: the attempts start again when the limit is reached.
PublicationFails_Restarts(t, p) ==
  /\ intent[t][p].status = "committed"
  /\ intent' = [intent EXCEPT
       ![t][p].attempts = IF @ + 1 >= MaxPublicationAttempts THEN 0 ELSE @ + 1]
  /\ UNCHANGED <<conv, config, event, clock, receipt, turn, humanSince>>

PublicationFails(t, p) ==
  /\ intent[t][p].status = "committed"
  /\ intent' = [intent EXCEPT
       ![t][p] = [status   |-> IF @.attempts + 1 >= MaxPublicationAttempts
                               THEN "failed" ELSE "committed",
                  attempts |-> @.attempts + 1]]
  /\ UNCHANGED <<conv, config, event, clock, receipt, turn, humanSince>>

-----------------------------------------------------------------------------
Message ==
  \/ \E e \in ParentEvents : InboundParent(e)
  \/ \E e \in StaffEvents  : \/ StaffReply(e) \/ StaffPause(e) \/ StaffResume(e)
                            \/ StaffAsk(e) \/ StaffNote(e)
                            \/ ResolveResume(e) \/ ResolvePause(e) \/ ResolveOther(e)

Command ==
  \/ \E q \in Queues : SetStatus(q)
  \/ AssignBranch
  \/ MigrateLegacy
  \/ BindByHandoff
  \/ \E live \in BOOLEAN : PutDeployment(live)
  \/ \E l \in Links : PutLink(l)

Runtime ==
  \E t \in Turns :
    \/ \E b \in Batches, e \in Events : LeaseNew(t, b, e)
    \/ LeaseAgain(t)
    \/ LeaseExpires(t)
    \/ BindByBooking(t)
    \/ \E k \in 1..MaxAttempt :
         \/ \E n \in Parts, handoff \in BOOLEAN : CommitReply(t, k, n, handoff)
         \/ \E how \in {"completed", "no_reply", "failed", "cancelled"},
               delivered \in BOOLEAN : FinishTurn(t, k, how, delivered)

Publication ==
  \E t \in Turns, p \in Parts : PublishIntent(t, p) \/ PublicationFails(t, p)

Next == Message \/ Command \/ Runtime \/ Publication

Spec == Init /\ [][Next]_vars

-----------------------------------------------------------------------------
(* Properties.                                                             *)

\* SingleLease: at most one turn of the conversation is leased, however
\* batches, retries and expired leases overlap.
SingleLease ==
  \A t, u \in Turns : turn[t].status = "leased" /\ turn[u].status = "leased" => t = u

\* LeaseFence: a leased turn of the current cycle was leased under the present
\* control version, Hermes still owns the conversation, and the turn's source is
\* still a current trigger.  commit_airhop_hermes_reply compares neither
\* versions nor receipts: this is why it need not.
LeaseFence ==
  \A t \in Turns :
    turn[t].status = "leased" /\ turn[t].cycle = conv.cycle =>
      /\ HermesOwns
      /\ turn[t].fence = conv.version
      /\ turn[t].channel = conv.channel
      /\ CurrentTrigger(turn[t].source)

\* ReplyFence: the control version stored with a reply is the one its lease was
\* granted under, and the reply came from the newest lease of the turn.
ReplyFence ==
  \A t \in Turns :
    turn[t].replyVersion # 0 =>
      /\ turn[t].status = "completed"
      /\ turn[t].replyVersion = turn[t].fence
      /\ turn[t].by = turn[t].attempt

\* RetryKeepsSource: when the runtime claims a batch again in the same cycle, the
\* route picks the source of the turn receipt the batch already has, so
\* require_same_turn_scope never refuses the retry because of the source.
RetryKeepsSource ==
  \A t \in Turns, e \in Events :
    /\ turn[t].status # "free" /\ turn[t].cycle = conv.cycle
    /\ BatchRoute(turn[t].batch, e)
    => turn[t].source = e

\* HermesOwnsOpenCycle: Hermes owns a conversation only inside an open cycle, and
\* is paused exactly while a human owns it.
HermesOwnsOpenCycle ==
  /\ conv.owner = "hermes" => conv.ended = "open"
  /\ conv.paused = (conv.owner = "human")

\* NothingLeftBehind: a committed part not yet published was signed for the channel
\* the conversation is in.  The archived channel is read-only, so a part left
\* behind by the migration could never be published.
NothingLeftBehind ==
  \A t \in Turns, p \in Parts :
    intent[t][p].status = "committed" => turn[t].channel = conv.channel

\* ReplyFinal: a turn that has replied is never changed again, and none of its
\* intents is dropped or sent back: no late finish, retry, cancellation or
\* takeover rewrites a committed reply.
ReplyFinal ==
  [][\A t \in Turns :
       turn[t].replyVersion # 0 =>
         /\ turn'[t] = turn[t]
         /\ \A p \in Parts : intent[t][p].status \in {"none", "published", "failed"}
                            => intent'[t][p] = intent[t][p]]_vars

\* ResumeNewerThanTakeover: a conversation in human hands goes back to Hermes only
\* on a staff command received after the takeover, however late the classifier
\* decides on the commands it is shown.
ResumeNewerThanTakeover ==
  [][conv.owner = "human" /\ conv'.owner = "hermes" =>
       \E e \in StaffEvents : /\ event'[e].at > humanSince
                              /\ receipt'[e].reason = "staff_resume"
                              /\ receipt'[e].version = conv'.version]_vars

\* ImplementsLedger: with the leased turn as the grant, the conversation
\* implements the abstract ledger of replies.
Ledger ==
  INSTANCE ReplyLedger WITH
    Ids <- Turns, owner <- conv.owner, version <- conv.version,
    grants <- {<<t, turn[t].fence>> : t \in {u \in Turns : turn[u].status = "leased"}},
    replies <- [t \in Turns |-> turn[t].replyVersion]

ImplementsLedger == Ledger!Spec

-----------------------------------------------------------------------------
(* The inductive invariant behind the safety properties.                   *)

\* Nothing stored is ahead of the conversation row.
StoredNotAhead ==
  /\ conv.version >= 1
  /\ \A e \in Events : receipt[e].version <= conv.version /\ receipt[e].cycle <= conv.cycle
  /\ \A t \in Turns  : turn[t].fence <= conv.version /\ turn[t].cycle <= conv.cycle

\* received_at orders the received events, and only they have receipts.
ReceivedOrder ==
  /\ \A e \in Events : event[e].at <= clock
  /\ \A e \in Events : receipt[e] # NoReceipt => event[e].at # 0
  /\ \A e, f \in Events : event[e].at # 0 /\ event[e].at = event[f].at => e = f

\* A turn of the current cycle has the newest trigger of its batch as source,
\* as of the version it was last leased under, and its batch got no receipt since.
TurnScope ==
  \A t \in Turns :
    turn[t].status # "free" /\ turn[t].cycle = conv.cycle =>
      LET s == turn[t].source IN
      /\ s \in turn[t].batch /\ event[s].channel = turn[t].channel
      /\ receipt[s].decision = "trigger" /\ receipt[s].cycle = conv.cycle
      /\ receipt[s].version = turn[t].fence
      /\ \A f \in turn[t].batch :
           /\ event[f].at # 0
           /\ receipt[f].version <= turn[t].fence
           /\ receipt[f].decision = "trigger" /\ receipt[f].cycle = conv.cycle
              /\ receipt[f].version = turn[t].fence
              => event[f].at <= event[s].at

IInv ==
  /\ TypeOK /\ StoredNotAhead /\ ReceivedOrder /\ TurnScope
  /\ SingleLease /\ LeaseFence /\ ReplyFence /\ HermesOwnsOpenCycle

-----------------------------------------------------------------------------
(* Liveness.                                                               *)

\* Time passes; the recovery loop retries committed intents; the runtime
\* claims the batch of a single parent message until it is decided.
Fairness ==
  /\ \A t \in Turns : WF_vars(LeaseExpires(t))
  /\ \A t \in Turns, p \in Parts : WF_vars(PublishIntent(t, p) \/ PublicationFails(t, p))
  /\ \A e \in ParentEvents : WF_vars(\E t \in Turns : LeaseNew(t, {e}, e))

FairSpec == Spec /\ Fairness

\* CommittedSettles: a committed part of a reply is published or marked failed,
\* whoever owns the conversation by then.
CommittedSettles ==
  \A t \in Turns, p \in Parts :
    intent[t][p].status = "committed" ~> intent[t][p].status \in {"published", "failed"}

\* TriggerIsServed: a parent message that triggers Hermes is not blocked for ever
\* by the lease of a runtime that died: it is taken up by a turn, covered by a
\* later answer, or no longer Hermes' to answer.
TriggerIsServed ==
  \A e \in ParentEvents :
    CurrentTrigger(e) ~>
      \/ ~(CurrentTrigger(e) /\ HermesOwns /\ HermesAvailable)
      \/ Answered(e)
      \/ \E t \in Turns : turn[t].status # "free" /\ turn[t].batch = {e}
      \/ \A t \in Turns : turn[t].status # "free"

-----------------------------------------------------------------------------
(* What the repository's documents say and the code does not do.           *)

\* AnsweredInputNotReplayed: "A reconnect cannot replay completed input under a
\* new batch ID": no new turn is created for a source that a turn has answered.
AnsweredInputNotReplayed ==
  [][\A t, u \in Turns :
       /\ turn[t].status = "free" /\ turn'[t].status = "leased"
       /\ turn[u].replyVersion # 0
       => turn[u].source # turn'[t].source]_vars
=============================================================================
