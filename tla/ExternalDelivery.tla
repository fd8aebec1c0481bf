--------------------------- MODULE ExternalDelivery ---------------------------
(***************************************************************************)
(* The outbox of one external conversation: how a message of the staff or  *)
(* of Hermes is queued for the parent's messenger, leased to the connector  *)
(* of the provider, retried, accepted, delivered or given up, and what that *)
(* does to the conversation's queue and owner.                              *)
(*                                                                         *)
(* A transaction's now() is the time of its BEGIN, and the row locks decide *)
(* the order in which transactions take effect, so the insertion of a       *)
(* message has separate steps for both.  Enqueueing a message reads route   *)
(* and connection without locking them, and a rebind looks for leases       *)
(* before it writes: these two have a step for the read and one for the     *)
(* write.  Every other transaction is one action.  Rejected requests, and   *)
(* replays answered from airhop_external_message_delivery_attempts, change  *)
(* nothing and are not actions.                                             *)
(*                                                                         *)
(* crates/buzz-db/src/airhop: channel_gateway.rs, channel_gateway/          *)
(* whatsapp.rs, external_conversation.rs, client_threads.rs.                *)
(***************************************************************************)
EXTENDS Integers

CONSTANTS
  Messages,       \* messages to the parent
  StaffMessages,  \* those written by the staff (actor_kind 'staff')
  ParentMessages, \* messages of the parent
  Connections,    \* airhop_channel_connections
  WhatsApp,       \* those of provider 'whatsapp_cloud'
  Connectors,     \* connector_pubkey values
  FirstRoute,     \* the connection the conversation came in by
  FirstConnector, \* its connector
  MaxAttempts,    \* MAX_EXTERNAL_DELIVERY_ATTEMPTS (5)
  MaxConfig,      \* bound: changes of route and connections
  MaxCommands     \* bound: commands of the staff

ASSUME MessagesAssumption == StaffMessages \subseteq Messages

ASSUME RoutesAssumption ==
  WhatsApp \subseteq Connections /\ FirstRoute \in Connections /\ FirstConnector \in Connectors

ASSUME BoundsAssumption ==
  MaxAttempts \in Nat \ {0} /\ MaxConfig \in Nat /\ MaxCommands \in Nat

VARIABLES
  conv,       \* the row of airhop_external_conversations
  route,      \* the row of airhop_external_conversation_routes
  rebind,     \* the new connection of a rebind that found no lease, {} if none
  connection, \* airhop_channel_connections
  out,        \* airhop_external_message_outbox
  outcome,    \* airhop_external_message_delivery_attempts, by message and token
  receipts,   \* airhop_whatsapp_delivery_receipts, by message
  parent,     \* the transactions that insert the parent's messages
  clock,      \* the newest now() taken
  used        \* how many of MaxConfig and MaxCommands are used up

vars == <<conv, route, rebind, connection, out, outcome, receipts, parent, clock, used>>

-----------------------------------------------------------------------------
(* Rows.                                                                   *)

Owners   == {"hermes", "human"}
Queues   == {"waiting_staff", "waiting_parent", "resolved"}
States   == {"active", "paused", "disabled"}
Tokens   == 1..MaxAttempts
Outcomes == {"none", "accepted", "delivered", "retry", "failed"}
Provider == {"none", "accepted", "sent", "delivered", "read", "failed"}
Evidence == {"sent", "delivered", "read", "failed"}

\* setBy is a history variable: who set the queue last.
Conversation ==
  [owner : Owners, queue : Queues, setBy : {"staff", "system"}, updated : Nat, lastInbound : Nat]

\* "begun" and "reading" are transactions that have not inserted the row yet;
\* attempts stands for the lease token, which every claim replaces; expired
\* says that now() passed lease_expires_at, or accepted_at by 25 hours; insert is
\* the status the reading transaction will insert.
Row ==
  [status : {"none", "begun", "reading", "pending", "leased", "accepted",
             "delivered", "failed", "superseded"},
   insert : {"pending", "superseded"}, connection : Connections, version : Nat,
   created : Nat, attempts : 0..MaxAttempts, by : Connectors, expired : BOOLEAN,
   provider : Provider]

TypeOK ==
  /\ conv \in Conversation
  /\ route \in [connection : Connections, version : Nat, status : States]
  /\ rebind \in {{}} \cup {{c} : c \in Connections}
  /\ connection \in [Connections -> [status : States, connector : Connectors]]
  /\ out \in [Messages -> Row]
  /\ outcome \in [Messages -> [Tokens -> Outcomes]]
  /\ receipts \in [Messages -> SUBSET Evidence]
  /\ parent \in [ParentMessages -> [step : {"none", "begun", "done"}, at : Nat]]
  /\ clock \in Nat
  /\ used \in [config : Nat, commands : Nat]

NoRow == [status |-> "none", insert |-> "pending", connection |-> FirstRoute, version |-> 0,
          created |-> 0, attempts |-> 0, by |-> FirstConnector, expired |-> FALSE,
          provider |-> "none"]

Init ==
  /\ conv = [owner |-> "hermes", queue |-> "waiting_staff", setBy |-> "system",
             updated |-> 0, lastInbound |-> 0]
  /\ route = [connection |-> FirstRoute, version |-> 1, status |-> "active"]
  /\ rebind = {}
  /\ connection = [c \in Connections |-> [status |-> "active", connector |-> FirstConnector]]
  /\ out = [m \in Messages |-> NoRow]
  /\ outcome = [m \in Messages |-> [a \in Tokens |-> "none"]]
  /\ receipts = [m \in Messages |-> {}]
  /\ parent = [p \in ParentMessages |-> [step |-> "none", at |-> 0]]
  /\ clock = 0
  /\ used = [config |-> 0, commands |-> 0]

-----------------------------------------------------------------------------
(* Parts of the transactions.                                              *)

Stored(o, m) == o[m].status \notin {"none", "begun", "reading"}

\* No transaction that inserts a message holds the conversation row.
ConversationFree == \A m \in Messages : out[m].status # "reading"

ConnectorOf(m) == connection[out[m].connection].connector

\* Mutant: neither the last change nor the newest inbound is compared.
Delivered_IgnoresInbound(c, m) ==
  IF c.queue = "waiting_staff" /\ (m \in StaffMessages \/ c.owner = "hermes")
  THEN [c EXCEPT !.queue = "waiting_parent", !.setBy = "system", !.updated = clock + 1]
  ELSE c

\* A delivered message hands the conversation to the parent, unless staff or
\* parent did something after it was written.
Delivered(c, m) ==
  IF /\ c.queue = "waiting_staff" /\ c.updated <= out[m].created
     /\ m \in StaffMessages \/ c.owner = "hermes"
     /\ c.lastInbound <= out[m].created
  THEN [c EXCEPT !.queue = "waiting_parent", !.setBy = "system", !.updated = clock + 1]
  ELSE c

\* handoff_failed_delivery, for a message that is 'failed' in o.
handoff_failed_delivery(c, o, m) ==
  IF /\ o[m].connection \in WhatsApp /\ c.queue # "resolved"
     /\ c.lastInbound <= o[m].created
     /\ \A n \in Messages : Stored(o, n) => o[n].created <= o[m].created
  THEN [c EXCEPT !.owner = "human", !.queue = "waiting_staff", !.setBy = "system",
                 !.updated = clock + 1]
  ELSE c

\* The conversation row is written: its lock is free and now() was taken.
Write(c) ==
  /\ c # conv => ConversationFree
  /\ conv' = c
  /\ clock' = IF c = conv THEN clock ELSE clock + 1

Superseded(dropped) ==
  [m \in Messages |-> IF m \in dropped /\ out[m].status = "pending"
                      THEN [out[m] EXCEPT !.status = "superseded"] ELSE out[m]]

-----------------------------------------------------------------------------
(* Messages: insert_airhop_external_conversation_event.                    *)

\* BEGIN of the transaction: the row's created_at.
BeginMessage(m) ==
  /\ out[m].status = "none"
  /\ out' = [out EXCEPT ![m] = [@ EXCEPT !.status = "begun", !.created = clock + 1]]
  /\ clock' = clock + 1
  /\ UNCHANGED <<conv, route, rebind, connection, outcome, receipts, parent, used>>

\* enqueue_external_message reads the route, with the conversation row locked.
ReadRoute(m) ==
  LET disabled == "disabled" \in {route.status, connection[route.connection].status}
  IN  /\ out[m].status = "begun" /\ ConversationFree
      /\ out' = [out EXCEPT ![m] =
           [@ EXCEPT !.status = "reading", !.connection = route.connection,
                     !.version = route.version,
                     !.insert = IF disabled THEN "superseded" ELSE "pending"]]
      /\ UNCHANGED <<conv, route, rebind, connection, outcome, receipts, parent, clock, used>>

\* The row is inserted; a message of the staff has taken over the conversation.
Enqueue(m) ==
  /\ out[m].status = "reading"
  /\ out' = [out EXCEPT ![m] = [@ EXCEPT !.status = out[m].insert]]
  /\ conv' = IF m \in StaffMessages
             THEN [conv EXCEPT !.owner = "human", !.updated = out[m].created] ELSE conv
  /\ UNCHANGED <<route, rebind, connection, outcome, receipts, parent, clock, used>>

BeginParent(p) ==
  /\ parent[p].step = "none"
  /\ parent' = [parent EXCEPT ![p] = [step |-> "begun", at |-> clock + 1]]
  /\ clock' = clock + 1
  /\ UNCHANGED <<conv, route, rebind, connection, out, outcome, receipts, used>>

record_inbound(p) ==
  /\ parent[p].step = "begun" /\ ConversationFree
  /\ route.status # "disabled" /\ connection[route.connection].status # "disabled"
  /\ parent' = [parent EXCEPT ![p] = [@ EXCEPT !.step = "done"]]
  /\ conv' = [conv EXCEPT !.queue = "waiting_staff", !.setBy = "system",
                          !.lastInbound = parent[p].at, !.updated = parent[p].at]
  /\ UNCHANGED <<route, rebind, connection, out, outcome, receipts, clock, used>>

-----------------------------------------------------------------------------
(* Commands and configuration.                                             *)

Command ==
  /\ used.commands < MaxCommands /\ ConversationFree
  /\ used' = [used EXCEPT !.commands = @ + 1]
  /\ clock' = clock + 1
  /\ UNCHANGED <<route, rebind, connection, out, outcome, receipts, parent>>

\* Pause or resume of Hermes; with the present owner, the assignment to a person.
SetOwner(o) ==
  /\ Command
  /\ conv' = [conv EXCEPT !.owner = o, !.updated = clock + 1]

\* By the staff; a branch assignment sets "waiting_staff".
SetStatus(q) ==
  /\ Command
  /\ conv' = [conv EXCEPT !.queue = q, !.setBy = "staff", !.updated = clock + 1]

Configure ==
  /\ used.config < MaxConfig
  /\ used' = [used EXCEPT !.config = @ + 1]
  /\ UNCHANGED <<conv, outcome, receipts, parent, clock>>

\* put_airhop_channel_connection.
PutConnection(c, s, k) ==
  /\ Configure
  /\ connection' = [connection EXCEPT ![c] = [status |-> s, connector |-> k]]
  /\ out' = IF connection[c].status # "disabled" /\ s = "disabled"
            THEN Superseded({m \in Messages : out[m].connection = c}) ELSE out
  /\ UNCHANGED <<route, rebind>>

\* put_airhop_external_conversation_route with the same identity.  The route row
\* is locked, so it waits for a rebind.
PutRouteStatus(s) ==
  /\ Configure /\ rebind = {}
  /\ connection[route.connection].status # "disabled"
  /\ route' = [route EXCEPT !.status = s]
  /\ out' = IF route.status # "disabled" /\ s = "disabled"
            THEN Superseded(Messages) ELSE out
  /\ UNCHANGED <<rebind, connection>>

\* The same with a new connection or chat: locks the route, looks for leases ...
CheckRebind(c) ==
  /\ Configure /\ rebind = {}
  /\ connection[c].status # "disabled"
  /\ \A m \in Messages : out[m].status # "leased"
  /\ rebind' = {c}
  /\ UNCHANGED <<route, connection, out>>

\* ... and writes the new route under the next routing version.
Rebind(c, s) ==
  /\ c \in rebind
  /\ route' = [connection |-> c, version |-> route.version + 1, status |-> s]
  /\ out' = Superseded(Messages)
  /\ rebind' = {}
  /\ UNCHANGED <<conv, connection, outcome, receipts, parent, clock, used>>

-----------------------------------------------------------------------------
(* The connector: claim_airhop_external_messages and                       *)
(* complete_airhop_external_message.                                       *)

\* Mutant: only messages of an active connection are given up.
Unconfirmed_ActiveOnly(k, scope, m) ==
  /\ out[m].status = "accepted" /\ out[m].expired
  /\ out[m].connection \in WhatsApp \cap scope /\ ConnectorOf(m) = k
  /\ connection[out[m].connection].status = "active"

\* An acceptance that no receipt confirmed within 25 hours.
Unconfirmed(k, scope, m) ==
  /\ out[m].status = "accepted" /\ out[m].expired
  /\ out[m].connection \in WhatsApp \cap scope /\ ConnectorOf(m) = k

Exhausted(k, scope, m) ==
  /\ out[m].status = "leased" /\ out[m].expired /\ out[m].attempts >= MaxAttempts
  /\ out[m].connection \in scope /\ ConnectorOf(m) = k

Claimable(k, scope, m) ==
  /\ out[m].status = "pending" \/ (out[m].status = "leased" /\ out[m].expired)
  /\ out[m].attempts < MaxAttempts
  /\ out[m].connection = route.connection /\ out[m].version = route.version
  /\ connection[route.connection] = [status |-> "active", connector |-> k]
  /\ route.status = "active" /\ route.connection \in scope

\* The row after its lease; the expiry of other rows is never looked at.
Ends(r, status, provider) ==
  [r EXCEPT !.status = status, !.provider = provider, !.expired = FALSE]

Leased(r, k) == [r EXCEPT !.status = "leased", !.attempts = @ + 1, !.by = k, !.expired = FALSE]

\* The messages of jobs are due, within the limit, and not skipped as locked.
Claim(k, scope, jobs) ==
  LET o == [m \in Messages |->
              IF Unconfirmed(k, scope, m) THEN Ends(out[m], "failed", "failed")
              ELSE IF Exhausted(k, scope, m) THEN Ends(out[m], "failed", out[m].provider)
              ELSE IF m \in jobs THEN Leased(out[m], k)
              ELSE out[m]]
      \* Only the newest message can hand off, so the order does not matter.
      handedOff == {m \in Messages : Unconfirmed(k, scope, m)
                                     /\ handoff_failed_delivery(conv, o, m) # conv}
  IN  /\ \A m \in jobs : Claimable(k, scope, m)
      /\ out' = o
      /\ \/ handedOff = {} /\ Write(conv)
         \/ \E m \in handedOff : Write(handoff_failed_delivery(conv, o, m))
      /\ UNCHANGED <<route, rebind, connection, outcome, receipts, parent, used>>

\* The lease, or the 25 hours after an acceptance, run out.
TimePasses(m) ==
  /\ out[m].status \in {"leased", "accepted"} /\ ~out[m].expired
  /\ out' = [out EXCEPT ![m] = [@ EXCEPT !.expired = TRUE]]
  /\ UNCHANGED <<conv, route, rebind, connection, outcome, receipts, parent, clock, used>>

\* Mutant: neither the status nor the token of the row is compared.
OwnLease_AnyToken(k, m, a) ==
  /\ Stored(out, m) /\ a <= out[m].attempts /\ outcome[m][a] = "none"
  /\ out[m].by = k /\ ConnectorOf(m) = k

\* A completion by connector k under token a.  Its expiry is not looked at.
OwnLease(k, m, a) ==
  /\ out[m].status = "leased" /\ out[m].attempts = a
  /\ out[m].by = k /\ ConnectorOf(m) = k

Accept(k, m, a) ==
  /\ OwnLease(k, m, a) /\ out[m].connection \in WhatsApp
  /\ outcome' = [outcome EXCEPT ![m] = [@ EXCEPT ![a] = "accepted"]]
  /\ out' = [out EXCEPT ![m] = Ends(@, "accepted", "accepted")]
  /\ UNCHANGED <<conv, route, rebind, connection, receipts, parent, clock, used>>

Deliver(k, m, a) ==
  /\ OwnLease(k, m, a) /\ out[m].connection \notin WhatsApp
  /\ outcome' = [outcome EXCEPT ![m] = [@ EXCEPT ![a] = "delivered"]]
  /\ out' = [out EXCEPT ![m] = Ends(@, "delivered", @.provider)]
  /\ Write(Delivered(conv, m))
  /\ UNCHANGED <<route, rebind, connection, receipts, parent, used>>

\* Mutant: the last attempt is put back as well.
Retry_NoLimit(k, m, a) ==
  /\ OwnLease(k, m, a)
  /\ outcome' = [outcome EXCEPT ![m] = [@ EXCEPT ![a] = "retry"]]
  /\ out' = [out EXCEPT ![m] = Ends(@, "pending", @.provider)]
  /\ UNCHANGED <<conv, route, rebind, connection, receipts, parent, clock, used>>

Retry(k, m, a) ==
  /\ OwnLease(k, m, a) /\ a < MaxAttempts
  /\ outcome' = [outcome EXCEPT ![m] = [@ EXCEPT ![a] = "retry"]]
  /\ out' = [out EXCEPT ![m] = Ends(@, "pending", @.provider)]
  /\ UNCHANGED <<conv, route, rebind, connection, receipts, parent, clock, used>>

\* A failure that is not retryable, or any failure of the last attempt.
Fail(k, m, a) ==
  LET o == [out EXCEPT ![m] = Ends(@, "failed", @.provider)] IN
  /\ OwnLease(k, m, a)
  /\ outcome' = [outcome EXCEPT ![m] = [@ EXCEPT ![a] = "failed"]]
  /\ out' = o
  /\ Write(handoff_failed_delivery(conv, o, m))
  /\ UNCHANGED <<route, rebind, connection, receipts, parent, used>>

-----------------------------------------------------------------------------
(* record_airhop_whatsapp_status.                                          *)

\* Mutant: a failure also counts after the delivery.
Applies_LateFailure(m, s) ==
  \/ s = "sent" /\ out[m].status = "accepted" /\ out[m].provider = "accepted"
  \/ s = "failed" /\ out[m].status \in {"accepted", "delivered"}
  \/ s = "delivered" /\ out[m].status \in {"accepted", "failed"} /\ out[m].provider # "read"
  \/ s = "read" /\ out[m].status \in {"accepted", "failed", "delivered"}
                /\ out[m].provider # "read"

\* Whether a receipt changes the row: receipts come in any order, and again.
Applies(m, s) ==
  \/ s = "sent" /\ out[m].status = "accepted" /\ out[m].provider = "accepted"
  \/ s = "failed" /\ out[m].status = "accepted"
  \/ s = "delivered" /\ out[m].status \in {"accepted", "failed"} /\ out[m].provider # "read"
  \/ s = "read" /\ out[m].status \in {"accepted", "failed", "delivered"}
                /\ out[m].provider # "read"

\* Only a message that was accepted has a provider_message_id to find it by.
WhatsAppStatus(k, m, s) ==
  LET status == IF s \in {"delivered", "read"} THEN "delivered"
                ELSE IF s = "failed" THEN "failed" ELSE out[m].status
      o == IF Applies(m, s)
           THEN [out EXCEPT ![m] = [@ EXCEPT !.status = status, !.provider = s,
                                             !.expired = out[m].expired /\ s = "sent"]]
           ELSE out
  IN  /\ out[m].connection \in WhatsApp /\ out[m].provider # "none" /\ ConnectorOf(m) = k
      /\ receipts' = [receipts EXCEPT ![m] = @ \cup {s}]
      /\ out' = o
      /\ Write(IF ~Applies(m, s) \/ s = "sent" THEN conv
               ELSE IF s = "failed" THEN handoff_failed_delivery(conv, o, m)
               ELSE Delivered(conv, m))
      /\ UNCHANGED <<route, rebind, connection, outcome, parent, used>>

-----------------------------------------------------------------------------
Message ==
  \/ \E m \in Messages : BeginMessage(m) \/ ReadRoute(m) \/ Enqueue(m)
  \/ \E p \in ParentMessages : BeginParent(p) \/ record_inbound(p)

Staff ==
  \/ \E o \in Owners : SetOwner(o)
  \/ \E q \in Queues : SetStatus(q)
  \/ \E c \in Connections, s \in States, k \in Connectors : PutConnection(c, s, k)
  \/ \E s \in States : PutRouteStatus(s)
  \/ \E c \in Connections : CheckRebind(c)
  \/ \E c \in Connections, s \in States : Rebind(c, s)

\* A connector asks for one of its connections or for all of them.
Scopes == {Connections} \cup {{c} : c \in Connections}

Connector ==
  \E k \in Connectors :
    \/ \E scope \in Scopes, jobs \in SUBSET Messages : Claim(k, scope, jobs)
    \/ \E m \in Messages, a \in Tokens :
         Accept(k, m, a) \/ Deliver(k, m, a) \/ Retry(k, m, a) \/ Fail(k, m, a)
    \/ \E m \in Messages, s \in Evidence : WhatsAppStatus(k, m, s)

Time == \E m \in Messages : TimePasses(m)

Next == Message \/ Staff \/ Connector \/ Time

Spec == Init /\ [][Next]_vars

-----------------------------------------------------------------------------
(* Properties.                                                             *)

\* LastOutcome: a recorded success or final failure belongs to the newest token
\* of its message, and a message that may still be sent has none: no late
\* completion, expired lease or retry sends a message again after that.
LastOutcome ==
  \A m \in Messages, a \in Tokens :
    outcome[m][a] \in {"accepted", "delivered", "failed"} =>
      /\ a = out[m].attempts
      /\ out[m].status \in {"accepted", "delivered", "failed"}

\* DeliveryEvidence: in whatever order completions, receipts and the 25-hour limit
\* come, a message counts as delivered exactly when there is evidence of it: the
\* connector of a provider without receipts said so, or a receipt did; and a
\* receipt that it was read is never lost.
DeliveryEvidence ==
  \A m \in Messages :
    /\ out[m].status = "delivered" <=>
         \/ \E a \in Tokens : outcome[m][a] = "delivered"
         \/ receipts[m] \cap {"delivered", "read"} # {}
    /\ "read" \in receipts[m] => out[m].provider = "read"

\* QueueEvidence: a conversation that the system moved to waiting_parent has a
\* delivered message written after the newest message of the parent.
QueueEvidence ==
  conv.queue = "waiting_parent" /\ conv.setBy = "system" =>
    \E m \in Messages : out[m].status = "delivered" /\ out[m].created >= conv.lastInbound

FinalStep ==
  \A m \in Messages :
    /\ out[m].status \in {"superseded", "delivered"} => out'[m].status = out[m].status
    /\ out[m].status = "failed" /\ out'[m].status # "failed" =>
         out'[m].status = "delivered" /\ receipts'[m] \cap {"delivered", "read"} # {}

\* FinalStays: a superseded message is never revived and a delivered one stays
\* delivered; a failed one changes only when a receipt proves its delivery.
FinalStays == [][FinalStep]_vars

-----------------------------------------------------------------------------
(* The inductive invariant behind the safety properties.                   *)

\* What a row r, its recorded outcomes oc and its receipts rc have to do with
\* each other: LastOutcome and DeliveryEvidence for one message, a lease has no
\* outcome yet, and only a message that Meta accepted has receipts.
RowSound(r, oc, rc) ==
  /\ \A a \in Tokens : oc[a] # "none" => a <= r.attempts
  /\ \A a \in Tokens : oc[a] \in {"accepted", "delivered", "failed"} =>
       a = r.attempts /\ r.status \in {"accepted", "delivered", "failed"}
  /\ \A a \in Tokens : r.status = "leased" /\ a = r.attempts => oc[a] = "none"
  /\ r.provider # "none" => r.status \in {"accepted", "delivered", "failed"}
  /\ r.status = "accepted" => r.provider # "none"
  /\ r.provider = "read" => r.status = "delivered"
  /\ r.provider = "none" => rc = {}
  /\ r.status = "delivered" <=> \/ \E a \in Tokens : oc[a] = "delivered"
                               \/ rc \cap {"delivered", "read"} # {}
  /\ "read" \in rc => r.provider = "read"

RowsSound == \A m \in Messages : RowSound(out[m], outcome[m], receipts[m])

IInv == TypeOK /\ RowsSound /\ QueueEvidence

-----------------------------------------------------------------------------
(* Liveness.                                                               *)

\* Time passes, transactions end, and the connectors keep asking for work.
Fairness ==
  /\ \A m \in Messages :
       /\ WF_vars(TimePasses(m)) /\ WF_vars(Enqueue(m))
       /\ WF_vars(\E k \in Connectors, jobs \in SUBSET Messages :
                    Claim(k, Connections, jobs) /\ out'[m] # out[m])

FairSpec == Spec /\ Fairness

\* The message can be claimed as far as route and connection are concerned.
Routed(m) ==
  /\ out[m].connection = route.connection /\ out[m].version = route.version
  /\ route.status = "active" /\ connection[route.connection].status = "active"

\* QueuedSettles: on a route that stays as it is, a queued message is accepted,
\* delivered, superseded or given up, even if the connector dies in every attempt.
QueuedSettles ==
  \A m \in Messages :
    <>[]Routed(m) =>
      (out[m].status \in {"pending", "leased"} ~> out[m].status \notin {"pending", "leased"})

\* AcceptedSettles: a message that Meta accepted becomes delivered or failed, also
\* when no receipt ever comes and whatever happened to its route.
AcceptedSettles ==
  \A m \in Messages : out[m].status = "accepted" ~> out[m].status \in {"delivered", "failed"}

-----------------------------------------------------------------------------
(* What the repository's documents say and the code does not do.           *)

\* RebindLeavesNothing: on a rebind "pending messages of the old route become
\* superseded, and a rebind during a live lease gets a conflict": no message is
\* pending, and none is under a live lease, on an older routing version.
RebindLeavesNothing ==
  \A m \in Messages :
    out[m].status = "pending" \/ (out[m].status = "leased" /\ ~out[m].expired) =>
      out[m].version = route.version

=============================================================================
