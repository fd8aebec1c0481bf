------------------------ MODULE ExternalDelivery_proofs ------------------------
(***************************************************************************)
(* Proofs about ExternalDelivery.  The invariant is about one message at a  *)
(* time, so the lemmas about rows say which changes of a row, its outcomes  *)
(* and its receipts keep it sound, and every action is shown to make only   *)
(* such changes.                                                            *)
(***************************************************************************)
EXTENDS ExternalDelivery, TLAPS

Ended == {"accepted", "delivered", "failed"}

OutcomesOf == [Tokens -> Outcomes]

\* The parts of TypeOK, for the leaves that need few of them.
LEMMA Types ==
  ASSUME TypeOK
  PROVE  /\ conv \in Conversation /\ clock \in Nat /\ clock + 1 \in Nat
         /\ used \in [config : Nat, commands : Nat]
         /\ used.config + 1 \in Nat /\ used.commands + 1 \in Nat
         /\ out \in [Messages -> Row]
         /\ \A m \in Messages : /\ out[m] \in Row /\ outcome[m] \in OutcomesOf
                               /\ receipts[m] \in SUBSET Evidence
BY DEF TypeOK, OutcomesOf

-----------------------------------------------------------------------------
(* Rows.                                                                   *)

\* A row that keeps its token and its provider status stays sound when its status
\* stays, or moves between states in which nothing was sent.
LEMMA QuietRow ==
  ASSUME NEW r \in Row, NEW q \in Row, NEW oc \in OutcomesOf, NEW rc \in SUBSET Evidence,
         RowSound(r, oc, rc), q.attempts = r.attempts, q.provider = r.provider,
         q.status = r.status \/ (r.status \notin Ended /\ q.status \notin Ended \cup {"leased"})
  PROVE  RowSound(q, oc, rc)
BY DEF RowSound, Ended, Row, OutcomesOf, Tokens, Outcomes, Evidence

\* A new token has no outcome yet (claim_airhop_external_messages).
LEMMA LeasedRow ==
  ASSUME NEW r \in Row, NEW k \in Connectors, NEW oc \in OutcomesOf,
         NEW rc \in SUBSET Evidence, RowSound(r, oc, rc),
         r.status \in {"pending", "leased"}, r.attempts < MaxAttempts
  PROVE  Leased(r, k) \in Row /\ RowSound(Leased(r, k), oc, rc)
<1>1. Leased(r, k) \in Row
  <2>1. r.attempts + 1 \in 0..MaxAttempts
    BY BoundsAssumption DEF Row
  <2>2. QED
    BY <2>1 DEF Leased, Row
<1>2. /\ Leased(r, k).attempts = r.attempts + 1 /\ Leased(r, k).status = "leased"
      /\ Leased(r, k).provider = r.provider
  BY DEF Leased, Row
<1>3. r.provider = "none" /\ rc = {}
  BY DEF RowSound
<1>4. \A a \in Tokens : oc[a] # "none" => a <= r.attempts /\ a < r.attempts + 1
  BY BoundsAssumption DEF RowSound, Tokens, Row
<1>5. \A a \in Tokens : oc[a] \notin Ended
  BY DEF RowSound, Ended
<1>6. \A a \in Tokens : oc[a] # "none" => a <= r.attempts + 1 /\ a # r.attempts + 1
  BY <1>4, BoundsAssumption DEF Tokens, Row
<1>7. RowSound(Leased(r, k), oc, rc)
  BY <1>2, <1>3, <1>5, <1>6 DEF RowSound, Ended
<1>8. QED
  BY <1>1, <1>7

\* A lease that ends with an outcome under its token, or without one.
LEMMA EndedRow ==
  ASSUME NEW r \in Row, NEW oc \in OutcomesOf, NEW rc \in SUBSET Evidence,
         NEW a \in Tokens, NEW w \in Outcomes, NEW s, NEW v,
         RowSound(r, oc, rc), r.status = "leased", r.attempts = a,
         \/ w = "accepted" /\ s = "accepted" /\ v = "accepted"
         \/ w \in {"delivered", "failed"} /\ s = w /\ v = r.provider
         \/ w = "retry" /\ s = "pending" /\ v = r.provider
  PROVE  /\ Ends(r, s, v) \in Row
         /\ [oc EXCEPT ![a] = w] \in OutcomesOf
         /\ RowSound(Ends(r, s, v), [oc EXCEPT ![a] = w], rc)
<1> DEFINE q == Ends(r, s, v)  od == [oc EXCEPT ![a] = w]
<1>1. q \in Row /\ od \in OutcomesOf
  BY DEF Ends, Row, OutcomesOf, Outcomes, Provider
<1>2. q.attempts = a /\ q.status = s /\ q.provider = v
  BY DEF Ends, Row
<1>3. r.provider = "none" /\ rc = {}
  BY DEF RowSound
<1>4. \A b \in Tokens : od[b] = IF b = a THEN w ELSE oc[b]
  BY DEF OutcomesOf
<1>5. \A b \in Tokens : b # a => oc[b] \notin Ended
  BY DEF RowSound, Ended
<1>6. \A b \in Tokens : od[b] # "none" => b <= a
  BY <1>4, BoundsAssumption DEF RowSound, Tokens
<1>7. \A b \in Tokens : od[b] \in Ended => b = a /\ w \in Ended
  BY <1>4, <1>5
<1> HIDE DEF q, od
<1>8. RowSound(q, od, rc)
  BY <1>2, <1>3, <1>4, <1>6, <1>7 DEF RowSound, Ended
<1>9. QED
  BY <1>1, <1>8 DEF q, od

\* A lease or an acceptance that ran out is given up.
LEMMA GivenUpRow ==
  ASSUME NEW r \in Row, NEW oc \in OutcomesOf, NEW rc \in SUBSET Evidence, NEW v,
         RowSound(r, oc, rc),
         \/ r.status = "leased" /\ v = r.provider
         \/ r.status = "accepted" /\ r.provider # "none" /\ v = "failed"
  PROVE  Ends(r, "failed", v) \in Row /\ RowSound(Ends(r, "failed", v), oc, rc)
<1>1. Ends(r, "failed", v) \in Row
  BY DEF Ends, Row, Provider
<1>2. /\ Ends(r, "failed", v).attempts = r.attempts
      /\ Ends(r, "failed", v).status = "failed" /\ Ends(r, "failed", v).provider = v
  BY DEF Ends, Row
<1>3. "read" \notin rc /\ rc \cap {"delivered", "read"} = {}
  BY DEF RowSound
<1>4. v = "none" <=> r.provider = "none"
  OBVIOUS
<1>5. \A a \in Tokens : oc[a] # "delivered"
  BY DEF RowSound
<1>6. RowSound(Ends(r, "failed", v), oc, rc)
  BY <1>2, <1>3, <1>4, <1>5 DEF RowSound
<1>7. QED
  BY <1>1, <1>6

\* A receipt, applied or only recorded.
LEMMA ReceiptRow ==
  ASSUME NEW r \in Row, NEW q \in Row, NEW oc \in OutcomesOf, NEW rc \in SUBSET Evidence,
         NEW s \in Evidence, RowSound(r, oc, rc), r.provider # "none",
         q.attempts = r.attempts,
         \/ /\ q.status = r.status /\ q.provider = r.provider
            /\ s \in {"delivered", "read"} => r.status = "delivered"
            /\ s = "read" => r.provider = "read"
         \/ s = "sent" /\ r.status = "accepted" /\ q.status = "accepted" /\ q.provider = s
         \/ s = "failed" /\ r.status = "accepted" /\ q.status = "failed" /\ q.provider = s
         \/ s = "delivered" /\ r.status \in {"accepted", "failed"} /\ q.status = "delivered"
            /\ q.provider = s
         \/ s = "read" /\ q.status = "delivered" /\ q.provider = s
  PROVE  RowSound(q, oc, rc \cup {s})
BY DEF RowSound, Evidence
-----------------------------------------------------------------------------
(* The conversation row.                                                   *)

LEMMA WriteTypes ==
  ASSUME TypeOK, NEW c \in Conversation, Write(c)
  PROVE  conv' = c /\ conv' \in Conversation /\ clock' \in Nat
BY DEF TypeOK, Write

LEMMA ConversationTypes ==
  ASSUME TypeOK, NEW o, NEW m \in Messages
  PROVE  Delivered(conv, m) \in Conversation /\ handoff_failed_delivery(conv, o, m) \in Conversation
<1>1. \/ Delivered(conv, m) = conv
      \/ Delivered(conv, m) = [conv EXCEPT !.queue = "waiting_parent", !.setBy = "system",
                                           !.updated = clock + 1]
  BY DEF Delivered
<1>2. \/ handoff_failed_delivery(conv, o, m) = conv
      \/ handoff_failed_delivery(conv, o, m) =
           [conv EXCEPT !.owner = "human", !.queue = "waiting_staff", !.setBy = "system",
                        !.updated = clock + 1]
  BY Zenon DEF handoff_failed_delivery
<1>3. clock + 1 \in Nat /\ conv \in Conversation
  BY DEF TypeOK
<1>4. QED
  BY <1>1, <1>2, <1>3 DEF Conversation, Owners, Queues

\* Delivered messages stay as they are.
Stay == \A m \in Messages : out[m].status = "delivered" =>
          out'[m].status = "delivered" /\ out'[m].created = out[m].created

\* What keeps QueueEvidence.
Justified ==
  \/ /\ conv'.queue = conv.queue /\ conv'.setBy = conv.setBy
     /\ conv'.lastInbound = conv.lastInbound
  \/ conv'.queue # "waiting_parent" \/ conv'.setBy = "staff"
  \/ \E m \in Messages : out'[m].status = "delivered" /\ out'[m].created >= conv'.lastInbound

LEMMA QueueKept ==
  ASSUME QueueEvidence, Stay, Justified
  PROVE  QueueEvidence'
BY DEF QueueEvidence, Stay, Justified

\* The handoff never moves a conversation to waiting_parent; a delivery does so
\* for a message newer than the last inbound.
LEMMA HandoffJustified ==
  ASSUME TypeOK, NEW o, NEW m \in Messages, conv' = handoff_failed_delivery(conv, o, m)
  PROVE  Justified
BY DEF TypeOK, handoff_failed_delivery, Conversation, Justified

LEMMA DeliveredJustified ==
  ASSUME TypeOK, NEW m \in Messages, conv' = Delivered(conv, m),
         out'[m].status = "delivered", out'[m].created = out[m].created
  PROVE  Justified
<1>1. CASE conv' = conv
  BY <1>1 DEF Justified
<1>2. CASE conv' # conv
  <2>1. conv.lastInbound <= out[m].created /\ conv'.lastInbound = conv.lastInbound
    BY <1>2 DEF Delivered, TypeOK, Conversation
  <2>2. QED
    BY <2>1 DEF Justified, TypeOK, Conversation, Row
<1>3. QED
  BY <1>1, <1>2

-----------------------------------------------------------------------------
(* Steps.                                                                  *)

\* What every step is shown to do.
Good == TypeOK' /\ RowsSound' /\ Stay /\ Justified /\ FinalStep

\* Steps that leave the outbox, the outcomes and the receipts alone.
LEMMA OutsideStep ==
  ASSUME IInv,
         \/ \E p \in ParentMessages : BeginParent(p) \/ record_inbound(p)
         \/ \E o \in Owners : SetOwner(o)
         \/ \E q \in Queues : SetStatus(q)
         \/ \E c \in Connections : CheckRebind(c)
  PROVE  Good
<1> USE DEF IInv
<1>1. out' = out /\ outcome' = outcome /\ receipts' = receipts
  BY DEF BeginParent, record_inbound, SetOwner, SetStatus, CheckRebind, Command, Configure
<1>2. RowsSound' /\ Stay /\ FinalStep
  BY <1>1 DEF RowsSound, Stay, FinalStep
<1>3. TypeOK' /\ Justified
  <2>1. CASE \E p \in ParentMessages : BeginParent(p)
    BY <2>1 DEF BeginParent, TypeOK, Justified
  <2>2. CASE \E p \in ParentMessages : record_inbound(p)
    <3>1. PICK p \in ParentMessages : record_inbound(p)
      BY <2>2
    <3>2. parent' \in [ParentMessages -> [step : {"none", "begun", "done"}, at : Nat]]
      BY <3>1 DEF record_inbound, TypeOK
    <3>3. conv' \in Conversation /\ conv'.queue = "waiting_staff"
      BY <3>1 DEF record_inbound, TypeOK, Conversation, Queues
    <3>4. QED
      BY <3>1, <3>2, <3>3 DEF record_inbound, TypeOK, Justified
  <2>3. CASE \E o \in Owners : SetOwner(o)
    <3>1. PICK o \in Owners : SetOwner(o)
      BY <2>3
    <3>2. clock' \in Nat /\ used' \in [config : Nat, commands : Nat]
      BY <3>1, Types DEF SetOwner, Command
    <3>3. conv' \in Conversation /\ Justified
      BY <3>1, Types DEF SetOwner, Conversation, Justified
    <3>4. QED
      BY <3>1, <3>2, <3>3 DEF SetOwner, Command, TypeOK
  <2>4. CASE \E q \in Queues : SetStatus(q)
    <3>1. PICK q \in Queues : SetStatus(q)
      BY <2>4
    <3>2. clock' \in Nat /\ used' \in [config : Nat, commands : Nat]
      BY <3>1, Types DEF SetStatus, Command
    <3>3. conv' \in Conversation /\ Justified
      BY <3>1, Types DEF SetStatus, Conversation, Justified
    <3>4. QED
      BY <3>1, <3>2, <3>3 DEF SetStatus, Command, TypeOK
  <2>5. CASE \E c \in Connections : CheckRebind(c)
    BY <2>5 DEF CheckRebind, Configure, TypeOK, Justified
  <2>6. QED
    BY <2>1, <2>2, <2>3, <2>4, <2>5
<1>4. QED
  BY <1>2, <1>3 DEF Good

\* Pending messages that become superseded.
LEMMA SupersededRows ==
  ASSUME IInv, NEW d, out' = Superseded(d), outcome' = outcome, receipts' = receipts
  PROVE  out' \in [Messages -> Row] /\ RowsSound' /\ Stay /\ FinalStep
<1> USE DEF IInv
<1>1. \A m \in Messages :
        \/ out'[m] = out[m]
        \/ out[m].status = "pending" /\ out'[m] = [out[m] EXCEPT !.status = "superseded"]
  BY DEF Superseded
<1>2. \A m \in Messages : out'[m] \in Row
  <2>1. ASSUME NEW r \in Row PROVE [r EXCEPT !.status = "superseded"] \in Row
    BY DEF Row
  <2>2. ASSUME NEW m \in Messages PROVE out'[m] \in Row
    <3>1. out[m] \in Row
      BY Types
    <3>2. CASE out'[m] = out[m]
      BY <3>1, <3>2
    <3>3. CASE out'[m] = [out[m] EXCEPT !.status = "superseded"]
      BY <2>1, <3>1, <3>3
    <3>4. QED
      BY <1>1, <3>2, <3>3
  <2>3. QED
    BY <2>2
<1>3. out' \in [Messages -> Row]
  <2>1. out' = [m \in Messages |-> out'[m]]
    BY DEF Superseded
  <2>2. QED
    BY <1>2, <2>1
<1>4. ASSUME NEW m \in Messages PROVE RowSound(out'[m], outcome'[m], receipts'[m])
  <2>1. CASE out'[m] = out[m]
    BY <2>1 DEF RowsSound
  <2>2. CASE out[m].status = "pending" /\ out'[m] = [out[m] EXCEPT !.status = "superseded"]
    <3>1. out[m] \in Row /\ outcome[m] \in OutcomesOf /\ receipts[m] \in SUBSET Evidence
      BY DEF TypeOK, OutcomesOf
    <3>2. /\ out'[m].attempts = out[m].attempts /\ out'[m].provider = out[m].provider
          /\ out'[m].status = "superseded"
      BY <2>2, <3>1 DEF Row
    <3>3. RowSound(out[m], outcome[m], receipts[m])
      BY DEF RowsSound
    <3>4. QED
      BY <1>2, <2>2, <3>1, <3>2, <3>3, QuietRow DEF Ended
  <2>3. QED
    BY <1>1, <2>1, <2>2
<1>5. Stay /\ FinalStep
  BY <1>1 DEF Stay, FinalStep
<1>6. QED
  BY <1>3, <1>4, <1>5 DEF RowsSound
\* Changes of route and connections.
LEMMA ConfigurationStep ==
  ASSUME IInv,
         \/ \E c \in Connections, s \in States, k \in Connectors : PutConnection(c, s, k)
         \/ \E s \in States : PutRouteStatus(s)
         \/ \E c \in Connections, s \in States : Rebind(c, s)
  PROVE  Good
<1> USE DEF IInv
<1>1. outcome' = outcome /\ receipts' = receipts /\ conv' = conv
  BY DEF PutConnection, PutRouteStatus, Rebind, Configure
<1>2. \E d : out' = Superseded(d)
  <2>1. out = Superseded({})
    BY Types DEF Superseded
  <2>2. QED
    BY <2>1 DEF PutConnection, PutRouteStatus, Rebind
<1>3. out' \in [Messages -> Row] /\ RowsSound' /\ Stay /\ FinalStep
  BY <1>1, <1>2, SupersededRows
<1>4. used' \in [config : Nat, commands : Nat]
  BY Types DEF PutConnection, PutRouteStatus, Rebind, Configure
<1>5. TypeOK'
  <2>1. CASE \E c \in Connections, s \in States, k \in Connectors : PutConnection(c, s, k)
    BY <1>1, <1>3, <1>4, <2>1 DEF PutConnection, Configure, TypeOK
  <2>2. CASE \E s \in States : PutRouteStatus(s)
    BY <1>1, <1>3, <1>4, <2>2 DEF PutRouteStatus, Configure, TypeOK
  <2>3. CASE \E c \in Connections, s \in States : Rebind(c, s)
    BY <1>1, <1>3, <1>4, <2>3 DEF Rebind, TypeOK
  <2>4. QED
    BY <2>1, <2>2, <2>3
<1>6. Justified
  BY <1>1 DEF Justified
<1>7. QED
  BY <1>3, <1>5, <1>6 DEF Good

\* One message's row, outcomes and receipts change to q, od and rd.
LEMMA OneRow ==
  ASSUME IInv, NEW m \in Messages, NEW q \in Row, NEW od \in OutcomesOf,
         NEW rd \in SUBSET Evidence, RowSound(q, od, rd),
         out' = [out EXCEPT ![m] = q],
         outcome' = [outcome EXCEPT ![m] = od],
         receipts' = [receipts EXCEPT ![m] = rd],
         out[m].status \in {"superseded", "delivered"} => q.status = out[m].status,
         q.created = out[m].created \/ out[m].status # "delivered",
         \/ out[m].status # "failed" \/ q.status = "failed"
         \/ q.status = "delivered" /\ rd \cap {"delivered", "read"} # {}
  PROVE  /\ out' \in [Messages -> Row] /\ outcome' \in [Messages -> [Tokens -> Outcomes]]
         /\ receipts' \in [Messages -> SUBSET Evidence]
         /\ RowsSound' /\ Stay /\ FinalStep
<1> USE DEF IInv
<1>1. /\ out' \in [Messages -> Row] /\ outcome' \in [Messages -> [Tokens -> Outcomes]]
      /\ receipts' \in [Messages -> SUBSET Evidence]
  BY DEF TypeOK, OutcomesOf
<1>2. \A n \in Messages :
        /\ out'[n] = IF n = m THEN q ELSE out[n]
        /\ outcome'[n] = IF n = m THEN od ELSE outcome[n]
        /\ receipts'[n] = IF n = m THEN rd ELSE receipts[n]
  BY DEF TypeOK
<1>3. ASSUME NEW n \in Messages PROVE RowSound(out'[n], outcome'[n], receipts'[n])
  <2>1. CASE n = m
    BY <1>2, <2>1
  <2>2. CASE n # m
    BY <1>2, <2>2 DEF RowsSound
  <2>3. QED
    BY <2>1, <2>2
<1>4. RowsSound'
  BY <1>3 DEF RowsSound
<1>5. Stay /\ FinalStep
  BY <1>2 DEF Stay, FinalStep
<1>6. QED
  BY <1>1, <1>4, <1>5

\* The same when only the row changes, and nothing was sent or is said about it.
LEMMA QuietStep ==
  ASSUME IInv, NEW m \in Messages, NEW q \in Row, out' = [out EXCEPT ![m] = q],
         outcome' = outcome, receipts' = receipts,
         q.attempts = out[m].attempts, q.provider = out[m].provider,
         \/ q.status = out[m].status /\ q.created = out[m].created
         \/ /\ out[m].status \notin Ended \cup {"superseded"}
            /\ q.status \notin Ended \cup {"leased"}
  PROVE  out' \in [Messages -> Row] /\ RowsSound' /\ Stay /\ FinalStep
<1> USE DEF IInv
<1>1. out[m] \in Row /\ outcome[m] \in OutcomesOf /\ receipts[m] \in SUBSET Evidence
  BY Types
<1>2. RowSound(out[m], outcome[m], receipts[m])
  BY DEF RowsSound
<1>3. RowSound(q, outcome[m], receipts[m])
  BY <1>1, <1>2, QuietRow DEF Ended
<1>4. outcome' = [outcome EXCEPT ![m] = outcome[m]] /\ receipts' = [receipts EXCEPT ![m] = receipts[m]]
  BY DEF TypeOK
<1>5. /\ out[m].status \in {"superseded", "delivered"} => q.status = out[m].status
      /\ q.created = out[m].created \/ out[m].status # "delivered"
      /\ out[m].status # "failed" \/ q.status = "failed"
  BY DEF Ended
<1>6. QED
  BY <1>1, <1>3, <1>4, <1>5, OneRow
\* Messages on their way into the outbox, and the passing of time.
LEMMA MessageStep ==
  ASSUME IInv, NEW m \in Messages,
         BeginMessage(m) \/ ReadRoute(m) \/ Enqueue(m) \/ TimePasses(m)
  PROVE  Good
<1> USE DEF IInv
<1>1. out[m] \in Row /\ clock + 1 \in Nat
  BY Types
<1>2. CASE BeginMessage(m)
  <2> DEFINE q == [out[m] EXCEPT !.status = "begun", !.created = clock + 1]
  <2>1. /\ q \in Row /\ q.attempts = out[m].attempts /\ q.provider = out[m].provider
        /\ q.status = "begun"
    BY <1>1 DEF Row
  <2>2. out' = [out EXCEPT ![m] = q] /\ outcome' = outcome /\ receipts' = receipts
    BY <1>2 DEF BeginMessage
  <2> HIDE DEF q
  <2>3. out' \in [Messages -> Row] /\ RowsSound' /\ Stay /\ FinalStep
    BY <1>2, <2>1, <2>2, QuietStep DEF Ended, BeginMessage
  <2>4. QED
    BY <1>1, <1>2, <2>3 DEF BeginMessage, TypeOK, Justified, Good
<1>3. CASE ReadRoute(m)
  <2> DEFINE ins == IF "disabled" \in {route.status, connection[route.connection].status}
                    THEN "superseded" ELSE "pending"
             q == [out[m] EXCEPT !.status = "reading", !.connection = route.connection,
                                 !.version = route.version, !.insert = ins]
  <2>1. ins \in {"pending", "superseded"} /\ route.connection \in Connections
        /\ route.version \in Nat
    BY DEF TypeOK
  <2> HIDE DEF ins
  <2>2. /\ q \in Row /\ q.attempts = out[m].attempts /\ q.provider = out[m].provider
        /\ q.status = "reading"
    BY <1>1, <2>1 DEF Row
  <2>3. out' = [out EXCEPT ![m] = q] /\ outcome' = outcome /\ receipts' = receipts
    BY <1>3 DEF ReadRoute, ins
  <2> HIDE DEF q
  <2>4. out' \in [Messages -> Row] /\ RowsSound' /\ Stay /\ FinalStep
    BY <1>3, <2>2, <2>3, QuietStep DEF Ended, ReadRoute
  <2>5. QED
    BY <1>3, <2>4 DEF ReadRoute, TypeOK, Justified, Good
<1>4. CASE Enqueue(m)
  <2> DEFINE q == [out[m] EXCEPT !.status = out[m].insert]
  <2>1. /\ q \in Row /\ q.attempts = out[m].attempts /\ q.provider = out[m].provider
        /\ q.status \in {"pending", "superseded"}
    BY <1>1 DEF Row
  <2>2. out' = [out EXCEPT ![m] = q] /\ outcome' = outcome /\ receipts' = receipts
    BY <1>4 DEF Enqueue
  <2> HIDE DEF q
  <2>3. out' \in [Messages -> Row] /\ RowsSound' /\ Stay /\ FinalStep
    BY <1>4, <2>1, <2>2, QuietStep DEF Ended, Enqueue
  <2>4. conv' \in Conversation /\ Justified
    <3>1. out[m].created \in Nat /\ conv \in Conversation
      BY <1>1, Types DEF Row
    <3>2. QED
      BY <1>4, <3>1 DEF Enqueue, Conversation, Owners, Justified
  <2>5. QED
    BY <1>4, <2>3, <2>4 DEF Enqueue, TypeOK, Good
<1>5. CASE TimePasses(m)
  <2> DEFINE q == [out[m] EXCEPT !.expired = TRUE]
  <2>1. /\ q \in Row /\ q.attempts = out[m].attempts /\ q.provider = out[m].provider
        /\ q.status = out[m].status /\ q.created = out[m].created
    BY <1>1 DEF Row
  <2>2. out' = [out EXCEPT ![m] = q] /\ outcome' = outcome /\ receipts' = receipts
    BY <1>5 DEF TimePasses
  <2> HIDE DEF q
  <2>3. out' \in [Messages -> Row] /\ RowsSound' /\ Stay /\ FinalStep
    BY <2>1, <2>2, QuietStep
  <2>4. QED
    BY <1>5, <2>3 DEF TimePasses, TypeOK, Justified, Good
<1>6. QED
  BY <1>2, <1>3, <1>4, <1>5

\* Completions of a lease: one outcome for the newest token.
LEMMA CompletionStep ==
  ASSUME IInv, NEW k \in Connectors, NEW m \in Messages, NEW a \in Tokens,
         Accept(k, m, a) \/ Deliver(k, m, a) \/ Retry(k, m, a) \/ Fail(k, m, a)
  PROVE  Good
<1> USE DEF IInv
<1>1. out[m] \in Row /\ outcome[m] \in OutcomesOf /\ receipts[m] \in SUBSET Evidence
  BY Types
<1>2. RowSound(out[m], outcome[m], receipts[m])
  BY DEF RowsSound
<1>3. out[m].status = "leased" /\ out[m].attempts = a
  BY DEF Accept, Deliver, Retry, Fail, OwnLease
<1>4. receipts' = [receipts EXCEPT ![m] = receipts[m]]
  BY DEF TypeOK, Accept, Deliver, Retry, Fail
<1>5. ASSUME NEW w \in Outcomes, NEW s, NEW v,
             out' = [out EXCEPT ![m] = Ends(out[m], s, v)],
             outcome' = [outcome EXCEPT ![m] = [outcome[m] EXCEPT ![a] = w]],
             \/ w = "accepted" /\ s = "accepted" /\ v = "accepted"
             \/ w \in {"delivered", "failed"} /\ s = w /\ v = out[m].provider
             \/ w = "retry" /\ s = "pending" /\ v = out[m].provider
      PROVE  /\ out' \in [Messages -> Row] /\ outcome' \in [Messages -> [Tokens -> Outcomes]]
             /\ receipts' \in [Messages -> SUBSET Evidence]
             /\ RowsSound' /\ Stay /\ FinalStep
             /\ out'[m].status = s /\ out'[m].created = out[m].created
  <2> DEFINE q == Ends(out[m], s, v)  od == [outcome[m] EXCEPT ![a] = w]
  <2>1. q \in Row /\ od \in OutcomesOf /\ RowSound(q, od, receipts[m])
    BY <1>1, <1>2, <1>3, <1>5, EndedRow
  <2>2. q.status = s /\ q.created = out[m].created
    BY <1>1 DEF Ends, Row
  <2>3. out' = [out EXCEPT ![m] = q] /\ outcome' = [outcome EXCEPT ![m] = od]
    BY <1>5
  <2> HIDE DEF q, od
  <2>4. /\ out' \in [Messages -> Row] /\ outcome' \in [Messages -> [Tokens -> Outcomes]]
        /\ receipts' \in [Messages -> SUBSET Evidence]
        /\ RowsSound' /\ Stay /\ FinalStep
    BY <1>1, <1>3, <1>4, <2>1, <2>3, OneRow
  <2>5. out'[m] = q
    BY <2>3, Types
  <2>6. QED
    BY <2>2, <2>4, <2>5
<1>6. CASE Accept(k, m, a)
  <2>1. /\ out' \in [Messages -> Row] /\ outcome' \in [Messages -> [Tokens -> Outcomes]]
        /\ receipts' \in [Messages -> SUBSET Evidence]
        /\ RowsSound' /\ Stay /\ FinalStep
    BY <1>5, <1>6 DEF Accept, Outcomes
  <2>2. QED
    BY <1>6, <2>1 DEF Accept, TypeOK, Justified, Good
<1>7. CASE Deliver(k, m, a)
  <2>1. /\ out' \in [Messages -> Row] /\ outcome' \in [Messages -> [Tokens -> Outcomes]]
        /\ receipts' \in [Messages -> SUBSET Evidence]
        /\ RowsSound' /\ Stay /\ FinalStep
        /\ out'[m].status = "delivered" /\ out'[m].created = out[m].created
    BY <1>5, <1>7 DEF Deliver, Outcomes
  <2>2. conv' = Delivered(conv, m) /\ conv' \in Conversation /\ clock' \in Nat
    BY <1>7, ConversationTypes, WriteTypes DEF Deliver
  <2>3. Justified
    BY <2>1, <2>2, DeliveredJustified
  <2>4. QED
    BY <1>7, <2>1, <2>2, <2>3 DEF Deliver, TypeOK, Good
<1>8. CASE Retry(k, m, a)
  <2>1. /\ out' \in [Messages -> Row] /\ outcome' \in [Messages -> [Tokens -> Outcomes]]
        /\ receipts' \in [Messages -> SUBSET Evidence]
        /\ RowsSound' /\ Stay /\ FinalStep
    BY <1>5, <1>8 DEF Retry, Outcomes
  <2>2. QED
    BY <1>8, <2>1 DEF Retry, TypeOK, Justified, Good
<1>9. CASE Fail(k, m, a)
  <2> DEFINE o == [out EXCEPT ![m] = Ends(out[m], "failed", out[m].provider)]
  <2>1. out' = o /\ outcome' = [outcome EXCEPT ![m] = [outcome[m] EXCEPT ![a] = "failed"]]
        /\ Write(handoff_failed_delivery(conv, o, m))
    BY <1>9 DEF Fail
  <2>2. /\ out' \in [Messages -> Row] /\ outcome' \in [Messages -> [Tokens -> Outcomes]]
        /\ receipts' \in [Messages -> SUBSET Evidence]
        /\ RowsSound' /\ Stay /\ FinalStep
    BY <1>5, <2>1 DEF Outcomes
  <2> HIDE DEF o
  <2>3. conv' = handoff_failed_delivery(conv, o, m) /\ conv' \in Conversation /\ clock' \in Nat
    BY <2>1, ConversationTypes, WriteTypes
  <2>4. Justified
    BY <2>3, HandoffJustified
  <2>5. QED
    BY <1>9, <2>2, <2>3, <2>4 DEF Fail, TypeOK, Good
<1>10. QED
  BY <1>6, <1>7, <1>8, <1>9
\* A receipt from Meta, in whatever order.
LEMMA ReceiptStep ==
  ASSUME IInv, NEW k \in Connectors, NEW m \in Messages, NEW s \in Evidence,
         WhatsAppStatus(k, m, s)
  PROVE  Good
<1> USE DEF IInv
<1> DEFINE status == IF s \in {"delivered", "read"} THEN "delivered"
                     ELSE IF s = "failed" THEN "failed" ELSE out[m].status
           changed == [out[m] EXCEPT !.status = status, !.provider = s,
                                     !.expired = out[m].expired /\ s = "sent"]
           q == IF Applies(m, s) THEN changed ELSE out[m]
           o == IF Applies(m, s) THEN [out EXCEPT ![m] = changed] ELSE out
           rd == receipts[m] \cup {s}
<1>1. out[m] \in Row /\ outcome[m] \in OutcomesOf /\ receipts[m] \in SUBSET Evidence
      /\ RowSound(out[m], outcome[m], receipts[m])
  BY Types DEF RowsSound
<1>2. out[m].provider # "none"
  BY DEF WhatsAppStatus
<1>3. /\ out' = o /\ receipts' = [receipts EXCEPT ![m] = rd]
      /\ outcome' = [outcome EXCEPT ![m] = outcome[m]]
  <2>1. out' = o /\ outcome' = outcome
    BY DEF WhatsAppStatus
  <2>2. receipts' = [receipts EXCEPT ![m] = rd]
    BY DEF WhatsAppStatus
  <2>3. outcome = [outcome EXCEPT ![m] = outcome[m]]
    BY DEF TypeOK
  <2>4. QED
    BY <2>1, <2>2, <2>3
<1>4. out' = [out EXCEPT ![m] = q]
  BY <1>3, Types
<1>5. status \in {"none", "begun", "reading", "pending", "leased", "accepted",
                  "delivered", "failed", "superseded"}
  BY <1>1 DEF Row
<1> HIDE DEF status
<1>6. /\ changed \in Row /\ changed.attempts = out[m].attempts
      /\ changed.created = out[m].created
      /\ changed.status = status /\ changed.provider = s
  BY <1>1, <1>5 DEF Row, Provider, Evidence
<1> HIDE DEF changed
<1>7. q \in Row /\ q.attempts = out[m].attempts /\ q.created = out[m].created
  BY <1>1, <1>6
<1>8. /\ s \in {"delivered", "read"} => status = "delivered"
      /\ s = "failed" => status = "failed"
      /\ s = "sent" => status = out[m].status
  BY DEF status
<1>9. out[m].status \in Ended
  BY <1>1, <1>2 DEF RowSound, Ended
<1>10. CASE ~Applies(m, s)
  <2>1. q = out[m] /\ conv' = conv /\ clock' = clock
    BY <1>10 DEF WhatsAppStatus, Write
  <2>2. /\ s = "delivered" => out[m].status = "delivered" \/ out[m].provider = "read"
        /\ s = "read" => out[m].provider = "read"
    BY <1>9, <1>10 DEF Applies, Ended
  <2>3. out[m].provider = "read" => out[m].status = "delivered"
    BY <1>1 DEF RowSound
  <2>4. RowSound(q, outcome[m], rd)
    BY <1>1, <1>2, <2>1, <2>2, <2>3, ReceiptRow
  <2>5. rd \in SUBSET Evidence
    BY <1>1
  <2> HIDE DEF q, rd
  <2>6. /\ out' \in [Messages -> Row] /\ outcome' \in [Messages -> [Tokens -> Outcomes]]
        /\ receipts' \in [Messages -> SUBSET Evidence]
        /\ RowsSound' /\ Stay /\ FinalStep
    BY <1>1, <1>3, <1>4, <2>1, <2>4, <2>5, OneRow
  <2>7. QED
    BY <2>1, <2>6 DEF WhatsAppStatus, TypeOK, Justified, Good
<1>11. CASE Applies(m, s)
  <2>1. q = changed /\ q.status = status /\ q.provider = s
    BY <1>6, <1>11
  <2>2. RowSound(q, outcome[m], rd)
    <3>1. \/ s = "sent" /\ out[m].status = "accepted" /\ q.status = "accepted"
          \/ s = "failed" /\ out[m].status = "accepted" /\ q.status = "failed"
          \/ s = "delivered" /\ out[m].status \in {"accepted", "failed"} /\ q.status = "delivered"
          \/ s = "read" /\ q.status = "delivered"
      BY <1>8, <1>11, <2>1 DEF Applies
    <3>2. QED
      BY <1>1, <1>2, <1>7, <2>1, <3>1, ReceiptRow
  <2>3. /\ rd \in SUBSET Evidence
        /\ s \in {"delivered", "read"} => rd \cap {"delivered", "read"} # {}
    BY <1>1
  <2>4. /\ out[m].status \in {"superseded", "delivered"} => q.status = out[m].status
        /\ \/ out[m].status # "failed"
           \/ q.status = "delivered" /\ rd \cap {"delivered", "read"} # {}
    BY <1>8, <1>9, <1>11, <2>1, <2>3 DEF Applies, Ended
  <2>5. /\ conv' \in Conversation /\ clock' \in Nat
        /\ \/ conv' = conv /\ s = "sent"
           \/ s = "failed" /\ conv' = handoff_failed_delivery(conv, o, m)
           \/ s \in {"delivered", "read"} /\ conv' = Delivered(conv, m)
    <3>1. Write(IF ~Applies(m, s) \/ s = "sent" THEN conv
                ELSE IF s = "failed" THEN handoff_failed_delivery(conv, o, m)
                ELSE Delivered(conv, m))
      BY DEF WhatsAppStatus, changed, status
    <3> HIDE DEF o
    <3>2. CASE s = "sent"
      BY <3>1, <3>2, Types, WriteTypes
    <3>3. CASE s = "failed"
      BY <1>11, <3>1, <3>3, ConversationTypes, WriteTypes
    <3>4. CASE s \in {"delivered", "read"}
      BY <1>11, <3>1, <3>4, ConversationTypes, WriteTypes
    <3>5. QED
      BY <3>2, <3>3, <3>4 DEF Evidence
  <2> HIDE DEF q, rd, o
  <2>6. /\ out' \in [Messages -> Row] /\ outcome' \in [Messages -> [Tokens -> Outcomes]]
        /\ receipts' \in [Messages -> SUBSET Evidence]
        /\ RowsSound' /\ Stay /\ FinalStep
    BY <1>1, <1>3, <1>4, <1>7, <2>2, <2>3, <2>4, OneRow
  <2>7. out'[m].status = status /\ out'[m].created = out[m].created
    BY <1>4, <1>7, <2>1, Types
  <2>8. Justified
    <3>1. CASE s = "sent"
      BY <2>5, <3>1 DEF Justified
    <3>2. CASE s = "failed"
      BY <2>5, <3>2, HandoffJustified
    <3>3. CASE s \in {"delivered", "read"}
      BY <1>8, <2>5, <2>7, <3>3, DeliveredJustified
    <3>4. QED
      BY <3>1, <3>2, <3>3 DEF Evidence
  <2>9. QED
    BY <2>5, <2>6, <2>8 DEF WhatsAppStatus, TypeOK, Good
<1>12. QED
  BY <1>10, <1>11
\* A claim gives up what ran out and leases the jobs.
LEMMA ClaimStep ==
  ASSUME IInv, NEW k \in Connectors, NEW scope, NEW jobs \in SUBSET Messages,
         Claim(k, scope, jobs)
  PROVE  Good
<1> USE DEF IInv
<1> DEFINE o == [m \in Messages |->
                   IF Unconfirmed(k, scope, m) THEN Ends(out[m], "failed", "failed")
                   ELSE IF Exhausted(k, scope, m) THEN Ends(out[m], "failed", out[m].provider)
                   ELSE IF m \in jobs THEN Leased(out[m], k)
                   ELSE out[m]]
<1>1. /\ out' = o /\ outcome' = outcome /\ receipts' = receipts
      /\ \A m \in jobs : Claimable(k, scope, m)
  BY DEF Claim
<1>2. \A m \in Messages :
        \/ Unconfirmed(k, scope, m) /\ out'[m] = Ends(out[m], "failed", "failed")
        \/ Exhausted(k, scope, m) /\ out'[m] = Ends(out[m], "failed", out[m].provider)
        \/ Claimable(k, scope, m) /\ out'[m] = Leased(out[m], k)
        \/ out'[m] = out[m]
  BY <1>1
<1>3. /\ conv' \in Conversation /\ clock' \in Nat
      /\ conv' = conv \/ \E m \in Messages : conv' = handoff_failed_delivery(conv, o, m)
  <2> HIDE DEF o
  <2>1. Write(conv) \/ \E m \in Messages : Write(handoff_failed_delivery(conv, o, m))
    BY DEF Claim, o
  <2>2. CASE Write(conv)
    BY <2>2, Types, WriteTypes
  <2>3. ASSUME NEW m \in Messages, Write(handoff_failed_delivery(conv, o, m))
        PROVE  /\ conv' \in Conversation /\ clock' \in Nat
               /\ conv' = handoff_failed_delivery(conv, o, m)
    BY <2>3, ConversationTypes, WriteTypes
  <2>4. QED
    BY <2>1, <2>2, <2>3
<1>4. ASSUME NEW m \in Messages
      PROVE  /\ out'[m] \in Row /\ RowSound(out'[m], outcome[m], receipts[m])
             /\ out'[m] = out[m] \/ out[m].status \in {"pending", "leased", "accepted"}
  <2>1. out[m] \in Row /\ outcome[m] \in OutcomesOf /\ receipts[m] \in SUBSET Evidence
        /\ RowSound(out[m], outcome[m], receipts[m])
    BY Types DEF RowsSound
  <2>2. CASE Unconfirmed(k, scope, m) /\ out'[m] = Ends(out[m], "failed", "failed")
    <3>1. out[m].status = "accepted"
      BY <2>2 DEF Unconfirmed
    <3>2. out[m].provider # "none"
      BY <2>1, <3>1 DEF RowSound
    <3>3. QED
      BY <2>1, <2>2, <3>1, <3>2, GivenUpRow
  <2>3. CASE Exhausted(k, scope, m) /\ out'[m] = Ends(out[m], "failed", out[m].provider)
    <3>1. out[m].status = "leased"
      BY <2>3 DEF Exhausted
    <3>2. QED
      BY <2>1, <2>3, <3>1, GivenUpRow
  <2>4. CASE Claimable(k, scope, m) /\ out'[m] = Leased(out[m], k)
    <3>1. out[m].status \in {"pending", "leased"} /\ out[m].attempts < MaxAttempts
      BY <2>4 DEF Claimable
    <3>2. QED
      BY <2>1, <2>4, <3>1, LeasedRow
  <2>5. CASE out'[m] = out[m]
    BY <2>1, <2>5
  <2>6. QED
    BY <1>2, <2>2, <2>3, <2>4, <2>5
<1>5. out' \in [Messages -> Row]
  <2>1. out' = [m \in Messages |-> out'[m]]
    BY <1>1
  <2>2. QED
    BY <1>4, <2>1
<1>6. RowsSound' /\ Stay /\ FinalStep
  BY <1>1, <1>4 DEF RowsSound, Stay, FinalStep
<1> HIDE DEF o
<1>7. Justified
  <2>1. CASE conv' = conv
    BY <2>1 DEF Justified
  <2>2. CASE \E m \in Messages : conv' = handoff_failed_delivery(conv, o, m)
    BY <2>2, HandoffJustified
  <2>3. QED
    BY <1>3, <2>1, <2>2
<1>8. TypeOK'
  BY <1>1, <1>3, <1>5 DEF Claim, TypeOK
<1>9. QED
  BY <1>6, <1>7, <1>8 DEF Good

\* Every step keeps the invariant and the final states.
LEMMA NextStep ==
  ASSUME IInv, Next
  PROVE  IInv' /\ FinalStep
<1>1. CASE Message
  BY <1>1, OutsideStep, MessageStep, QueueKept DEF Message, IInv, Good
<1>2. CASE Staff
  BY <1>2, OutsideStep, ConfigurationStep, QueueKept DEF Staff, IInv, Good
<1>3. CASE Connector
  BY <1>3, ClaimStep, CompletionStep, ReceiptStep, QueueKept DEF Connector, IInv, Good
<1>4. CASE Time
  BY <1>4, MessageStep, QueueKept DEF Time, IInv, Good
<1>5. QED
  BY <1>1, <1>2, <1>3, <1>4 DEF Next

LEMMA StutterStep ==
  ASSUME IInv, UNCHANGED vars
  PROVE  IInv' /\ FinalStep
BY DEF IInv, vars, TypeOK, RowsSound, QueueEvidence, FinalStep

LEMMA InitInv == Init => IInv
<1> SUFFICES ASSUME Init PROVE IInv
  OBVIOUS
<1>1. NoRow \in Row
  BY RoutesAssumption, BoundsAssumption DEF NoRow, Row, Provider
<1>2. TypeOK
  BY <1>1, RoutesAssumption
  DEF Init, TypeOK, Conversation, Owners, Queues, States, Outcomes
<1>3. RowsSound
  BY DEF Init, RowsSound, RowSound, NoRow
<1>4. QueueEvidence
  BY DEF Init, QueueEvidence
<1>5. QED
  BY <1>2, <1>3, <1>4 DEF IInv

-----------------------------------------------------------------------------
(* Theorems.                                                               *)

\* Inductive: rows, outcomes and receipts fit together in every reachable state.
THEOREM Inductive == Spec => []IInv
<1>1. IInv /\ [Next]_vars => IInv'
  BY NextStep, StutterStep
<1>2. QED
  BY <1>1, InitInv, PTL DEF Spec

\* TypeCorrect: every operation keeps every row within its type; in particular no
\* claim raises attempts above MAX_EXTERNAL_DELIVERY_ATTEMPTS.
THEOREM TypeCorrect == Spec => []TypeOK
<1>1. IInv => TypeOK
  BY DEF IInv
<1>2. QED
  BY <1>1, Inductive, PTL

\* OutcomeIsLast: a success or final failure recorded by
\* complete_airhop_external_message is the last thing done with its message.
THEOREM OutcomeIsLast == Spec => []LastOutcome
<1>1. IInv => LastOutcome
  BY DEF IInv, RowsSound, RowSound, LastOutcome
<1>2. QED
  BY <1>1, Inductive, PTL

\* EvidenceDecides: whatever the order of completions, receipts and time limits,
\* a message is delivered exactly when there is evidence of it.
THEOREM EvidenceDecides == Spec => []DeliveryEvidence
<1>1. IInv => DeliveryEvidence
  BY DEF IInv, RowsSound, RowSound, DeliveryEvidence
<1>2. QED
  BY <1>1, Inductive, PTL

\* QueueJustified: the system moves a conversation to waiting_parent only on a
\* delivered message written after the last inbound.
THEOREM QueueJustified == Spec => []QueueEvidence
<1>1. IInv => QueueEvidence
  BY DEF IInv
<1>2. QED
  BY <1>1, Inductive, PTL

\* FinalForever: superseded and delivered messages stay so; a failed one changes
\* only when record_airhop_whatsapp_status has a receipt of its delivery.
THEOREM FinalForever == Spec => FinalStays
<1>1. IInv /\ [Next]_vars => [FinalStep]_vars
  BY NextStep
<1>2. QED
  BY <1>1, Inductive, PTL DEF Spec, FinalStays
=============================================================================
