----------------------- MODULE HermesConversation_proofs -----------------------
(***************************************************************************)
(* Proofs about HermesConversation, for any sets of messages and batches    *)
(* and any bounds.                                                          *)
(***************************************************************************)
EXTENDS HermesConversation, TLAPS

\* The columns of a turn receipt that closing it leaves alone.
SameReceipt(r, q) ==
  /\ r.cycle = q.cycle /\ r.batch = q.batch /\ r.source = q.source
  /\ r.channel = q.channel /\ r.attempt = q.attempt /\ r.fence = q.fence
  /\ r.by = q.by /\ r.replyVersion = q.replyVersion

\* The statuses and errors a turn may end with.
Outcomes == {"completed", "failed", "cancelled"}
Errors   == {"none", "no_reply", "other"}

\* ClosedFacts: Closed changes a turn receipt's status, error and expiry only.
LEMMA ClosedFacts ==
  ASSUME NEW r \in Turn, NEW st \in {"cancelled", "failed"}
  PROVE  /\ Closed(r, st, "other") \in Turn
         /\ Closed(r, st, "other").status = st
         /\ SameReceipt(Closed(r, st, "other"), r)
  BY DEF Closed, Turn, SameReceipt

\* CancelFacts: cancel_active_turns leaves no turn leased, and of a turn that was
\* leased it changes the status, error and expiry only.
LEMMA CancelFacts ==
  ASSUME NEW ts \in [Turns -> Turn]
  PROVE  /\ cancel_active_turns(ts) \in [Turns -> Turn]
         /\ \A t \in Turns : /\ cancel_active_turns(ts)[t].status # "leased"
                             /\ SameReceipt(cancel_active_turns(ts)[t], ts[t])
                             /\ ts[t].status # "leased" => cancel_active_turns(ts)[t] = ts[t]
                             /\ ts[t].status = "leased"
                                => cancel_active_turns(ts)[t].status = "cancelled"
  <1> DEFINE c(t) == Closed(ts[t], "cancelled", "other")
  <1>1. \A t \in Turns : c(t) \in Turn /\ c(t).status = "cancelled" /\ SameReceipt(c(t), ts[t])
    BY ClosedFacts
  <1>2. \A t \in Turns : SameReceipt(ts[t], ts[t])
    BY DEF SameReceipt
  <1> HIDE DEF c
  <1>3. cancel_active_turns(ts) = [t \in Turns |-> IF ts[t].status = "leased" THEN c(t) ELSE ts[t]]
    BY DEF cancel_active_turns, c
  <1>4. QED
    BY <1>1, <1>2, <1>3

\* FailExpiredFacts: FailExpired touches only expired leases of other turns.
LEMMA FailExpiredFacts ==
  ASSUME NEW ts \in [Turns -> Turn], NEW self
  PROVE  /\ FailExpired(ts, self) \in [Turns -> Turn]
         /\ \A t \in Turns :
              /\ SameReceipt(FailExpired(ts, self)[t], ts[t])
              /\ (t # self /\ ts[t].status = "leased" /\ ts[t].expired)
                 => FailExpired(ts, self)[t].status = "failed"
              /\ ~(t # self /\ ts[t].status = "leased" /\ ts[t].expired)
                 => FailExpired(ts, self)[t] = ts[t]
  <1> DEFINE c(t) == Closed(ts[t], "failed", "other")
             cond(t) == t # self /\ ts[t].status = "leased" /\ ts[t].expired
  <1>1. \A t \in Turns : c(t) \in Turn /\ c(t).status = "failed" /\ SameReceipt(c(t), ts[t])
    BY ClosedFacts
  <1>2. \A t \in Turns : SameReceipt(ts[t], ts[t])
    BY DEF SameReceipt
  <1>3. FailExpired(ts, self) = [t \in Turns |-> IF cond(t) THEN c(t) ELSE ts[t]]
    BY DEF FailExpired
  <1> HIDE DEF c, cond
  <1>4. /\ FailExpired(ts, self) \in [Turns -> Turn]
        /\ \A t \in Turns : /\ SameReceipt(FailExpired(ts, self)[t], ts[t])
                            /\ cond(t) => FailExpired(ts, self)[t].status = "failed"
                            /\ ~cond(t) => FailExpired(ts, self)[t] = ts[t]
    BY <1>1, <1>2, <1>3
  <1>5. QED
    BY <1>4 DEF cond

\* RotatedFacts: a rotated lease keeps the scope of its turn receipt.
LEMMA RotatedFacts ==
  ASSUME NEW r \in Turn, conv \in Conversation
  PROVE  /\ Rotated(r) \in Turn
         /\ Rotated(r).status = "leased" /\ Rotated(r).fence = conv.version
         /\ Rotated(r).cycle = r.cycle /\ Rotated(r).batch = r.batch
         /\ Rotated(r).source = r.source /\ Rotated(r).channel = r.channel
         /\ Rotated(r).replyVersion = r.replyVersion
  <1>1. r.attempt + 1 \in Nat /\ conv.version \in Nat
    BY DEF Turn, Conversation
  <1>2. QED
    BY <1>1 DEF Rotated, Turn

\* FinishedFacts: finishing a turn changes its status, its error and who ended it.
LEMMA FinishedFacts ==
  ASSUME NEW r \in Turn, NEW k \in Nat,
         NEW st \in Outcomes,
         NEW er \in Errors
  PROVE  /\ Finished(r, st, er, k) \in Turn
         /\ Finished(r, st, er, k).status = st
         /\ Finished(r, st, er, k).cycle = r.cycle /\ Finished(r, st, er, k).batch = r.batch
         /\ Finished(r, st, er, k).source = r.source /\ Finished(r, st, er, k).fence = r.fence
         /\ Finished(r, st, er, k).channel = r.channel
         /\ Finished(r, st, er, k).replyVersion = r.replyVersion
  BY DEF Finished, Turn, Outcomes, Errors

\* RepliedFacts: a committed reply stores the version of the conversation.
LEMMA RepliedFacts ==
  ASSUME NEW r \in Turn, conv \in Conversation, NEW k \in Nat
  PROVE  /\ Replied(r, k) \in Turn
         /\ Replied(r, k).status = "completed" /\ Replied(r, k).by = k
         /\ Replied(r, k).cycle = r.cycle /\ Replied(r, k).batch = r.batch
         /\ Replied(r, k).source = r.source /\ Replied(r, k).fence = r.fence
         /\ Replied(r, k).attempt = r.attempt /\ Replied(r, k).channel = r.channel
         /\ Replied(r, k).replyVersion = conv.version
  <1>1. conv.version \in Nat
    BY DEF Conversation
  <1>2. QED
    BY <1>1 DEF Replied, Turn

\* NewTurnFacts: the receipt that a new batch gets.
LEMMA NewTurnFacts ==
  ASSUME conv \in Conversation, NEW b \in Batches, NEW e \in Events
  PROVE  /\ NewTurn(b, e) \in Turn
         /\ NewTurn(b, e).status = "leased" /\ NewTurn(b, e).cycle = conv.cycle
         /\ NewTurn(b, e).batch = b /\ NewTurn(b, e).source = e
         /\ NewTurn(b, e).channel = conv.channel /\ NewTurn(b, e).fence = conv.version
         /\ NewTurn(b, e).replyVersion = 0
  BY DEF NewTurn, FreeTurn, Turn, Conversation, Channels

\* TakenOverFacts: a takeover raises the version and keeps the cycle.
LEMMA TakenOverFacts ==
  ASSUME conv \in Conversation, NEW reason \in Endings
  PROVE  /\ TakenOver(conv, reason) \in Conversation
         /\ TakenOver(conv, reason).owner = "human" /\ TakenOver(conv, reason).paused = TRUE
         /\ TakenOver(conv, reason).version = conv.version + 1
         /\ TakenOver(conv, reason).cycle = conv.cycle
  <1>1. conv.version \in Nat /\ conv.ended \in Endings /\ conv.version + 1 \in Nat
    BY DEF Conversation
  <1>2. QED
    BY <1>1 DEF TakenOver, Conversation, Owners

\* ResumedFacts: a resume raises the version and opens the next cycle.
LEMMA ResumedFacts ==
  ASSUME conv \in Conversation
  PROVE  /\ Resumed(conv) \in Conversation
         /\ Resumed(conv).owner = "hermes" /\ Resumed(conv).paused = FALSE
         /\ Resumed(conv).ended = "open"
         /\ Resumed(conv).version = conv.version + 1 /\ Resumed(conv).cycle = conv.cycle + 1
  <1>1. /\ conv.version \in Nat /\ conv.cycle \in Nat
        /\ conv.version + 1 \in Nat /\ conv.cycle + 1 \in Nat
    BY DEF Conversation
  <1>2. QED
    BY <1>1 DEF Resumed, Conversation, Owners, Endings

\* RowFacts: the other commands change the columns they name and the version.
LEMMA RowFacts ==
  ASSUME conv \in Conversation
  PROVE  /\ \A q \in Queues : /\ [conv EXCEPT !.queue = q] \in Conversation
                               /\ [conv EXCEPT !.queue = q, !.version = @ + 1] \in Conversation
         /\ [conv EXCEPT !.channel = "thread", !.version = @ + 1] \in Conversation
         /\ [conv EXCEPT !.bound = TRUE, !.version = @ + 1] \in Conversation
         /\ [conv EXCEPT !.bound = TRUE] \in Conversation
  <1>1. conv.version \in Nat /\ conv.version + 1 \in Nat
    BY DEF Conversation
  <1>2. ASSUME NEW q \in Queues
        PROVE  /\ [conv EXCEPT !.queue = q] \in Conversation
               /\ [conv EXCEPT !.queue = q, !.version = @ + 1] \in Conversation
    BY <1>1 DEF Conversation
  <1>3. /\ [conv EXCEPT !.channel = "thread", !.version = @ + 1] \in Conversation
        /\ [conv EXCEPT !.bound = TRUE, !.version = @ + 1] \in Conversation
        /\ [conv EXCEPT !.bound = TRUE] \in Conversation
    BY <1>1 DEF Conversation, Channels
  <1>4. QED
    BY <1>2, <1>3

\* InboundFacts: a parent message reopens a resolved conversation, or keeps the cycle.
LEMMA InboundFacts ==
  ASSUME conv \in Conversation
  PROVE  LET c == record_inbound(conv) IN
         /\ c \in Conversation /\ c.owner = conv.owner /\ c.paused = conv.paused
         /\ c.channel = conv.channel
         /\ \/ c.cycle = conv.cycle /\ c.version = conv.version /\ c.ended = conv.ended
            \/ c.cycle = conv.cycle + 1 /\ c.version = conv.version + 1 /\ c.ended = "open"
  <1>1. CASE conv.queue = "resolved"
    <2> DEFINE d == [conv EXCEPT !.cycle = @ + 1, !.ended = "open", !.version = @ + 1]
    <2>0. /\ conv.version \in Nat /\ conv.cycle \in Nat
          /\ conv.version + 1 \in Nat /\ conv.cycle + 1 \in Nat
      BY DEF Conversation
    <2>1. d \in Conversation /\ d.owner = conv.owner /\ d.paused = conv.paused
          /\ d.channel = conv.channel /\ d.cycle = conv.cycle + 1
          /\ d.version = conv.version + 1 /\ d.ended = "open"
      BY <2>0 DEF Conversation, Endings
    <2>2. record_inbound(conv) = [d EXCEPT !.queue = "waiting_staff"]
      BY <1>1 DEF record_inbound
    <2> HIDE DEF d
    <2>3. QED
      BY <2>1, <2>2 DEF Conversation, Queues
  <1>2. CASE conv.queue # "resolved"
    <2>1. record_inbound(conv) = [conv EXCEPT !.queue = "waiting_staff"]
      BY <1>2 DEF record_inbound
    <2>2. QED
      BY <2>1 DEF Conversation, Queues
  <1>3. QED
    BY <1>1, <1>2

-----------------------------------------------------------------------------
(* Type correctness.                                                       *)

\* TypeStep: every operation keeps every row within its type.
LEMMA TypeStep == TypeOK /\ [Next]_vars => TypeOK'
  <1> SUFFICES ASSUME TypeOK, [Next]_vars PROVE TypeOK'
    OBVIOUS
  <1> USE DEF TypeOK
  <1>0. /\ conv.cycle \in Nat /\ conv.version \in Nat /\ conv.channel \in Channels
        /\ conv.cycle + 1 \in Nat /\ conv.version + 1 \in Nat /\ clock + 1 \in Nat
    BY DEF Conversation
  <1>c. cancel_active_turns(turn) \in [Turns -> Turn]
    BY CancelFacts
  <1>r. ResumeReceipt \in Receipt /\ [ResumeReceipt EXCEPT !.reason = "hermes_owns_conversation"] \in Receipt
    BY <1>0 DEF ResumeReceipt, Receipt, Reasons
  <1>e. ASSUME NEW e \in Events, Receive(e)
        PROVE  event' \in [Events -> [at : Nat, channel : Channels]] /\ clock' \in Nat
    BY <1>e, <1>0 DEF Receive
  <1>p. Endings = {"open", "human_takeover", "staff_pause", "hermes_handoff"}
    BY DEF Endings
  <1>t. ASSUME NEW reason \in Endings, take_over(reason)
        PROVE  conv' \in Conversation /\ turn' \in [Turns -> Turn]
    BY <1>t, <1>c, TakenOverFacts DEF take_over
  <1>s. StaffEvents \subseteq Events /\ ParentEvents \subseteq Events
    BY DEF Events
  <1>1. ASSUME NEW e \in ParentEvents, InboundParent(e) PROVE TypeOK'
    <2>1. record_inbound(conv) \in Conversation
      BY InboundFacts
    <2>2. record_inbound(conv).cycle \in Nat /\ record_inbound(conv).version \in Nat
      BY <2>1 DEF Conversation
    <2>3. receipt' \in [Events -> Receipt]
      BY <1>1, <1>s, <2>2 DEF InboundParent, Receipt, Reasons
    <2>4. QED
      BY <1>1, <1>s, <1>e, <2>1, <2>3 DEF InboundParent
  <1>2. ASSUME NEW e \in StaffEvents, StaffReply(e) PROVE TypeOK'
    BY <1>2, <1>s, <1>e, <1>t, <1>p DEF StaffReply
  <1>3. ASSUME NEW e \in StaffEvents, StaffPause(e) PROVE TypeOK'
    BY <1>3, <1>s, <1>e, <1>t, <1>p DEF StaffPause
  <1>4. ASSUME NEW e \in StaffEvents, StaffResume(e) PROVE TypeOK'
    BY <1>4, <1>s, <1>e, <1>c, <1>r, ResumedFacts DEF StaffResume
  <1>5. ASSUME NEW e \in StaffEvents, StaffAsk(e) PROVE TypeOK'
    <2>1. receipt' \in [Events -> Receipt]
      BY <1>5, <1>0, <1>s DEF StaffAsk, Receipt, Reasons
    <2>2. QED
      BY <1>5, <1>s, <1>e, <2>1 DEF StaffAsk
  <1>6. ASSUME NEW e \in StaffEvents, StaffNote(e) PROVE TypeOK'
    BY <1>6, <1>s, <1>e DEF StaffNote
  <1>7. ASSUME NEW e \in StaffEvents, ResolveResume(e) PROVE TypeOK'
    BY <1>7, <1>c, <1>r, ResumedFacts DEF ResolveResume
  <1>8. ASSUME NEW e \in StaffEvents, ResolvePause(e) PROVE TypeOK'
    <2>1. receipt' \in [Events -> Receipt]
      BY <1>8, <1>s DEF ResolvePause, Receipt, Reasons
    <2>2. QED
      BY <1>8, <1>t, <1>p, <2>1 DEF ResolvePause
  <1>9. ASSUME NEW e \in StaffEvents, ResolveOther(e) PROVE TypeOK'
    <2>1. receipt' \in [Events -> Receipt]
      BY <1>9, <1>s DEF ResolveOther, Receipt, Reasons
    <2>2. QED
      BY <1>9, <2>1 DEF ResolveOther
  <1>10. ASSUME NEW q \in Queues, SetStatus(q) PROVE TypeOK'
    BY <1>10, <1>c, RowFacts DEF SetStatus
  <1>11. ASSUME AssignBranch PROVE TypeOK'
    BY <1>11, RowFacts DEF AssignBranch, Queues
  <1>12. ASSUME MigrateLegacy PROVE TypeOK'
    BY <1>12, <1>c, RowFacts DEF MigrateLegacy
  <1>13. ASSUME BindByHandoff PROVE TypeOK'
    BY <1>13, <1>c, RowFacts DEF BindByHandoff
  <1>14. ASSUME NEW live \in BOOLEAN, PutDeployment(live) PROVE TypeOK'
    <2>1. config.version + 1 \in Nat /\ config.link \in Links
      OBVIOUS
    <2>2. config' = [live |-> live, link |-> config.link, version |-> config.version + 1]
      BY <1>14 DEF PutDeployment
    <2>3. QED
      BY <1>14, <1>c, <2>1, <2>2 DEF PutDeployment
  <1>15. ASSUME NEW l \in Links, PutLink(l) PROVE TypeOK'
    <2>1. config.version + 1 \in Nat /\ config.live \in BOOLEAN
      OBVIOUS
    <2>2. config' = [live |-> config.live, link |-> l, version |-> config.version + 1]
      BY <1>15 DEF PutLink
    <2>3. QED
      BY <1>15, <2>1, <2>2 DEF PutLink
  <1>16. ASSUME NEW t \in Turns, NEW b \in Batches, NEW e \in Events, LeaseNew(t, b, e)
         PROVE TypeOK'
    BY <1>16, FailExpiredFacts, NewTurnFacts DEF LeaseNew
  <1>17. ASSUME NEW t \in Turns, LeaseAgain(t) PROVE TypeOK'
    <2>1. Rotated(turn[t]) \in Turn
      BY RotatedFacts
    <2>2. QED
      BY <1>17, <2>1, FailExpiredFacts DEF LeaseAgain
  <1>18. ASSUME NEW t \in Turns, LeaseExpires(t) PROVE TypeOK'
    <2>0. turn[t] \in Turn
      OBVIOUS
    <2>1. [turn[t] EXCEPT !.expired = TRUE] \in Turn
      BY <2>0 DEF Turn
    <2>2. turn' \in [Turns -> Turn]
      BY <1>18, <2>1 DEF LeaseExpires
    <2>3. QED
      BY <1>18, <2>2 DEF LeaseExpires
  <1>19. ASSUME NEW t \in Turns, BindByBooking(t) PROVE TypeOK'
    BY <1>19, RowFacts DEF BindByBooking
  <1>20. ASSUME NEW t \in Turns, NEW k \in 1..MaxAttempt, NEW n \in Parts,
                NEW handoff \in BOOLEAN, CommitReply(t, k, n, handoff)
         PROVE TypeOK'
    <2> DEFINE done == [turn EXCEPT ![t] = Replied(turn[t], k)]
    <2>0. k \in Nat
      BY BoundsAssumption
    <2>1. Replied(turn[t], k) \in Turn
      BY <2>0, RepliedFacts
    <2>2. done \in [Turns -> Turn]
      BY <2>1
    <2> HIDE DEF done
    <2>3. turn' \in [Turns -> Turn]
      BY <1>20, <2>2, CancelFacts DEF CommitReply, done
    <2>4. conv' \in Conversation
      BY <1>20, <1>p, TakenOverFacts DEF CommitReply
    <2>5. intent' \in [Turns -> [Parts -> Intent]]
      BY <1>20 DEF CommitReply, Intent
    <2>6. QED
      BY <1>20, <2>3, <2>4, <2>5 DEF CommitReply
  <1>21. ASSUME NEW t \in Turns, NEW k \in 1..MaxAttempt,
                NEW how \in {"completed", "no_reply", "failed", "cancelled"},
                NEW delivered \in BOOLEAN, FinishTurn(t, k, how, delivered)
         PROVE TypeOK'
    <2>0. k \in Nat
      BY BoundsAssumption
    <2>1. \E st \in Outcomes, er \in Errors :
             turn' = [turn EXCEPT ![t] = Finished(turn[t], st, er, k)]
      BY <1>21 DEF FinishTurn, Outcomes, Errors
    <2>2. PICK st \in Outcomes, er \in Errors :
             turn' = [turn EXCEPT ![t] = Finished(turn[t], st, er, k)]
      BY <2>1
    <2>3. turn[t] \in Turn /\ conv \in Conversation
      OBVIOUS
    <2>4. Finished(turn[t], st, er, k) \in Turn
      BY <2>0, <2>2, <2>3, FinishedFacts
    <2>5. turn' \in [Turns -> Turn]
      BY <2>2, <2>4
    <2>6. QED
      BY <1>21, <2>5 DEF FinishTurn
  <1>22. ASSUME NEW t \in Turns, NEW p \in Parts, PublishIntent(t, p) PROVE TypeOK'
    <2>0. intent[t][p] \in Intent
      OBVIOUS
    <2>1. [intent[t][p] EXCEPT !.status = "published"] \in Intent
      BY <2>0 DEF Intent
    <2>2. intent' = [intent EXCEPT ![t] = [intent[t] EXCEPT ![p] =
                       [intent[t][p] EXCEPT !.status = "published"]]]
      BY <1>22 DEF PublishIntent
    <2>3. intent' \in [Turns -> [Parts -> Intent]]
      BY <2>1, <2>2
    <2>4. QED
      BY <1>22, <2>3 DEF PublishIntent
  <1>23. ASSUME NEW t \in Turns, NEW p \in Parts, PublicationFails(t, p) PROVE TypeOK'
    <2>1. intent[t][p].attempts + 1 \in Nat
      BY DEF Intent
    <2>2. intent' \in [Turns -> [Parts -> Intent]]
      BY <1>23, <2>1 DEF PublicationFails, Intent
    <2>3. QED
      BY <1>23, <2>2 DEF PublicationFails
  <1>24. CASE UNCHANGED vars
    BY <1>24 DEF vars
  <1>25. QED
    BY <1>1, <1>2, <1>3, <1>4, <1>5, <1>6, <1>7, <1>8, <1>9, <1>10, <1>11, <1>12, <1>13,
       <1>14, <1>15, <1>16, <1>17, <1>18, <1>19, <1>20, <1>21, <1>22, <1>23, <1>24
       DEF Next, Message, Command, Runtime, Publication

\* TypeInit: the initial rows have their types.
LEMMA TypeInit == Init => TypeOK
  BY FirstAssumption, EventsAssumption
     DEF Init, TypeOK, Conversation, Owners, Queues, Channels, Endings, Links, NoReceipt, Receipt,
         Reasons, FreeTurn, Turn, NoIntent, Intent

\* TypeCorrect: TypeOK is an invariant: no sequence of messages, commands, leases
\* and publications stores a value outside the columns' domains.
THEOREM TypeCorrect == Spec => []TypeOK
  BY TypeInit, TypeStep, PTL DEF Spec

-----------------------------------------------------------------------------
(* The inductive invariant.                                                *)

\* What a step leaves of the scope of the turn receipts.
KeepsScope ==
  \A t \in Turns : /\ turn'[t].status # "free" => turn[t].status # "free"
                   /\ turn'[t].cycle = turn[t].cycle /\ turn'[t].batch = turn[t].batch
                   /\ turn'[t].source = turn[t].source /\ turn'[t].fence = turn[t].fence
                   /\ turn'[t].channel = turn[t].channel

\* What a step leaves of the events already received.
KeepsReceived ==
  \A f \in Events : event[f].at # 0 =>
    /\ event'[f] = event[f]
    /\ receipt'[f].decision = receipt[f].decision
    /\ receipt'[f].cycle = receipt[f].cycle /\ receipt'[f].version = receipt[f].version

\* Fields: the column types that the arithmetic below needs.
LEMMA Fields ==
  ASSUME TypeOK
  PROVE  /\ conv.version \in Nat /\ conv.cycle \in Nat /\ clock \in Nat
         /\ \A t \in Turns : /\ turn[t].cycle \in Nat /\ turn[t].fence \in Nat
                             /\ turn[t].replyVersion \in Nat /\ turn[t].batch \subseteq Events
         /\ \A e \in Events : /\ event[e].at \in Nat
                              /\ receipt[e].version \in Nat /\ receipt[e].cycle \in Nat
  <1>1. conv.version \in Nat /\ conv.cycle \in Nat /\ clock \in Nat
    BY DEF TypeOK, Conversation
  <1>2. ASSUME NEW t \in Turns
        PROVE  /\ turn[t].cycle \in Nat /\ turn[t].fence \in Nat
               /\ turn[t].replyVersion \in Nat /\ turn[t].batch \subseteq Events
    <2>1. turn[t] \in Turn
      BY DEF TypeOK
    <2>2. turn[t].batch \in Batches \cup {{}} /\ turn[t].cycle \in Nat /\ turn[t].fence \in Nat
          /\ turn[t].replyVersion \in Nat
      BY <2>1 DEF Turn
    <2>3. QED
      BY <2>2, EventsAssumption DEF Events
  <1>3. ASSUME NEW e \in Events
        PROVE  event[e].at \in Nat /\ receipt[e].version \in Nat /\ receipt[e].cycle \in Nat
    BY DEF TypeOK, Receipt
  <1>4. QED
    BY <1>1, <1>2, <1>3

\* ScopeStep: a step that keeps the scope of the turns, and either opens a new cycle
\* or keeps what is stored for received events, keeps TurnScope.
LEMMA ScopeStep ==
  ASSUME TypeOK, StoredNotAhead, TurnScope, KeepsScope,
         \/ conv'.cycle = conv.cycle + 1
         \/ conv'.cycle = conv.cycle /\ KeepsReceived
  PROVE  TurnScope'
  <1>1. SUFFICES ASSUME NEW t \in Turns, turn'[t].status # "free", turn'[t].cycle = conv'.cycle
                 PROVE  LET s == turn'[t].source IN
                        /\ s \in turn'[t].batch /\ event'[s].channel = turn'[t].channel
                        /\ receipt'[s].decision = "trigger" /\ receipt'[s].cycle = conv'.cycle
                        /\ receipt'[s].version = turn'[t].fence
                        /\ \A f \in turn'[t].batch :
                             /\ event'[f].at # 0
                             /\ receipt'[f].version <= turn'[t].fence
                             /\ receipt'[f].decision = "trigger" /\ receipt'[f].cycle = conv'.cycle
                                /\ receipt'[f].version = turn'[t].fence
                                => event'[f].at <= event'[s].at
    BY DEF TurnScope
  <1>2. conv.cycle \in Nat /\ turn[t].cycle \in Nat /\ turn[t].batch \subseteq Events
    BY Fields
  <1>3. turn[t].cycle <= conv.cycle
    BY DEF StoredNotAhead
  <1>4. conv'.cycle = conv.cycle /\ KeepsReceived
    BY <1>1, <1>2, <1>3 DEF KeepsScope
  <1>5. turn[t].status # "free" /\ turn[t].cycle = conv.cycle
    BY <1>1, <1>4 DEF KeepsScope
  <1>6. /\ turn'[t].batch = turn[t].batch /\ turn'[t].source = turn[t].source
        /\ turn'[t].fence = turn[t].fence /\ turn'[t].channel = turn[t].channel
    BY DEF KeepsScope
  <1> DEFINE s == turn[t].source
  <1>7. /\ s \in turn[t].batch /\ event[s].channel = turn[t].channel
        /\ receipt[s].decision = "trigger" /\ receipt[s].cycle = conv.cycle
        /\ receipt[s].version = turn[t].fence
        /\ \A f \in turn[t].batch :
             /\ event[f].at # 0
             /\ receipt[f].version <= turn[t].fence
             /\ receipt[f].decision = "trigger" /\ receipt[f].cycle = conv.cycle
                /\ receipt[f].version = turn[t].fence
                => event[f].at <= event[s].at
    BY <1>5 DEF TurnScope
  <1>8. \A f \in turn[t].batch :
           /\ event'[f] = event[f]
           /\ receipt'[f].decision = receipt[f].decision
           /\ receipt'[f].cycle = receipt[f].cycle /\ receipt'[f].version = receipt[f].version
    BY <1>2, <1>4, <1>7 DEF KeepsReceived
  <1>9. QED
    BY <1>4, <1>6, <1>7, <1>8

\* ReceiveStep: a received event is the newest one.
LEMMA ReceiveStep ==
  ASSUME TypeOK, ReceivedOrder, NEW e \in Events, Receive(e),
         \A f \in Events : f # e => receipt'[f] = receipt[f]
  PROVE  /\ ReceivedOrder' /\ KeepsReceived
         /\ event'[e].at = clock + 1 /\ clock' = clock + 1
  <1>1. clock \in Nat /\ \A f \in Events : event[f].at \in Nat
    BY Fields
  <1>2. /\ event[e].at = 0 /\ clock' = clock + 1
        /\ event'[e].at = clock + 1
        /\ \A f \in Events : f # e => event'[f] = event[f]
    BY DEF Receive, TypeOK
  <1>3. KeepsReceived
    BY <1>2 DEF KeepsReceived
  <1>4. ReceivedOrder'
    <2>1. \A f \in Events : event'[f].at <= clock'
      BY <1>1, <1>2 DEF ReceivedOrder
    <2>2. \A f \in Events : receipt'[f] # NoReceipt => event'[f].at # 0
      BY <1>1, <1>2 DEF ReceivedOrder
    <2>3. \A f, g \in Events : event'[f].at # 0 /\ event'[f].at = event'[g].at => f = g
      <3>1. \A f \in Events : f # e => event'[f].at <= clock
        BY <1>2 DEF ReceivedOrder
      <3>2. \A f \in Events : f # e => event'[f].at # event'[e].at
        BY <1>1, <1>2, <3>1
      <3>3. QED
        BY <1>2, <3>2 DEF ReceivedOrder
    <2>4. QED
      BY <2>1, <2>2, <2>3 DEF ReceivedOrder
  <1>5. QED
    BY <1>2, <1>3, <1>4

\* CancelStep: a step that cancels the active turns keeps every statement about leases
\* and replies, whatever it does to the conversation row.
LEMMA CancelStep ==
  ASSUME TypeOK, ReplyFence, turn' = cancel_active_turns(turn)
  PROVE  SingleLease' /\ LeaseFence' /\ ReplyFence' /\ KeepsScope
  <1>1. turn \in [Turns -> Turn]
    BY DEF TypeOK
  <1>2. \A t \in Turns : /\ turn'[t].status # "leased"
                         /\ SameReceipt(turn'[t], turn[t])
                         /\ turn[t].status # "leased" => turn'[t] = turn[t]
                         /\ turn[t].status = "leased" => turn'[t].status = "cancelled"
    BY <1>1, CancelFacts
  <1>3. SingleLease' /\ LeaseFence'
    BY <1>2 DEF SingleLease, LeaseFence
  <1>4. ReplyFence'
    BY <1>2 DEF ReplyFence, SameReceipt
  <1>5. KeepsScope
    BY <1>2 DEF KeepsScope, SameReceipt
  <1>6. QED
    BY <1>3, <1>4, <1>5

\* StoredStep: what is stored stays behind a conversation row that only moves on.
LEMMA StoredStep ==
  ASSUME TypeOK, TypeOK', StoredNotAhead, KeepsScope,
         conv'.version >= conv.version, conv'.cycle >= conv.cycle,
         \A e \in Events : \/ receipt'[e].version = receipt[e].version
                              /\ receipt'[e].cycle = receipt[e].cycle
                           \/ receipt'[e].version = conv'.version
                              /\ receipt'[e].cycle = conv'.cycle
  PROVE  StoredNotAhead'
  <1>1. /\ conv.version \in Nat /\ conv.cycle \in Nat
        /\ conv'.version \in Nat /\ conv'.cycle \in Nat
    BY DEF TypeOK, Conversation
  <1>2. \A t \in Turns : turn[t].cycle \in Nat /\ turn[t].fence \in Nat
    BY Fields
  <1>3. \A e \in Events : receipt[e].version \in Nat /\ receipt[e].cycle \in Nat
    BY Fields
  <1>4. \A t \in Turns : turn'[t].fence <= conv'.version /\ turn'[t].cycle <= conv'.cycle
    BY <1>1, <1>2 DEF StoredNotAhead, KeepsScope
  <1>5. \A e \in Events : receipt'[e].version <= conv'.version /\ receipt'[e].cycle <= conv'.cycle
    BY <1>1, <1>3 DEF StoredNotAhead
  <1>6. QED
    BY <1>1, <1>4, <1>5 DEF StoredNotAhead

\* FenceStep: a step that keeps the turns, and either opens a new cycle or keeps owner,
\* version and channel, keeps the fence of a running lease.
LEMMA FenceStep ==
  ASSUME TypeOK, StoredNotAhead, ReceivedOrder, TurnScope, LeaseFence, turn' = turn,
         \/ conv'.cycle = conv.cycle + 1
         \/ /\ conv'.cycle = conv.cycle /\ conv'.version = conv.version
            /\ conv'.owner = conv.owner /\ conv'.paused = conv.paused
            /\ conv'.channel = conv.channel /\ KeepsReceived
  PROVE  LeaseFence'
  <1>1. SUFFICES ASSUME NEW t \in Turns, turn[t].status = "leased", turn[t].cycle = conv'.cycle
                 PROVE  /\ HermesOwns' /\ turn[t].fence = conv'.version
                        /\ turn[t].channel = conv'.channel
                        /\ receipt'[turn[t].source].decision = "trigger"
                        /\ receipt'[turn[t].source].cycle = conv'.cycle
                        /\ receipt'[turn[t].source].version = conv'.version
    BY DEF LeaseFence, CurrentTrigger
  <1>2. conv.cycle \in Nat /\ turn[t].cycle \in Nat /\ turn[t].batch \subseteq Events
    BY Fields
  <1>3. turn[t].cycle <= conv.cycle
    BY DEF StoredNotAhead
  <1>4. conv'.cycle # conv.cycle + 1
    BY <1>1, <1>2, <1>3
  <1>5. turn[t].cycle = conv.cycle /\ KeepsReceived
    BY <1>1, <1>4
  <1>6. /\ HermesOwns /\ turn[t].fence = conv.version /\ turn[t].channel = conv.channel
        /\ CurrentTrigger(turn[t].source)
    BY <1>1, <1>5 DEF LeaseFence
  <1>7. turn[t].source \in turn[t].batch
    BY <1>1, <1>5 DEF TurnScope
  <1>8. event[turn[t].source].at # 0
    BY <1>2, <1>6, <1>7 DEF ReceivedOrder, CurrentTrigger, NoReceipt
  <1>9. QED
    BY <1>2, <1>4, <1>5, <1>6, <1>7, <1>8 DEF KeepsReceived, CurrentTrigger, HermesOwns

\* LeaseStep: granting turn t a lease under the present version, after failing the
\* expired ones, keeps the invariant.  Both ways to claim a batch are such steps.
LEMMA LeaseStep ==
  ASSUME IInv, TypeOK', NEW t \in Turns, NEW r \in Turn,
         turn' = [FailExpired(turn, t) EXCEPT ![t] = r],
         UNCHANGED <<conv, config, event, clock, receipt, intent, humanSince>>,
         ~OtherLive(t), BatchRoute(r.batch, r.source), r.batch \subseteq Events,
         r.status = "leased", r.cycle = conv.cycle, r.fence = conv.version,
         r.channel = conv.channel, r.replyVersion = 0
  PROVE  IInv'
  <1> USE DEF IInv
  <1>1. turn \in [Turns -> Turn] /\ Turns = DOMAIN turn
    BY DEF TypeOK
  <1>2. turn'[t] = r
    BY <1>1, FailExpiredFacts
  <1>3. ASSUME NEW u \in Turns, u # t
        PROVE  /\ SameReceipt(turn'[u], turn[u])
               /\ turn'[u].status # "leased"
               /\ turn'[u] = turn[u] \/ (turn[u].status = "leased" /\ turn'[u].status = "failed")
    <2>1. turn'[u] = FailExpired(turn, t)[u]
      BY <1>1, <1>3, FailExpiredFacts
    <2>2. QED
      BY <1>1, <1>3, <2>1, FailExpiredFacts DEF OtherLive
  <1>4. SingleLease'
    BY <1>2, <1>3 DEF SingleLease
  <1>5. LeaseFence'
    <2>1. HermesOwns /\ CurrentTrigger(r.source)
      BY DEF BatchRoute
    <2>2. HermesOwns' /\ CurrentTrigger(r.source)'
      BY <2>1 DEF HermesOwns, CurrentTrigger
    <2>3. QED
      BY <1>2, <1>3, <2>2 DEF LeaseFence, CurrentTrigger
  <1>6. ReplyFence'
    BY <1>2, <1>3 DEF ReplyFence, SameReceipt
  <1>7. StoredNotAhead'
    <2>1. conv.version \in Nat /\ conv.cycle \in Nat
      BY Fields
    <2>2. \A u \in Turns : turn'[u].fence <= conv.version /\ turn'[u].cycle <= conv.cycle
      BY <1>2, <1>3, <2>1 DEF StoredNotAhead, SameReceipt
    <2>3. QED
      BY <2>2 DEF StoredNotAhead
  <1>8. TurnScope'
    <2>1. ASSUME NEW u \in Turns, turn'[u].status # "free", turn'[u].cycle = conv.cycle
          PROVE  LET s == turn'[u].source IN
                 /\ s \in turn'[u].batch /\ event[s].channel = turn'[u].channel
                 /\ receipt[s].decision = "trigger" /\ receipt[s].cycle = conv.cycle
                 /\ receipt[s].version = turn'[u].fence
                 /\ \A f \in turn'[u].batch :
                      /\ event[f].at # 0
                      /\ receipt[f].version <= turn'[u].fence
                      /\ receipt[f].decision = "trigger" /\ receipt[f].cycle = conv.cycle
                         /\ receipt[f].version = turn'[u].fence
                         => event[f].at <= event[s].at
      <3>1. CASE u = t
        <4>1. turn'[u] = r
          BY <1>2, <3>1
        <4>2. \A f \in r.batch : receipt[f].version <= conv.version
          BY DEF StoredNotAhead
        <4>3. QED
          BY <4>1, <4>2 DEF BatchRoute, CurrentTrigger
      <3>2. CASE u # t
        <4>1. turn[u].status # "free" /\ SameReceipt(turn'[u], turn[u])
          BY <1>3, <2>1, <3>2
        <4>2. QED
          BY <2>1, <4>1 DEF TurnScope, SameReceipt
      <3>3. QED
        BY <3>1, <3>2
    <2>2. QED
      BY <2>1 DEF TurnScope
  <1>9. ReceivedOrder' /\ HermesOwnsOpenCycle'
    BY DEF ReceivedOrder, HermesOwnsOpenCycle
  <1>10. QED
    BY <1>4, <1>5, <1>6, <1>7, <1>8, <1>9

\* EndStep: ending turn t, with a reply of the present version or without one, keeps
\* the invariant; a handoff also takes the conversation over.
LEMMA EndStep ==
  ASSUME IInv, TypeOK', NEW t \in Turns, NEW k \in Nat, NEW r \in Turn, OwnLease(t, k),
         turn' = [turn EXCEPT ![t] = r],
         conv' = conv \/ conv' = TakenOver(conv, "hermes_handoff"),
         UNCHANGED <<event, clock, receipt>>,
         r.status \in Outcomes, r.cycle = turn[t].cycle, r.batch = turn[t].batch,
         r.source = turn[t].source, r.fence = turn[t].fence, r.channel = turn[t].channel,
         \/ r.replyVersion = turn[t].replyVersion
         \/ /\ r.replyVersion = turn[t].fence /\ r.status = "completed"
            /\ r.by = k /\ r.attempt = k
  PROVE  IInv'
  <1> USE DEF IInv
  <1>1. turn \in [Turns -> Turn]
    BY DEF TypeOK
  <1>2. turn'[t] = r /\ \A u \in Turns : u # t => turn'[u] = turn[u]
    BY <1>1
  <1>3. turn[t].status = "leased" /\ r.status \notin {"leased", "free"}
    BY DEF OwnLease, Outcomes
  <1>4. turn[t].replyVersion = 0
    BY <1>3 DEF ReplyFence
  <1>c. /\ conv.version \in Nat /\ conv.cycle \in Nat
        /\ conv'.cycle = conv.cycle /\ conv'.version \in {conv.version, conv.version + 1}
        /\ HermesOwnsOpenCycle'
    <2>1. conv \in Conversation /\ "hermes_handoff" \in Endings
      BY DEF TypeOK, Endings
    <2>2. conv.version \in Nat /\ conv.cycle \in Nat
      BY Fields
    <2>3. CASE conv' = conv
      BY <2>2, <2>3 DEF HermesOwnsOpenCycle
    <2>4. CASE conv' = TakenOver(conv, "hermes_handoff")
      BY <2>1, <2>2, <2>4, TakenOverFacts DEF HermesOwnsOpenCycle
    <2>5. QED
      BY <2>3, <2>4
  <1>5. SingleLease' /\ LeaseFence'
    BY <1>2, <1>3 DEF SingleLease, LeaseFence
  <1>6. ReplyFence'
    BY <1>2, <1>3, <1>4 DEF ReplyFence
  <1>7. KeepsScope
    BY <1>2, <1>3 DEF KeepsScope
  <1>8. TurnScope'
    BY <1>7, <1>c, ScopeStep DEF KeepsReceived
  <1>9. StoredNotAhead'
    BY <1>7, <1>c, StoredStep
  <1>10. ReceivedOrder'
    BY DEF ReceivedOrder
  <1>11. QED
    BY <1>c, <1>5, <1>6, <1>8, <1>9, <1>10

\* RowStep: a step that cancels the active turns, moves the conversation row on and keeps
\* what is stored for received events keeps the invariant.
LEMMA RowStep ==
  ASSUME IInv, TypeOK', turn' = cancel_active_turns(turn),
         conv'.version = conv.version \/ conv'.version = conv.version + 1,
         conv'.cycle = conv.cycle, KeepsReceived, ReceivedOrder', HermesOwnsOpenCycle',
         \A e \in Events : receipt'[e].version = receipt[e].version
                           /\ receipt'[e].cycle = receipt[e].cycle
  PROVE  IInv'
  <1> USE DEF IInv
  <1>1. SingleLease' /\ LeaseFence' /\ ReplyFence' /\ KeepsScope
    BY CancelStep
  <1>2. TurnScope'
    BY <1>1, ScopeStep
  <1>3. conv.version \in Nat /\ conv.cycle \in Nat
    BY Fields
  <1>4. StoredNotAhead'
    BY <1>1, <1>3, StoredStep
  <1>5. QED
    BY <1>1, <1>2, <1>4

\* ResumeStep: a step that cancels the active turns and opens a new cycle for Hermes
\* keeps the invariant: no receipt and no turn can belong to that cycle yet.
LEMMA ResumeStep ==
  ASSUME IInv, TypeOK', turn' = cancel_active_turns(turn), conv' = Resumed(conv),
         ReceivedOrder',
         \A e \in Events : \/ receipt'[e].version = receipt[e].version
                              /\ receipt'[e].cycle = receipt[e].cycle
                           \/ receipt'[e].version = conv'.version
                              /\ receipt'[e].cycle = conv'.cycle
  PROVE  IInv'
  <1> USE DEF IInv
  <1>1. SingleLease' /\ LeaseFence' /\ ReplyFence' /\ KeepsScope
    BY CancelStep
  <1>2. conv.version \in Nat /\ conv.cycle \in Nat /\ conv \in Conversation
    BY Fields DEF TypeOK
  <1>3. /\ conv'.version = conv.version + 1 /\ conv'.cycle = conv.cycle + 1
        /\ conv'.owner = "hermes" /\ conv'.paused = FALSE /\ conv'.ended = "open"
    BY <1>2, ResumedFacts
  <1>4. TurnScope'
    BY <1>1, <1>3, ScopeStep
  <1>5. StoredNotAhead'
    BY <1>1, <1>2, <1>3, StoredStep
  <1>6. HermesOwnsOpenCycle'
    BY <1>3 DEF HermesOwnsOpenCycle
  <1>7. QED
    BY <1>1, <1>4, <1>5, <1>6

\* QuietStep: a step that keeps the turns, the version and the owner keeps the invariant.
LEMMA QuietStep ==
  ASSUME IInv, TypeOK', turn' = turn, KeepsReceived, ReceivedOrder',
         conv'.cycle = conv.cycle, conv'.version = conv.version, conv'.owner = conv.owner,
         conv'.paused = conv.paused, conv'.ended = conv.ended, conv'.channel = conv.channel,
         \A e \in Events : \/ receipt'[e].version = receipt[e].version
                              /\ receipt'[e].cycle = receipt[e].cycle
                           \/ receipt'[e].version = conv'.version
                              /\ receipt'[e].cycle = conv'.cycle
  PROVE  IInv'
  <1> USE DEF IInv
  <1>1. KeepsScope
    BY DEF KeepsScope
  <1>2. LeaseFence'
    BY FenceStep
  <1>3. TurnScope'
    BY <1>1, ScopeStep
  <1>4. conv.version \in Nat /\ conv.cycle \in Nat
    BY Fields
  <1>5. StoredNotAhead'
    BY <1>1, <1>4, StoredStep
  <1>6. SingleLease' /\ ReplyFence' /\ HermesOwnsOpenCycle'
    BY DEF SingleLease, ReplyFence, HermesOwnsOpenCycle
  <1>7. QED
    BY <1>2, <1>3, <1>5, <1>6

\* InvStep: every operation keeps the inductive invariant.
LEMMA InvStep == IInv /\ [Next]_vars => IInv'
  <1> SUFFICES ASSUME IInv, [Next]_vars PROVE IInv'
    OBVIOUS
  <1>0. TypeOK /\ TypeOK' /\ ReceivedOrder /\ HermesOwnsOpenCycle
    BY TypeStep DEF IInv
  <1>f. /\ conv.version \in Nat /\ conv.cycle \in Nat /\ conv \in Conversation
        /\ receipt \in [Events -> Receipt] /\ turn \in [Turns -> Turn]
    BY <1>0, Fields DEF TypeOK
  <1>s. StaffEvents \subseteq Events /\ ParentEvents \subseteq Events
    BY DEF Events
  <1>n. UNCHANGED <<event, clock, receipt>> => ReceivedOrder' /\ KeepsReceived
    BY <1>0 DEF ReceivedOrder, KeepsReceived
  <1>t. ASSUME NEW reason \in Endings, take_over(reason), ReceivedOrder', KeepsReceived,
               \A e \in Events : receipt'[e].version = receipt[e].version
                                 /\ receipt'[e].cycle = receipt[e].cycle
        PROVE  IInv'
    <2>1. /\ conv'.version = conv.version + 1 /\ conv'.cycle = conv.cycle
          /\ conv'.owner = "human" /\ conv'.paused = TRUE
      BY <1>f, <1>t, TakenOverFacts DEF take_over
    <2>2. HermesOwnsOpenCycle'
      BY <2>1 DEF HermesOwnsOpenCycle
    <2>3. turn' = cancel_active_turns(turn)
      BY <1>t DEF take_over
    <2>4. QED
      BY <1>0, <1>t, <2>1, <2>2, <2>3, RowStep
  <1>d. ASSUME NEW e \in Events, NEW why, receipt[e].reason = "staff_control_pending",
               receipt' = [receipt EXCEPT ![e].reason = why], UNCHANGED <<event, clock>>
        PROVE  /\ ReceivedOrder' /\ KeepsReceived
               /\ \A f \in Events : receipt'[f].version = receipt[f].version
                                    /\ receipt'[f].cycle = receipt[f].cycle
    <2>1. receipt[e] \in Receipt
      BY <1>f
    <2>2. /\ receipt'[e].version = receipt[e].version /\ receipt'[e].cycle = receipt[e].cycle
          /\ receipt'[e].decision = receipt[e].decision
          /\ \A f \in Events : f # e => receipt'[f] = receipt[f]
      BY <1>d, <1>f, <2>1 DEF Receipt
    <2>3. event[e].at # 0
      BY <1>0, <1>d DEF ReceivedOrder, NoReceipt
    <2>4. QED
      BY <1>0, <1>d, <2>2, <2>3 DEF ReceivedOrder, KeepsReceived
  <1>p. "human_takeover" \in Endings /\ "staff_pause" \in Endings
    BY DEF Endings
  <1>1. ASSUME NEW e \in ParentEvents, InboundParent(e) PROVE IInv'
    <2> DEFINE c == record_inbound(conv)
    <2>1. /\ c.owner = conv.owner /\ c.paused = conv.paused /\ c.channel = conv.channel
          /\ \/ c.cycle = conv.cycle /\ c.version = conv.version /\ c.ended = conv.ended
             \/ c.cycle = conv.cycle + 1 /\ c.version = conv.version + 1 /\ c.ended = "open"
      BY <1>f, InboundFacts
    <2>2. conv' = c /\ turn' = turn /\ Receive(e) /\ e \in Events
      BY <1>1, <1>s DEF InboundParent
    <2>3. /\ receipt'[e].version = c.version /\ receipt'[e].cycle = c.cycle
          /\ \A f \in Events : f # e => receipt'[f] = receipt[f]
      BY <1>1, <1>f, <2>2 DEF InboundParent
    <2>4. ReceivedOrder' /\ KeepsReceived
      BY <1>0, <2>2, <2>3, ReceiveStep
    <2> HIDE DEF c
    <2>5. CASE c.cycle = conv.cycle /\ c.version = conv.version /\ c.ended = conv.ended
      BY <1>0, <2>1, <2>2, <2>3, <2>4, <2>5, QuietStep
    <2>6. CASE c.cycle = conv.cycle + 1 /\ c.version = conv.version + 1 /\ c.ended = "open"
      <3>0. StoredNotAhead /\ TurnScope /\ LeaseFence /\ SingleLease /\ ReplyFence
        BY DEF IInv
      <3>1. LeaseFence'
        BY <1>0, <2>2, <2>6, <3>0, FenceStep
      <3>2. KeepsScope
        BY <2>2 DEF KeepsScope
      <3>3. TurnScope'
        BY <1>0, <2>2, <2>6, <3>0, <3>2, ScopeStep
      <3>4. StoredNotAhead'
        BY <1>0, <1>f, <2>2, <2>3, <2>6, <3>0, <3>2, StoredStep
      <3>5. SingleLease' /\ ReplyFence' /\ HermesOwnsOpenCycle'
        BY <1>0, <2>1, <2>2, <2>6, <3>0 DEF SingleLease, ReplyFence, HermesOwnsOpenCycle
      <3>6. QED
        BY <1>0, <2>4, <3>1, <3>3, <3>4, <3>5 DEF IInv
    <2>7. QED
      BY <2>1, <2>5, <2>6
  <1>2. ASSUME NEW e \in StaffEvents, StaffReply(e) PROVE IInv'
    <2>1. ReceivedOrder' /\ KeepsReceived
      BY <1>0, <1>2, <1>s, ReceiveStep DEF StaffReply
    <2>2. QED
      BY <1>2, <1>t, <1>p, <2>1 DEF StaffReply
  <1>3. ASSUME NEW e \in StaffEvents, StaffPause(e) PROVE IInv'
    <2>1. ReceivedOrder' /\ KeepsReceived
      BY <1>0, <1>3, <1>s, ReceiveStep DEF StaffPause
    <2>2. QED
      BY <1>3, <1>t, <1>p, <2>1 DEF StaffPause
  <1>r. /\ Resumed(conv).version = ResumeReceipt.version /\ Resumed(conv).cycle = ResumeReceipt.cycle
    BY <1>f, ResumedFacts DEF ResumeReceipt
  <1>4. ASSUME NEW e \in StaffEvents, StaffResume(e) PROVE IInv'
    <2>1. \A f \in Events : receipt'[f] = IF f = e THEN ResumeReceipt ELSE receipt[f]
      BY <1>4, <1>f DEF StaffResume
    <2>2. ReceivedOrder'
      BY <1>0, <1>4, <1>s, <2>1, ReceiveStep DEF StaffResume
    <2>3. turn' = cancel_active_turns(turn) /\ conv' = Resumed(conv)
      BY <1>4 DEF StaffResume
    <2>4. QED
      BY <1>0, <1>r, <2>1, <2>2, <2>3, ResumeStep
  <1>5. ASSUME NEW e \in StaffEvents, StaffAsk(e) PROVE IInv'
    <2>1. /\ receipt'[e].version = conv.version /\ receipt'[e].cycle = conv.cycle
          /\ \A f \in Events : f # e => receipt'[f] = receipt[f]
      BY <1>5, <1>f, <1>s DEF StaffAsk
    <2>2. ReceivedOrder' /\ KeepsReceived
      BY <1>0, <1>5, <1>s, <2>1, ReceiveStep DEF StaffAsk
    <2>3. turn' = turn /\ conv' = conv
      BY <1>5 DEF StaffAsk
    <2>4. QED
      BY <1>0, <2>1, <2>2, <2>3, QuietStep
  <1>6. ASSUME NEW e \in StaffEvents, StaffNote(e) PROVE IInv'
    <2>1. turn' = turn /\ conv' = conv /\ receipt' = receipt /\ Receive(e) /\ e \in Events
      BY <1>6, <1>s DEF StaffNote
    <2>2. ReceivedOrder' /\ KeepsReceived
      BY <1>0, <2>1, ReceiveStep
    <2>3. QED
      BY <1>0, <2>1, <2>2, QuietStep
  <1>7. ASSUME NEW e \in StaffEvents, ResolveResume(e) PROVE IInv'
    <2>0. e \in Events /\ receipt[e].reason = "staff_control_pending"
      BY <1>7, <1>s DEF ResolveResume, ControlCandidate
    <2> DEFINE refenced == [ResumeReceipt EXCEPT !.reason = "hermes_owns_conversation"]
    <2>1. refenced.version = ResumeReceipt.version /\ refenced.cycle = ResumeReceipt.cycle
      BY DEF ResumeReceipt
    <2>2. \A f \in Events : /\ f = e => receipt'[f] = ResumeReceipt
                            /\ f # e => (receipt'[f] = refenced /\ Refenced(e, f)) \/ receipt'[f] = receipt[f]
      BY <1>7 DEF ResolveResume
    <2> HIDE DEF refenced
    <2>3. event' = event /\ clock' = clock /\ turn' = cancel_active_turns(turn) /\ conv' = Resumed(conv)
      BY <1>7 DEF ResolveResume
    <2>4. \A f \in Events : receipt'[f] # NoReceipt => event'[f].at # 0
      <3>1. clock \in Nat /\ \A f \in Events : event[f].at \in Nat
        BY <1>0, Fields
      <3>2. event[e].at # 0
        BY <1>0, <2>0 DEF ReceivedOrder, NoReceipt
      <3>3. \A f \in Events : Refenced(e, f) => event[f].at # 0
        BY <3>1, <2>0 DEF Refenced
      <3>4. QED
        BY <1>0, <2>2, <2>3, <3>2, <3>3 DEF ReceivedOrder
    <2>5. ReceivedOrder'
      BY <1>0, <2>3, <2>4 DEF ReceivedOrder
    <2>6. QED
      BY <1>0, <1>r, <2>1, <2>2, <2>3, <2>5, ResumeStep
  <1>8. ASSUME NEW e \in StaffEvents, ResolvePause(e) PROVE IInv'
    <2>1. e \in Events /\ receipt[e].reason = "staff_control_pending"
      BY <1>8, <1>s DEF ResolvePause, ControlCandidate
    <2>2. /\ take_over("staff_pause") /\ event' = event /\ clock' = clock
          /\ receipt' = [receipt EXCEPT ![e].reason = "staff_pause"]
      BY <1>8 DEF ResolvePause
    <2>3. QED
      BY <1>p, <1>t, <1>d, <2>1, <2>2
  <1>9. ASSUME NEW e \in StaffEvents, ResolveOther(e) PROVE IInv'
    <2>1. e \in Events /\ receipt[e].reason = "staff_control_pending"
      BY <1>9, <1>s DEF ResolveOther, ControlCandidate
    <2>2. /\ event' = event /\ clock' = clock /\ conv' = conv /\ turn' = turn
          /\ receipt' = [receipt EXCEPT ![e].reason = "staff_internal"]
      BY <1>9 DEF ResolveOther
    <2>3. QED
      BY <1>0, <1>d, <2>1, <2>2, QuietStep
  <1>10. ASSUME NEW q \in Queues, SetStatus(q) PROVE IInv'
    <2>1. /\ conv'.version = conv.version + 1 /\ conv'.cycle = conv.cycle
          /\ conv'.owner = conv.owner /\ conv'.paused = conv.paused /\ conv'.ended = conv.ended
      BY <1>10, <1>f DEF SetStatus, Conversation
    <2>2. /\ turn' = cancel_active_turns(turn) /\ UNCHANGED <<event, clock, receipt>>
          /\ HermesOwnsOpenCycle'
      BY <1>0, <1>10, <2>1 DEF SetStatus, HermesOwnsOpenCycle
    <2>3. QED
      BY <1>0, <1>n, <2>1, <2>2, RowStep
  <1>11. ASSUME AssignBranch PROVE IInv'
    <2>1. /\ conv'.version = conv.version /\ conv'.cycle = conv.cycle
          /\ conv'.owner = conv.owner /\ conv'.paused = conv.paused /\ conv'.ended = conv.ended
          /\ conv'.channel = conv.channel
      BY <1>11, <1>f DEF AssignBranch, Conversation
    <2>2. turn' = turn /\ UNCHANGED <<event, clock, receipt>>
      BY <1>11 DEF AssignBranch
    <2>3. QED
      BY <1>0, <1>n, <2>1, <2>2, QuietStep
  <1>12. ASSUME MigrateLegacy PROVE IInv'
    <2>1. /\ conv'.version = conv.version + 1 /\ conv'.cycle = conv.cycle
          /\ conv'.owner = conv.owner /\ conv'.paused = conv.paused /\ conv'.ended = conv.ended
      BY <1>12, <1>f DEF MigrateLegacy, Conversation
    <2>2. /\ turn' = cancel_active_turns(turn) /\ UNCHANGED <<event, clock, receipt>>
          /\ HermesOwnsOpenCycle'
      BY <1>0, <1>12, <2>1 DEF MigrateLegacy, HermesOwnsOpenCycle
    <2>3. QED
      BY <1>0, <1>n, <2>1, <2>2, RowStep
  <1>13. ASSUME BindByHandoff PROVE IInv'
    <2>1. /\ conv'.version = conv.version + 1 /\ conv'.cycle = conv.cycle
          /\ conv'.owner = conv.owner /\ conv'.paused = conv.paused /\ conv'.ended = conv.ended
      BY <1>13, <1>f DEF BindByHandoff, Conversation
    <2>2. /\ turn' = cancel_active_turns(turn) /\ UNCHANGED <<event, clock, receipt>>
          /\ HermesOwnsOpenCycle'
      BY <1>0, <1>13, <2>1 DEF BindByHandoff, HermesOwnsOpenCycle
    <2>3. QED
      BY <1>0, <1>n, <2>1, <2>2, RowStep
  <1>14. ASSUME NEW live \in BOOLEAN, PutDeployment(live) PROVE IInv'
    <2>1. /\ turn' = cancel_active_turns(turn) /\ UNCHANGED <<conv, event, clock, receipt>>
          /\ HermesOwnsOpenCycle'
      BY <1>0, <1>14 DEF PutDeployment, HermesOwnsOpenCycle
    <2>2. QED
      BY <1>0, <1>n, <2>1, RowStep
  <1>15. ASSUME NEW l \in Links, PutLink(l) PROVE IInv'
    <2>1. turn' = turn /\ UNCHANGED <<conv, event, clock, receipt>>
      BY <1>15 DEF PutLink
    <2>2. QED
      BY <1>0, <1>n, <2>1, QuietStep
  <1>16. ASSUME NEW t \in Turns, NEW b \in Batches, NEW e \in Events, LeaseNew(t, b, e)
         PROVE IInv'
    <2> DEFINE r == NewTurn(b, e)
    <2>1. /\ r \in Turn /\ r.status = "leased" /\ r.cycle = conv.cycle /\ r.batch = b
          /\ r.source = e /\ r.channel = conv.channel /\ r.fence = conv.version
          /\ r.replyVersion = 0
      BY <1>f, NewTurnFacts
    <2>2. /\ BatchRoute(b, e) /\ ~OtherLive(t)
          /\ turn' = [FailExpired(turn, t) EXCEPT ![t] = r]
          /\ UNCHANGED <<conv, config, event, clock, receipt, intent, humanSince>>
      BY <1>16 DEF LeaseNew
    <2>3. b \subseteq Events
      BY EventsAssumption DEF Events
    <2> HIDE DEF r
    <2>4. QED
      BY <1>0, <2>1, <2>2, <2>3, LeaseStep
  <1>17. ASSUME NEW t \in Turns, LeaseAgain(t) PROVE IInv'
    <2> DEFINE r == Rotated(turn[t])
    <2>0. turn[t] \in Turn
      BY <1>f
    <2>1. /\ r \in Turn /\ r.status = "leased" /\ r.cycle = turn[t].cycle
          /\ r.batch = turn[t].batch /\ r.source = turn[t].source
          /\ r.channel = turn[t].channel /\ r.fence = conv.version
          /\ r.replyVersion = turn[t].replyVersion
      BY <1>f, <2>0, RotatedFacts
    <2>2. /\ BatchRoute(r.batch, r.source) /\ ~OtherLive(t) /\ turn[t].cycle = conv.cycle
          /\ turn' = [FailExpired(turn, t) EXCEPT ![t] = r]
          /\ UNCHANGED <<conv, config, event, clock, receipt, intent, humanSince>>
          /\ turn[t].status # "completed" /\ turn[t].status # "free"
      BY <1>17, <2>1 DEF LeaseAgain, Recoverable
    <2>3. r.batch \subseteq Events
      BY <1>0, <2>1, Fields
    <2>4. r.replyVersion = 0
      BY <2>1, <2>2 DEF IInv, ReplyFence
    <2>5. r.channel = conv.channel
      <3>1. event[turn[t].source].channel = turn[t].channel
        BY <2>2 DEF IInv, TurnScope
      <3>2. event[turn[t].source].channel = conv.channel
        BY <2>1, <2>2 DEF BatchRoute
      <3>3. QED
        BY <2>1, <3>1, <3>2
    <2> HIDE DEF r
    <2>6. QED
      BY <1>0, <2>1, <2>2, <2>3, <2>4, <2>5, LeaseStep
  <1>18. ASSUME NEW t \in Turns, LeaseExpires(t) PROVE IInv'
    <2>1. turn[t] \in Turn
      BY <1>f
    <2>2. [turn[t] EXCEPT !.expired = TRUE].status = turn[t].status
          /\ SameReceipt([turn[t] EXCEPT !.expired = TRUE], turn[t])
      BY <2>1 DEF Turn, SameReceipt
    <2>3. turn'[t] = [turn[t] EXCEPT !.expired = TRUE] /\ \A u \in Turns : u # t => turn'[u] = turn[u]
      BY <1>18, <1>f DEF LeaseExpires
    <2>4. \A u \in Turns : turn'[u].status = turn[u].status /\ SameReceipt(turn'[u], turn[u])
      BY <2>2, <2>3 DEF SameReceipt
    <2>5. UNCHANGED <<conv, event, clock, receipt>>
      BY <1>18 DEF LeaseExpires
    <2>6. SingleLease' /\ ReplyFence' /\ HermesOwnsOpenCycle'
      BY <2>4, <2>5 DEF IInv, SingleLease, ReplyFence, HermesOwnsOpenCycle, SameReceipt
    <2>7. LeaseFence'
      BY <2>4, <2>5 DEF IInv, LeaseFence, HermesOwns, CurrentTrigger, SameReceipt
    <2>8. KeepsScope
      BY <2>4 DEF KeepsScope, SameReceipt
    <2>9. StoredNotAhead'
      BY <1>0, <1>f, <2>5, <2>8, StoredStep DEF IInv
    <2>10. TurnScope'
      BY <1>0, <1>n, <2>5, <2>8, ScopeStep DEF IInv
    <2>11. QED
      BY <1>0, <1>n, <2>5, <2>6, <2>7, <2>9, <2>10 DEF IInv
  <1>19. ASSUME NEW t \in Turns, BindByBooking(t) PROVE IInv'
    <2>1. /\ conv'.version = conv.version /\ conv'.cycle = conv.cycle
          /\ conv'.owner = conv.owner /\ conv'.paused = conv.paused /\ conv'.ended = conv.ended
          /\ conv'.channel = conv.channel
      BY <1>19, <1>f DEF BindByBooking, Conversation
    <2>2. turn' = turn /\ UNCHANGED <<event, clock, receipt>>
      BY <1>19 DEF BindByBooking
    <2>3. QED
      BY <1>0, <1>n, <2>1, <2>2, QuietStep
  <1>20. ASSUME NEW t \in Turns, NEW k \in 1..MaxAttempt, NEW n \in Parts,
                NEW handoff \in BOOLEAN, CommitReply(t, k, n, handoff)
         PROVE IInv'
    <2> DEFINE r == Replied(turn[t], k)
               done == [turn EXCEPT ![t] = r]
    <2>1. k \in Nat /\ turn[t] \in Turn /\ OwnLease(t, k)
      BY <1>20, <1>f, BoundsAssumption DEF CommitReply
    <2>2. /\ r \in Turn /\ r.status = "completed" /\ r.by = k /\ r.cycle = turn[t].cycle
          /\ r.batch = turn[t].batch /\ r.source = turn[t].source /\ r.fence = turn[t].fence
          /\ r.attempt = turn[t].attempt /\ r.replyVersion = conv.version
          /\ r.channel = turn[t].channel
      BY <1>f, <2>1, RepliedFacts
    <2>3. turn[t].fence = conv.version /\ r.attempt = k
      BY <1>20, <2>1, <2>2 DEF IInv, LeaseFence, CommitReply, OwnLease
    <2> HIDE DEF r
    <2>4. done \in [Turns -> Turn] /\ \A u \in Turns : done[u].status # "leased"
      BY <1>f, <2>1, <2>2 DEF IInv, SingleLease, OwnLease
    <2> HIDE DEF done
    <2>5. cancel_active_turns(done) = done
      BY <2>4 DEF cancel_active_turns
    <2>6. /\ turn' = IF handoff THEN cancel_active_turns(done) ELSE done
          /\ conv' = IF handoff THEN TakenOver(conv, "hermes_handoff") ELSE conv
          /\ UNCHANGED <<event, clock, receipt>>
      BY <1>20 DEF CommitReply, done, r
    <2>7. turn' = [turn EXCEPT ![t] = r]
      BY <2>5, <2>6 DEF done
    <2>8. r.status \in Outcomes
      BY <2>2 DEF Outcomes
    <2>9. QED
      BY <1>0, <2>1, <2>2, <2>3, <2>6, <2>7, <2>8, EndStep
  <1>21. ASSUME NEW t \in Turns, NEW k \in 1..MaxAttempt,
                NEW how \in {"completed", "no_reply", "failed", "cancelled"},
                NEW delivered \in BOOLEAN, FinishTurn(t, k, how, delivered)
         PROVE IInv'
    <2>1. k \in Nat /\ turn[t] \in Turn /\ OwnLease(t, k)
      BY <1>21, <1>f, BoundsAssumption DEF FinishTurn
    <2>2. PICK st \in Outcomes, er \in Errors : turn' = [turn EXCEPT ![t] = Finished(turn[t], st, er, k)]
      BY <1>21 DEF FinishTurn, Outcomes, Errors
    <2> DEFINE r == Finished(turn[t], st, er, k)
    <2>3. /\ r \in Turn /\ r.status = st /\ r.cycle = turn[t].cycle
          /\ r.batch = turn[t].batch /\ r.source = turn[t].source /\ r.fence = turn[t].fence
          /\ r.channel = turn[t].channel /\ r.replyVersion = turn[t].replyVersion
      <3>1. st \in Outcomes /\ er \in Errors
        BY <2>2
      <3>2. QED
        BY <2>1, <3>1, FinishedFacts
    <2>4. UNCHANGED <<conv, event, clock, receipt>>
      BY <1>21 DEF FinishTurn
    <2> HIDE DEF r
    <2>5. turn' = [turn EXCEPT ![t] = r] /\ r.status \in Outcomes
      BY <2>2, <2>3 DEF r
    <2>6. QED
      BY <1>0, <2>1, <2>3, <2>4, <2>5, EndStep
  <1>22. ASSUME NEW t \in Turns, NEW p \in Parts, PublishIntent(t, p) \/ PublicationFails(t, p)
         PROVE IInv'
    <2>1. turn' = turn /\ UNCHANGED <<conv, event, clock, receipt>>
      BY <1>22 DEF PublishIntent, PublicationFails
    <2>2. QED
      BY <1>0, <1>n, <2>1, QuietStep
  <1>23. CASE UNCHANGED vars
    <2>1. turn' = turn /\ UNCHANGED <<conv, event, clock, receipt>>
      BY <1>23 DEF vars
    <2>2. QED
      BY <1>0, <1>n, <2>1, QuietStep
  <1>24. QED
    BY <1>1, <1>2, <1>3, <1>4, <1>5, <1>6, <1>7, <1>8, <1>9, <1>10, <1>11, <1>12, <1>13,
       <1>14, <1>15, <1>16, <1>17, <1>18, <1>19, <1>20, <1>21, <1>22, <1>23
       DEF Next, Message, Command, Runtime, Publication

\* InvInit: the invariant holds when the conversation is registered.
LEMMA InvInit == Init => IInv
  <1> SUFFICES ASSUME Init PROVE IInv
    OBVIOUS
  <1>1. TypeOK
    BY TypeInit
  <1>2. StoredNotAhead /\ ReceivedOrder
    BY DEF Init, StoredNotAhead, ReceivedOrder, NoReceipt, FreeTurn
  <1>3. \A t \in Turns : turn[t].status = "free" /\ turn[t].replyVersion = 0
    BY DEF Init, FreeTurn
  <1>4. TurnScope /\ SingleLease /\ LeaseFence /\ ReplyFence
    BY <1>3 DEF TurnScope, SingleLease, LeaseFence, ReplyFence
  <1>5. HermesOwnsOpenCycle
    BY DEF Init, HermesOwnsOpenCycle
  <1>6. QED
    BY <1>1, <1>2, <1>4, <1>5 DEF IInv

\* Inductive: IInv is an invariant of the specification.
THEOREM Inductive == Spec => []IInv
  BY InvInit, InvStep, PTL DEF Spec

-----------------------------------------------------------------------------
(* The safety properties.                                                  *)

\* OneLease: whatever overlaps, at most one turn of the conversation is leased
\* (get_or_lease_hermes_turn, agent_runtime.rs).
THEOREM OneLease == Spec => []SingleLease
  <1>1. IInv => SingleLease
    BY DEF IInv
  <1>2. QED
    BY <1>1, Inductive, PTL

\* FencedLease: a leased turn of the current cycle runs under the present control
\* version, so commit_airhop_hermes_reply need not compare versions.
THEOREM FencedLease == Spec => []LeaseFence
  <1>1. IInv => LeaseFence
    BY DEF IInv
  <1>2. QED
    BY <1>1, Inductive, PTL

\* FencedReply: every stored reply was written under the version of its lease, by the
\* newest token of the turn (external_conversation.rs, commit_airhop_hermes_reply).
THEOREM FencedReply == Spec => []ReplyFence
  <1>1. IInv => ReplyFence
    BY DEF IInv
  <1>2. QED
    BY <1>1, Inductive, PTL

\* OwnedCycle: Hermes owns a conversation only inside an open cycle.
THEOREM OwnedCycle == Spec => []HermesOwnsOpenCycle
  <1>1. IInv => HermesOwnsOpenCycle
    BY DEF IInv
  <1>2. QED
    BY <1>1, Inductive, PTL

\* SourceStable: the invariant fixes the source a retried batch is routed to: the
\* receipt's source and the routed one are both the newest current trigger.
LEMMA SourceStable ==
  ASSUME IInv
  PROVE  RetryKeepsSource
  <1> USE DEF IInv
  <1>1. SUFFICES ASSUME NEW t \in Turns, NEW e \in Events, turn[t].status # "free",
                        turn[t].cycle = conv.cycle, BatchRoute(turn[t].batch, e)
                 PROVE  turn[t].source = e
    BY DEF RetryKeepsSource
  <1> DEFINE s == turn[t].source
  <1>2. /\ s \in turn[t].batch /\ turn[t].batch \subseteq Events
        /\ receipt[s].decision = "trigger" /\ receipt[s].cycle = conv.cycle
        /\ receipt[s].version = turn[t].fence
        /\ \A f \in turn[t].batch :
             /\ event[f].at # 0
             /\ receipt[f].version <= turn[t].fence
             /\ receipt[f].decision = "trigger" /\ receipt[f].cycle = conv.cycle
                /\ receipt[f].version = turn[t].fence
                => event[f].at <= event[s].at
    BY <1>1, Fields DEF TurnScope
  <1>3. e \in turn[t].batch /\ CurrentTrigger(e)
    BY <1>1 DEF BatchRoute
  <1>4. /\ conv.version \in Nat /\ turn[t].fence \in Nat
        /\ event[e].at \in Nat /\ event[s].at \in Nat
    BY <1>2, Fields
  <1>5. turn[t].fence = conv.version
    BY <1>2, <1>3, <1>4 DEF StoredNotAhead, CurrentTrigger
  <1>6. event[e].at <= event[s].at
    BY <1>2, <1>3, <1>5 DEF CurrentTrigger
  <1>7. event[s].at <= event[e].at
    BY <1>1, <1>2, <1>5 DEF BatchRoute, CurrentTrigger
  <1>8. event[s].at = event[e].at /\ event[s].at # 0
    BY <1>2, <1>4, <1>6, <1>7
  <1>9. QED
    BY <1>2, <1>8 DEF ReceivedOrder

\* StableSource: a batch claimed again in its cycle is routed to the source its receipt
\* already has, so require_same_turn_scope never refuses a retry for its source.
THEOREM StableSource == Spec => []RetryKeepsSource
  BY SourceStable, Inductive, PTL

-----------------------------------------------------------------------------
(* What a step does to turn receipts and reply intents.                    *)

\* A step that at most cancels the leased turns; the channel of the conversation
\* changes only when nothing committed is waiting.
OnlyCancels ==
  /\ turn' = turn \/ turn' = cancel_active_turns(turn)
  /\ intent' = intent
  /\ conv'.channel = conv.channel \/ \A t \in Turns, p \in Parts : intent[t][p].status # "committed"

\* A step that writes the receipt of turn t, which is not completed yet; it writes
\* intents of t only when t belongs to the channel of the conversation.
WritesTurn(t) ==
  /\ turn[t].status # "completed" /\ conv'.channel = conv.channel
  /\ turn'[t].channel \in {turn[t].channel, conv.channel}
  /\ \A u \in Turns : u # t => /\ turn'[u].channel = turn[u].channel
                               /\ turn[u].status # "leased" => turn'[u] = turn[u]
                               /\ intent'[u] = intent[u]
  /\ intent'[t] = intent[t] \/ turn'[t].channel = conv.channel

\* A step that settles or retries one committed part.
WritesPart(t, p) ==
  /\ turn' = turn /\ conv' = conv /\ intent[t][p].status = "committed"
  /\ \A u \in Turns, q \in Parts : u # t \/ q # p => intent'[u][q] = intent[u][q]

\* StepShape: every step is of one of the three kinds.
LEMMA StepShape ==
  ASSUME TypeOK, [Next]_vars
  PROVE  \/ OnlyCancels
         \/ \E t \in Turns : WritesTurn(t)
         \/ \E t \in Turns, p \in Parts : WritesPart(t, p)
  <1>f. conv \in Conversation /\ turn \in [Turns -> Turn] /\ intent \in [Turns -> [Parts -> Intent]]
    BY DEF TypeOK
  <1>t. ASSUME NEW reason, take_over(reason), intent' = intent PROVE OnlyCancels
    <2>1. TakenOver(conv, reason).channel = conv.channel
      BY <1>f DEF TakenOver, Conversation
    <2>2. QED
      BY <1>t, <2>1 DEF take_over, OnlyCancels
  <1>r. Resumed(conv).channel = conv.channel
    BY <1>f DEF Resumed, Conversation
  <1>1. ASSUME NEW e \in ParentEvents, InboundParent(e) PROVE OnlyCancels
    BY <1>1, <1>f, InboundFacts DEF InboundParent, OnlyCancels
  <1>2. ASSUME NEW e \in StaffEvents, StaffReply(e) \/ StaffPause(e) \/ ResolvePause(e)
        PROVE  OnlyCancels
    BY <1>2, <1>t DEF StaffReply, StaffPause, ResolvePause
  <1>3. ASSUME NEW e \in StaffEvents, StaffResume(e) \/ ResolveResume(e) PROVE OnlyCancels
    BY <1>3, <1>r DEF StaffResume, ResolveResume, OnlyCancels
  <1>4. ASSUME NEW e \in StaffEvents, StaffAsk(e) \/ StaffNote(e) \/ ResolveOther(e)
        PROVE  OnlyCancels
    BY <1>4 DEF StaffAsk, StaffNote, ResolveOther, OnlyCancels
  <1>5. ASSUME NEW q \in Queues, SetStatus(q) PROVE OnlyCancels
    BY <1>5, <1>f DEF SetStatus, OnlyCancels, Conversation
  <1>6. ASSUME AssignBranch \/ BindByHandoff PROVE OnlyCancels
    BY <1>6, <1>f DEF AssignBranch, BindByHandoff, OnlyCancels, Conversation
  <1>7. ASSUME MigrateLegacy PROVE OnlyCancels
    BY <1>7 DEF MigrateLegacy, OnlyCancels
  <1>8. ASSUME NEW live \in BOOLEAN, PutDeployment(live) PROVE OnlyCancels
    BY <1>8 DEF PutDeployment, OnlyCancels
  <1>9. ASSUME NEW l \in Links, PutLink(l) PROVE OnlyCancels
    BY <1>9 DEF PutLink, OnlyCancels
  <1>10. ASSUME NEW t \in Turns, BindByBooking(t) PROVE OnlyCancels
    BY <1>10, <1>f DEF BindByBooking, OnlyCancels, Conversation
  <1>x. ASSUME NEW t \in Turns, NEW r, turn[t].status # "completed",
               r.channel \in {turn[t].channel, conv.channel},
               turn' = [FailExpired(turn, t) EXCEPT ![t] = r], UNCHANGED <<conv, intent>>
        PROVE  WritesTurn(t)
    <2>1. /\ FailExpired(turn, t) \in [Turns -> Turn]
          /\ \A u \in Turns : /\ FailExpired(turn, t)[u].channel = turn[u].channel
                              /\ turn[u].status # "leased" => FailExpired(turn, t)[u] = turn[u]
      BY <1>f, FailExpiredFacts DEF SameReceipt
    <2>2. turn'[t] = r /\ \A u \in Turns : u # t => turn'[u] = FailExpired(turn, t)[u]
      BY <1>x, <2>1
    <2>3. QED
      BY <1>x, <2>1, <2>2 DEF WritesTurn
  <1>11. ASSUME NEW t \in Turns, NEW b \in Batches, NEW e \in Events, LeaseNew(t, b, e)
         PROVE  WritesTurn(t)
    <2>1. NewTurn(b, e).channel = conv.channel
      BY <1>f, NewTurnFacts
    <2>2. /\ turn[t].status # "completed" /\ UNCHANGED <<conv, intent>>
          /\ turn' = [FailExpired(turn, t) EXCEPT ![t] = NewTurn(b, e)]
      BY <1>11 DEF LeaseNew, NewBatch
    <2>3. QED
      BY <1>x, <2>1, <2>2
  <1>12. ASSUME NEW t \in Turns, LeaseAgain(t) PROVE WritesTurn(t)
    <2>1. Rotated(turn[t]).channel = turn[t].channel
      BY <1>f, RotatedFacts
    <2>2. /\ turn[t].status # "completed" /\ UNCHANGED <<conv, intent>>
          /\ turn' = [FailExpired(turn, t) EXCEPT ![t] = Rotated(turn[t])]
      BY <1>12 DEF LeaseAgain, Recoverable
    <2>3. QED
      BY <1>x, <2>1, <2>2
  <1>13. ASSUME NEW t \in Turns, LeaseExpires(t) PROVE WritesTurn(t)
    <2>1. turn[t] \in Turn
      BY <1>f
    <2>2. [turn[t] EXCEPT !.expired = TRUE].channel = turn[t].channel
      BY <2>1 DEF Turn
    <2>3. turn'[t] = [turn[t] EXCEPT !.expired = TRUE] /\ \A u \in Turns : u # t => turn'[u] = turn[u]
      BY <1>13, <1>f DEF LeaseExpires
    <2>4. QED
      BY <1>13, <2>2, <2>3 DEF LeaseExpires, WritesTurn
  <1>14. ASSUME NEW t \in Turns, NEW k \in 1..MaxAttempt, NEW n \in Parts,
                NEW handoff \in BOOLEAN, CommitReply(t, k, n, handoff)
         PROVE  WritesTurn(t)
    <2> DEFINE r == Replied(turn[t], k)
               done == [turn EXCEPT ![t] = r]
    <2>1. k \in Nat /\ turn[t] \in Turn /\ turn[t].status = "leased" /\ turn[t].channel = conv.channel
      BY <1>14, <1>f, BoundsAssumption DEF CommitReply, OwnLease
    <2>2. r \in Turn /\ r.channel = turn[t].channel
      BY <1>f, <2>1, RepliedFacts
    <2> HIDE DEF r
    <2>3. done \in [Turns -> Turn] /\ done[t] = r /\ \A u \in Turns : u # t => done[u] = turn[u]
      BY <1>f, <2>2
    <2> HIDE DEF done
    <2>4. turn' = done \/ turn' = cancel_active_turns(done)
      BY <1>14 DEF CommitReply, done, r
    <2>5. \A u \in Turns : /\ turn'[u].channel = done[u].channel
                           /\ done[u].status # "leased" => turn'[u] = done[u]
      BY <2>3, <2>4, CancelFacts DEF SameReceipt
    <2>6. \A u \in Turns : u # t => intent'[u] = intent[u]
      BY <1>14, <1>f DEF CommitReply
    <2>7. TakenOver(conv, "hermes_handoff").channel = conv.channel
      BY <1>f DEF TakenOver, Conversation
    <2>8. conv'.channel = conv.channel
      BY <1>14, <2>7 DEF CommitReply
    <2>9. QED
      BY <2>1, <2>2, <2>3, <2>5, <2>6, <2>8 DEF WritesTurn
  <1>15. ASSUME NEW t \in Turns, NEW k \in 1..MaxAttempt,
                NEW how \in {"completed", "no_reply", "failed", "cancelled"},
                NEW delivered \in BOOLEAN, FinishTurn(t, k, how, delivered)
         PROVE  WritesTurn(t)
    <2>1. k \in Nat /\ turn[t] \in Turn /\ turn[t].status = "leased" /\ UNCHANGED <<conv, intent>>
      BY <1>15, <1>f, BoundsAssumption DEF FinishTurn, OwnLease
    <2>2. PICK st \in Outcomes, er \in Errors : turn' = [turn EXCEPT ![t] = Finished(turn[t], st, er, k)]
      BY <1>15 DEF FinishTurn, Outcomes, Errors
    <2>3. Finished(turn[t], st, er, k).channel = turn[t].channel
      BY <2>1, <2>2, FinishedFacts
    <2>4. turn'[t] = Finished(turn[t], st, er, k) /\ \A u \in Turns : u # t => turn'[u] = turn[u]
      BY <1>f, <2>2
    <2>5. QED
      BY <2>1, <2>3, <2>4 DEF WritesTurn
  <1>16. ASSUME NEW t \in Turns, NEW p \in Parts, PublishIntent(t, p) \/ PublicationFails(t, p)
         PROVE  WritesPart(t, p)
    <2>1. turn' = turn /\ conv' = conv /\ intent[t][p].status = "committed"
      BY <1>16 DEF PublishIntent, PublicationFails
    <2>2. PICK i : intent' = [intent EXCEPT ![t][p] = i]
      BY <1>16 DEF PublishIntent, PublicationFails
    <2>3. QED
      BY <1>f, <2>1, <2>2 DEF WritesPart
  <1>17. CASE UNCHANGED vars
    BY <1>17 DEF vars, OnlyCancels
  <1>18. QED
    BY <1>1, <1>2, <1>3, <1>4, <1>5, <1>6, <1>7, <1>8, <1>9, <1>10, <1>11, <1>12, <1>13,
       <1>14, <1>15, <1>16, <1>17
       DEF Next, Message, Command, Runtime, Publication

\* BehindStep: no step leaves a committed part behind in another channel.
LEMMA BehindStep ==
  ASSUME TypeOK, NothingLeftBehind, [Next]_vars
  PROVE  NothingLeftBehind'
  <1>f. turn \in [Turns -> Turn]
    BY DEF TypeOK
  <1>1. CASE OnlyCancels
    <2>1. \A t \in Turns : turn'[t].channel = turn[t].channel
      BY <1>1, <1>f, CancelFacts DEF OnlyCancels, SameReceipt
    <2>2. QED
      BY <1>1, <2>1 DEF OnlyCancels, NothingLeftBehind
  <1>2. ASSUME NEW t \in Turns, WritesTurn(t) PROVE NothingLeftBehind'
    BY <1>2 DEF WritesTurn, NothingLeftBehind
  <1>3. ASSUME NEW t \in Turns, NEW p \in Parts, WritesPart(t, p) PROVE NothingLeftBehind'
    BY <1>3 DEF WritesPart, NothingLeftBehind
  <1>4. QED
    BY <1>1, <1>2, <1>3, StepShape

\* RepliesMove: a part committed but not yet published always belongs to the channel
\* the conversation is in, so the read-only archived channel never holds one back
\* (apply in client_threads/migration.rs).
THEOREM RepliesMove == Spec => []NothingLeftBehind
  <1>1. Init => NothingLeftBehind
    BY DEF Init, NothingLeftBehind, NoIntent
  <1>2. TypeOK /\ NothingLeftBehind /\ [Next]_vars => NothingLeftBehind'
    BY BehindStep
  <1>3. QED
    BY <1>1, <1>2, TypeCorrect, PTL DEF Spec

\* FinalReply: a turn that has replied is never written again, and none of its parts
\* that was published, failed or never written changes (commit_airhop_hermes_reply).
THEOREM FinalReply == Spec => ReplyFinal
  <1> DEFINE Kept(t) == turn[t].replyVersion # 0 =>
         /\ turn'[t] = turn[t]
         /\ \A p \in Parts : intent[t][p].status \in {"none", "published", "failed"}
                            => intent'[t][p] = intent[t][p]
  <1>1. IInv /\ [Next]_vars => [\A t \in Turns : Kept(t)]_vars
    <2> SUFFICES ASSUME IInv, [Next]_vars, NEW u \in Turns, turn[u].replyVersion # 0
                 PROVE  /\ turn'[u] = turn[u]
                        /\ \A p \in Parts :
                             intent[u][p].status \in {"none", "published", "failed"}
                             => intent'[u][p] = intent[u][p]
      OBVIOUS
    <2>1. turn \in [Turns -> Turn] /\ turn[u].status = "completed" /\ TypeOK
      BY DEF IInv, ReplyFence, TypeOK
    <2>2. CASE OnlyCancels
      BY <2>1, <2>2, CancelFacts DEF OnlyCancels
    <2>3. ASSUME NEW t \in Turns, WritesTurn(t)
          PROVE  turn'[u] = turn[u] /\ intent'[u] = intent[u]
      BY <2>1, <2>3 DEF WritesTurn
    <2>4. ASSUME NEW t \in Turns, NEW q \in Parts, WritesPart(t, q)
          PROVE  /\ turn'[u] = turn[u]
                 /\ \A p \in Parts : intent[u][p].status \in {"none", "published", "failed"}
                                     => intent'[u][p] = intent[u][p]
      BY <2>4 DEF WritesPart
    <2>5. QED
      BY <2>1, <2>2, <2>3, <2>4, StepShape
  <1>2. QED
    BY <1>1, Inductive, PTL DEF Spec, ReplyFinal

-----------------------------------------------------------------------------
(* The conversation implements the ledger of replies.                      *)

\* The refinement mapping: the outstanding grants and the replies.
Grants  == {<<t, turn[t].fence>> : t \in {u \in Turns : turn[u].status = "leased"}}
Replies == [t \in Turns |-> turn[t].replyVersion]

\* The steps of the ledger, under the mapping.
MapsToRefence ==
  /\ conv'.version = conv.version + 1 /\ conv'.owner \in {"hermes", "human"}
  /\ Grants' \in {{}, Grants} /\ (conv'.owner # conv.owner => Grants' = {})
  /\ Replies' = Replies

MapsToRevoke == Grants' = {} /\ conv'.owner = conv.owner /\ conv'.version = conv.version
                /\ Replies' = Replies

MapsToGrant(t) ==
  /\ conv.owner = "hermes" /\ Replies[t] = 0 /\ Grants' = {<<t, conv.version>>}
  /\ conv'.owner = conv.owner /\ conv'.version = conv.version /\ Replies' = Replies

MapsToReply(t) ==
  /\ conv.owner = "hermes" /\ <<t, conv.version>> \in Grants /\ Grants' = {}
  /\ Replies' = [Replies EXCEPT ![t] = conv.version]
  /\ \/ conv'.owner = conv.owner /\ conv'.version = conv.version
     \/ conv'.owner = "human" /\ conv'.version = conv.version + 1

MapsToStutter == Grants' = Grants /\ conv'.owner = conv.owner
                 /\ conv'.version = conv.version /\ Replies' = Replies

\* LedgerStep: what maps to a step of the ledger is one.
LEMMA LedgerStep ==
  ASSUME \/ MapsToRefence \/ MapsToRevoke \/ MapsToStutter
         \/ \E t \in Turns : MapsToGrant(t) \/ MapsToReply(t)
  PROVE  [Ledger!Next]_(Ledger!ledger)
  <1>1. CASE MapsToRefence
    BY <1>1 DEF MapsToRefence, Ledger!Next, Ledger!Refence, Grants, Replies
  <1>2. CASE MapsToRevoke
    BY <1>2 DEF MapsToRevoke, Ledger!Next, Ledger!Revoke, Grants, Replies
  <1>3. CASE MapsToStutter
    BY <1>3 DEF MapsToStutter, Ledger!ledger, Grants, Replies
  <1>4. ASSUME NEW t \in Turns, MapsToGrant(t) PROVE Ledger!Next
    BY <1>4 DEF MapsToGrant, Ledger!Next, Ledger!Grant, Grants, Replies
  <1>5. ASSUME NEW t \in Turns, MapsToReply(t) PROVE Ledger!Next
    BY <1>5 DEF MapsToReply, Ledger!Next, Ledger!Reply, Grants, Replies
  <1>6. QED
    BY <1>1, <1>2, <1>3, <1>4, <1>5

\* CancelGrants: cancel_active_turns revokes every grant and keeps the replies.
LEMMA CancelGrants ==
  ASSUME TypeOK, turn' = cancel_active_turns(turn)
  PROVE  Grants' = {} /\ Replies' = Replies
  <1>1. \A t \in Turns : turn'[t].status # "leased" /\ turn'[t].replyVersion = turn[t].replyVersion
    BY CancelFacts DEF TypeOK, SameReceipt
  <1>2. QED
    BY <1>1 DEF Grants, Replies

\* Simulation: every step of the conversation is a step of the ledger or a stutter.
LEMMA Simulation ==
  ASSUME IInv, [Next]_vars
  PROVE  \/ MapsToRefence \/ MapsToRevoke \/ MapsToStutter
         \/ \E t \in Turns : MapsToGrant(t) \/ MapsToReply(t)
  <1>0. TypeOK /\ IInv' /\ SingleLease' /\ SingleLease /\ ReplyFence
    BY InvStep DEF IInv
  <1>f. conv \in Conversation /\ turn \in [Turns -> Turn] /\ conv.owner \in {"hermes", "human"}
    BY <1>0 DEF TypeOK, Conversation, Owners
  <1>c. turn' = cancel_active_turns(turn) => Grants' = {} /\ Replies' = Replies
    BY <1>0, CancelGrants
  <1>q. turn' = turn => Grants' = Grants /\ Replies' = Replies
    BY DEF Grants, Replies
  <1>t. ASSUME NEW reason \in Endings, take_over(reason) PROVE MapsToRefence
    BY <1>t, <1>c, <1>f, TakenOverFacts DEF take_over, MapsToRefence
  <1>e. "human_takeover" \in Endings /\ "staff_pause" \in Endings /\ "hermes_handoff" \in Endings
    BY DEF Endings
  <1>1. ASSUME NEW e \in ParentEvents, InboundParent(e) PROVE MapsToRefence \/ MapsToStutter
    BY <1>1, <1>f, <1>q, InboundFacts DEF InboundParent, MapsToRefence, MapsToStutter
  <1>2. ASSUME NEW e \in StaffEvents, StaffReply(e) \/ StaffPause(e) \/ ResolvePause(e)
        PROVE  MapsToRefence
    BY <1>2, <1>t, <1>e DEF StaffReply, StaffPause, ResolvePause
  <1>3. ASSUME NEW e \in StaffEvents, StaffResume(e) \/ ResolveResume(e) PROVE MapsToRefence
    BY <1>3, <1>c, <1>f, ResumedFacts DEF StaffResume, ResolveResume, MapsToRefence
  <1>4. ASSUME NEW e \in StaffEvents, StaffAsk(e) \/ StaffNote(e) \/ ResolveOther(e)
        PROVE  MapsToStutter
    BY <1>4, <1>q DEF StaffAsk, StaffNote, ResolveOther, MapsToStutter
  <1>5. ASSUME (\E q \in Queues : SetStatus(q)) \/ MigrateLegacy \/ BindByHandoff
        PROVE  MapsToRefence
    <2>1. turn' = cancel_active_turns(turn)
      BY <1>5 DEF SetStatus, MigrateLegacy, BindByHandoff
    <2>2. conv'.version = conv.version + 1 /\ conv'.owner = conv.owner
      BY <1>5, <1>f DEF SetStatus, MigrateLegacy, BindByHandoff, Conversation
    <2>3. QED
      BY <1>c, <1>f, <2>1, <2>2 DEF MapsToRefence
  <1>6. ASSUME AssignBranch \/ \E t \in Turns : BindByBooking(t) PROVE MapsToStutter
    BY <1>6, <1>f, <1>q DEF AssignBranch, BindByBooking, MapsToStutter, Conversation
  <1>7. ASSUME NEW live \in BOOLEAN, PutDeployment(live) PROVE MapsToRevoke
    BY <1>7, <1>c DEF PutDeployment, MapsToRevoke
  <1>8. ASSUME NEW l \in Links, PutLink(l) PROVE MapsToStutter
    BY <1>8, <1>q DEF PutLink, MapsToStutter
  <1>x. ASSUME NEW t \in Turns, NEW r \in Turn, r.status = "leased", r.fence = conv.version,
               r.replyVersion = turn[t].replyVersion, turn[t].status # "completed",
               HermesOwns, turn' = [FailExpired(turn, t) EXCEPT ![t] = r], conv' = conv
        PROVE  MapsToGrant(t)
    <2>1. /\ FailExpired(turn, t) \in [Turns -> Turn]
          /\ \A u \in Turns : FailExpired(turn, t)[u].replyVersion = turn[u].replyVersion
      BY <1>f, FailExpiredFacts DEF SameReceipt
    <2>2. turn'[t] = r /\ \A u \in Turns : turn'[u].replyVersion = turn[u].replyVersion
      BY <1>x, <2>1
    <2>3. \A u \in Turns : turn'[u].status = "leased" <=> u = t
      BY <1>0, <1>x, <2>2 DEF SingleLease
    <2>4. Grants' = {<<t, conv.version>>}
      <3>1. {u \in Turns : turn'[u].status = "leased"} = {t}
        BY <2>3
      <3>2. QED
        BY <1>x, <2>2, <3>1 DEF Grants
    <2>5. Replies[t] = 0 /\ Replies' = Replies
      BY <1>0, <1>x, <2>2 DEF Replies, ReplyFence
    <2>6. QED
      BY <1>x, <2>4, <2>5 DEF MapsToGrant, HermesOwns
  <1>9. ASSUME NEW t \in Turns, NEW b \in Batches, NEW e \in Events, LeaseNew(t, b, e)
        PROVE  MapsToGrant(t)
    <2>1. turn[t].status = "free" /\ HermesOwns /\ conv' = conv
          /\ turn' = [FailExpired(turn, t) EXCEPT ![t] = NewTurn(b, e)]
      BY <1>9 DEF LeaseNew, NewBatch, BatchRoute
    <2>2. turn[t].replyVersion = 0
      BY <1>0, <2>1 DEF ReplyFence
    <2>3. QED
      BY <1>f, <1>x, <2>1, <2>2, NewTurnFacts
  <1>10. ASSUME NEW t \in Turns, LeaseAgain(t) PROVE MapsToGrant(t)
    <2>1. turn[t].status # "completed" /\ HermesOwns /\ conv' = conv
          /\ turn' = [FailExpired(turn, t) EXCEPT ![t] = Rotated(turn[t])]
      BY <1>10 DEF LeaseAgain, Recoverable, BatchRoute
    <2>2. QED
      BY <1>f, <1>x, <2>1, RotatedFacts
  <1>11. ASSUME NEW t \in Turns, LeaseExpires(t) PROVE MapsToStutter
    <2>1. turn[t] \in Turn
      BY <1>f
    <2>2. LET r == [turn[t] EXCEPT !.expired = TRUE] IN
          r.status = turn[t].status /\ r.fence = turn[t].fence
          /\ r.replyVersion = turn[t].replyVersion
      BY <2>1 DEF Turn
    <2>3. turn'[t] = [turn[t] EXCEPT !.expired = TRUE] /\ \A u \in Turns : u # t => turn'[u] = turn[u]
      BY <1>11, <1>f DEF LeaseExpires
    <2>4. \A u \in Turns : /\ turn'[u].status = turn[u].status /\ turn'[u].fence = turn[u].fence
                           /\ turn'[u].replyVersion = turn[u].replyVersion
      BY <2>2, <2>3
    <2>5. Grants' = Grants /\ Replies' = Replies
      BY <2>4 DEF Grants, Replies
    <2>6. QED
      BY <1>11, <2>5 DEF LeaseExpires, MapsToStutter
  <1>y. ASSUME NEW t \in Turns, turn[t].status = "leased", \A u \in Turns : u # t => turn'[u] = turn[u],
               turn'[t].status # "leased"
        PROVE  Grants' = {}
    BY <1>0, <1>y DEF Grants, SingleLease
  <1>12. ASSUME NEW t \in Turns, NEW k \in 1..MaxAttempt, NEW n \in Parts,
                NEW handoff \in BOOLEAN, CommitReply(t, k, n, handoff)
         PROVE  MapsToReply(t)
    <2> DEFINE r == Replied(turn[t], k)
               done == [turn EXCEPT ![t] = r]
    <2>1. k \in Nat /\ turn[t] \in Turn /\ turn[t].status = "leased" /\ turn[t].cycle = conv.cycle
          /\ conv.owner = "hermes"
      BY <1>12, <1>f, BoundsAssumption DEF CommitReply, OwnLease, HermesOwns
    <2>2. r \in Turn /\ r.status = "completed" /\ r.replyVersion = conv.version
      BY <1>f, <2>1, RepliedFacts
    <2> HIDE DEF r
    <2>3. done \in [Turns -> Turn] /\ done[t] = r /\ \A u \in Turns : u # t => done[u] = turn[u]
      BY <1>f, <2>2
    <2>4. \A u \in Turns : done[u].status # "leased"
      BY <1>0, <2>1, <2>2, <2>3 DEF SingleLease
    <2> HIDE DEF done
    <2>5. cancel_active_turns(done) = done
      BY <2>3, <2>4 DEF cancel_active_turns
    <2>6. turn' = done
      BY <1>12, <2>5 DEF CommitReply, done, r
    <2>7. Grants' = {}
      BY <1>y, <2>1, <2>2, <2>3, <2>6
    <2>8. Replies' = [Replies EXCEPT ![t] = conv.version]
      BY <2>2, <2>3, <2>6 DEF Replies
    <2>9. <<t, conv.version>> \in Grants
      <3>1. turn[t].fence = conv.version
        BY <2>1 DEF IInv, LeaseFence
      <3>2. QED
        BY <2>1, <3>1 DEF Grants
    <2>10. \/ conv'.owner = conv.owner /\ conv'.version = conv.version
           \/ conv'.owner = "human" /\ conv'.version = conv.version + 1
      BY <1>12, <1>f, <1>e, TakenOverFacts DEF CommitReply
    <2>11. QED
      BY <2>1, <2>7, <2>8, <2>9, <2>10 DEF MapsToReply
  <1>13. ASSUME NEW t \in Turns, NEW k \in 1..MaxAttempt,
                NEW how \in {"completed", "no_reply", "failed", "cancelled"},
                NEW delivered \in BOOLEAN, FinishTurn(t, k, how, delivered)
         PROVE  MapsToRevoke
    <2>1. k \in Nat /\ turn[t] \in Turn /\ turn[t].status = "leased" /\ conv' = conv
      BY <1>13, <1>f, BoundsAssumption DEF FinishTurn, OwnLease
    <2>2. PICK st \in Outcomes, er \in Errors : turn' = [turn EXCEPT ![t] = Finished(turn[t], st, er, k)]
      BY <1>13 DEF FinishTurn, Outcomes, Errors
    <2>3. Finished(turn[t], st, er, k).status = st
          /\ Finished(turn[t], st, er, k).replyVersion = turn[t].replyVersion
      BY <2>1, <2>2, FinishedFacts
    <2>4. turn'[t] = Finished(turn[t], st, er, k) /\ \A u \in Turns : u # t => turn'[u] = turn[u]
      BY <1>f, <2>2
    <2>5. Grants' = {}
      BY <1>y, <2>1, <2>2, <2>3, <2>4 DEF Outcomes
    <2>6. Replies' = Replies
      BY <2>3, <2>4 DEF Replies
    <2>7. QED
      BY <2>1, <2>5, <2>6 DEF MapsToRevoke
  <1>14. ASSUME NEW t \in Turns, NEW p \in Parts, PublishIntent(t, p) \/ PublicationFails(t, p)
         PROVE  MapsToStutter
    BY <1>14, <1>q DEF PublishIntent, PublicationFails, MapsToStutter
  <1>15. CASE UNCHANGED vars
    BY <1>15, <1>q DEF vars, MapsToStutter
  <1>16. QED
    BY <1>1, <1>2, <1>3, <1>4, <1>5, <1>6, <1>7, <1>8, <1>9, <1>10, <1>11, <1>12, <1>13,
       <1>14, <1>15
       DEF Next, Message, Command, Runtime, Publication

\* Implementation: the conversation implements ReplyLedger: a reply is sent only on a
\* grant given under the control version still in force, whatever staff commands,
\* takeovers, expiries and retries come between (commit_airhop_hermes_reply).
THEOREM Implementation == Spec => ImplementsLedger
  <1>1. Init => Ledger!Init
    <2>1. ASSUME Init PROVE Grants = {} /\ Replies = [t \in Turns |-> 0]
      BY <2>1 DEF Init, FreeTurn, Grants, Replies
    <2>2. QED
      BY <2>1 DEF Init, Ledger!Init, Grants, Replies
  <1>2. IInv /\ [Next]_vars => [Ledger!Next]_(Ledger!ledger)
    BY Simulation, LedgerStep
  <1>3. QED
    BY <1>1, <1>2, Inductive, PTL DEF Spec, ImplementsLedger, Ledger!Spec

-----------------------------------------------------------------------------
(* Going back to Hermes.                                                   *)

\* While a human owns the conversation, a command the classifier may still decide on
\* was received after the takeover.
PendingNewer ==
  /\ humanSince <= clock
  /\ conv.owner = "human" =>
       \A e \in Events : receipt[e].reason = "staff_control_pending"
                         /\ receipt[e].version = conv.version => event[e].at > humanSince

\* A step that raises the version; no pending command is written under it.
RaisesVersion ==
  /\ conv'.version = conv.version + 1
  /\ \A e \in Events : receipt'[e].reason = "staff_control_pending" => receipt'[e] = receipt[e]
  /\ humanSince' <= clock'
  /\ conv'.owner = "hermes" => conv.owner = "hermes"

\* A step that keeps version and owner; a pending command is old or just received.
KeepsVersion ==
  /\ conv'.version = conv.version /\ conv'.owner = conv.owner
  /\ humanSince' = humanSince /\ clock' \in {clock, clock + 1}
  /\ \A e \in Events : receipt'[e].reason = "staff_control_pending" =>
       \/ receipt'[e] = receipt[e] /\ event'[e] = event[e]
       \/ event'[e].at = clock + 1

\* A step by which staff hand the conversation to Hermes.
HandsToHermes ==
  /\ conv'.owner = "hermes" /\ humanSince' = humanSince /\ clock' \in {clock, clock + 1}
  /\ \E e \in StaffEvents : /\ receipt'[e].reason = "staff_resume"
                            /\ receipt'[e].version = conv'.version
                            /\ \/ event'[e].at = clock + 1
                               \/ /\ receipt[e].reason = "staff_control_pending"
                                  /\ receipt[e].version = conv.version /\ event' = event

\* ReceiveFacts: Receive(e) gives e the next received_at and touches no other event.
LEMMA ReceiveFacts ==
  ASSUME TypeOK, NEW e \in Events, Receive(e)
  PROVE  /\ clock' = clock + 1 /\ event'[e].at = clock + 1
         /\ \A f \in Events : f # e => event'[f] = event[f]
  BY DEF TypeOK, Receive

\* OwnerShape: every step is of one of the three kinds.
LEMMA OwnerShape ==
  ASSUME IInv, humanSince <= clock, [Next]_vars
  PROVE  RaisesVersion \/ KeepsVersion \/ HandsToHermes
  <1>0. TypeOK /\ HermesOwnsOpenCycle
    BY DEF IInv
  <1>f. /\ conv \in Conversation /\ turn \in [Turns -> Turn] /\ receipt \in [Events -> Receipt]
        /\ clock \in Nat /\ humanSince \in Nat /\ conv.version \in Nat
    BY <1>0, Fields DEF TypeOK
  <1>s. StaffEvents \subseteq Events /\ ParentEvents \subseteq Events
    BY DEF Events
  <1>q. UNCHANGED <<event, clock, receipt, humanSince>>
        => /\ \A e \in Events : receipt'[e] = receipt[e] /\ event'[e] = event[e]
           /\ humanSince' <= clock' /\ clock' \in {clock, clock + 1}
    OBVIOUS
  <1>t. ASSUME NEW reason \in Endings, take_over(reason)
        PROVE  conv'.version = conv.version + 1 /\ conv'.owner = "human"
    BY <1>t, <1>f, TakenOverFacts DEF take_over
  <1>e. "human_takeover" \in Endings /\ "staff_pause" \in Endings /\ "hermes_handoff" \in Endings
    BY DEF Endings
  <1>1. ASSUME NEW e \in ParentEvents, InboundParent(e) PROVE RaisesVersion \/ KeepsVersion
    <2>1. e \in Events /\ Receive(e) /\ conv' = record_inbound(conv) /\ humanSince' = humanSince
      BY <1>1, <1>s DEF InboundParent
    <2>2. receipt'[e].reason # "staff_control_pending" /\ \A f \in Events : f # e => receipt'[f] = receipt[f]
      BY <1>1, <1>f, <2>1 DEF InboundParent
    <2>3. clock' = clock + 1 /\ \A f \in Events : f # e => event'[f] = event[f]
      BY <1>0, <2>1, ReceiveFacts
    <2>4. /\ conv'.owner = conv.owner
          /\ conv'.version = conv.version \/ conv'.version = conv.version + 1
      BY <1>f, <2>1, InboundFacts
    <2>5. humanSince' <= clock'
      BY <1>f, <2>1, <2>3
    <2>6. QED
      BY <2>1, <2>2, <2>3, <2>4, <2>5 DEF RaisesVersion, KeepsVersion
  <1>2. ASSUME NEW e \in StaffEvents, StaffReply(e) \/ StaffPause(e) PROVE RaisesVersion
    <2>1. conv'.version = conv.version + 1 /\ conv'.owner = "human"
      BY <1>2, <1>t, <1>e DEF StaffReply, StaffPause
    <2>2. receipt' = receipt /\ humanSince' = clock' /\ clock' = clock + 1
      BY <1>2 DEF StaffReply, StaffPause, Receive
    <2>3. QED
      BY <1>f, <2>1, <2>2 DEF RaisesVersion
  <1>3. ASSUME NEW e \in StaffEvents, StaffResume(e) PROVE HandsToHermes
    <2>1. conv'.owner = "hermes" /\ conv'.version = conv.version + 1 /\ humanSince' = humanSince
      BY <1>3, <1>f, ResumedFacts DEF StaffResume
    <2>2. receipt'[e].reason = "staff_resume" /\ receipt'[e].version = conv.version + 1
      BY <1>3, <1>f, <1>s DEF StaffResume, ResumeReceipt
    <2>3. clock' = clock + 1 /\ event'[e].at = clock + 1
      BY <1>0, <1>3, <1>s, ReceiveFacts DEF StaffResume
    <2>4. QED
      BY <2>1, <2>2, <2>3 DEF HandsToHermes
  <1>4. ASSUME NEW e \in StaffEvents, StaffAsk(e) \/ StaffNote(e) PROVE KeepsVersion
    <2>1. Receive(e) /\ conv' = conv /\ humanSince' = humanSince /\ e \in Events
      BY <1>4, <1>s DEF StaffAsk, StaffNote
    <2>2. \A f \in Events : f # e => receipt'[f] = receipt[f]
      BY <1>4, <1>f DEF StaffAsk, StaffNote
    <2>3. /\ clock' = clock + 1 /\ event'[e].at = clock + 1
          /\ \A f \in Events : f # e => event'[f] = event[f]
      BY <1>0, <2>1, ReceiveFacts
    <2>4. QED
      BY <2>1, <2>2, <2>3 DEF KeepsVersion
  <1>5. ASSUME NEW e \in StaffEvents, ResolveResume(e) PROVE HandsToHermes
    <2>1. conv'.owner = "hermes" /\ conv'.version = conv.version + 1
      BY <1>5, <1>f, ResumedFacts DEF ResolveResume
    <2>2. receipt'[e].reason = "staff_resume" /\ receipt'[e].version = conv.version + 1
      BY <1>5, <1>s DEF ResolveResume, ResumeReceipt
    <2>3. /\ humanSince' = humanSince /\ clock' = clock /\ event' = event
          /\ receipt[e].reason = "staff_control_pending" /\ receipt[e].version = conv.version
      BY <1>5 DEF ResolveResume, ControlCandidate
    <2>4. QED
      BY <2>1, <2>2, <2>3 DEF HandsToHermes
  <1>6. ASSUME NEW e \in StaffEvents, ResolvePause(e) PROVE RaisesVersion
    <2>1. conv'.version = conv.version + 1 /\ conv'.owner = "human"
      BY <1>6, <1>t, <1>e DEF ResolvePause
    <2>2. humanSince' = clock /\ clock' = clock
          /\ receipt' = [receipt EXCEPT ![e].reason = "staff_pause"]
      BY <1>6 DEF ResolvePause
    <2>3. receipt'[e].reason = "staff_pause" /\ \A f \in Events : f # e => receipt'[f] = receipt[f]
      BY <1>f, <1>s, <2>2 DEF Receipt
    <2>4. QED
      BY <1>f, <2>1, <2>2, <2>3 DEF RaisesVersion
  <1>7. ASSUME NEW e \in StaffEvents, ResolveOther(e) PROVE KeepsVersion
    <2>1. UNCHANGED <<conv, event, clock, humanSince>>
          /\ receipt' = [receipt EXCEPT ![e].reason = "staff_internal"]
      BY <1>7 DEF ResolveOther
    <2>2. receipt'[e].reason = "staff_internal" /\ \A f \in Events : f # e => receipt'[f] = receipt[f]
      BY <1>f, <1>s, <2>1 DEF Receipt
    <2>3. QED
      BY <2>1, <2>2 DEF KeepsVersion
  <1>8. ASSUME (\E q \in Queues : SetStatus(q)) \/ MigrateLegacy \/ BindByHandoff
        PROVE  RaisesVersion
    <2>1. UNCHANGED <<event, clock, receipt, humanSince>>
      BY <1>8 DEF SetStatus, MigrateLegacy, BindByHandoff
    <2>2. conv'.version = conv.version + 1 /\ conv'.owner = conv.owner
      BY <1>8, <1>f DEF SetStatus, MigrateLegacy, BindByHandoff, Conversation
    <2>3. QED
      BY <1>q, <2>1, <2>2 DEF RaisesVersion
  <1>9. ASSUME AssignBranch \/ \E t \in Turns : BindByBooking(t) PROVE KeepsVersion
    <2>1. UNCHANGED <<event, clock, receipt, humanSince>>
      BY <1>9 DEF AssignBranch, BindByBooking
    <2>2. conv'.version = conv.version /\ conv'.owner = conv.owner
      BY <1>9, <1>f DEF AssignBranch, BindByBooking, Conversation
    <2>3. QED
      BY <1>q, <2>1, <2>2 DEF KeepsVersion
  <1>10. ASSUME NEW t \in Turns, NEW k \in 1..MaxAttempt, NEW n \in Parts,
                NEW handoff \in BOOLEAN, CommitReply(t, k, n, handoff)
         PROVE  RaisesVersion \/ KeepsVersion
    <2>1. UNCHANGED <<event, clock, receipt>> /\ conv.owner = "hermes"
      BY <1>10 DEF CommitReply, HermesOwns
    <2>2. CASE handoff
      <3>1. conv'.version = conv.version + 1 /\ humanSince' = clock
        BY <1>10, <1>f, <1>e, <2>2, TakenOverFacts DEF CommitReply
      <3>2. QED
        BY <1>f, <2>1, <3>1 DEF RaisesVersion
    <2>3. CASE ~handoff
      <3>1. conv' = conv /\ humanSince' = humanSince
        BY <1>10, <2>3 DEF CommitReply
      <3>2. QED
        BY <2>1, <3>1 DEF KeepsVersion
    <2>4. QED
      BY <2>2, <2>3
  <1>11. ASSUME UNCHANGED <<conv, event, clock, receipt, humanSince>> PROVE KeepsVersion
    BY <1>11 DEF KeepsVersion
  <1>12. ASSUME \/ \E live \in BOOLEAN : PutDeployment(live)
                \/ \E l \in Links : PutLink(l)
                \/ \E t \in Turns, b \in Batches, e \in Events : LeaseNew(t, b, e)
                \/ \E t \in Turns : LeaseAgain(t) \/ LeaseExpires(t)
                \/ \E t \in Turns, k \in 1..MaxAttempt,
                      how \in {"completed", "no_reply", "failed", "cancelled"},
                      delivered \in BOOLEAN : FinishTurn(t, k, how, delivered)
                \/ Publication
                \/ UNCHANGED vars
         PROVE  KeepsVersion
    BY <1>11, <1>12 DEF PutDeployment, PutLink, LeaseNew, LeaseAgain, LeaseExpires, FinishTurn,
       Publication, PublishIntent, PublicationFails, vars
  <1>13. QED
    BY <1>1, <1>2, <1>3, <1>4, <1>5, <1>6, <1>7, <1>8, <1>9, <1>10, <1>12
       DEF Next, Message, Command, Runtime

\* PendingStep: no step makes a command older than the takeover decidable.
LEMMA PendingStep ==
  ASSUME IInv, PendingNewer, [Next]_vars
  PROVE  PendingNewer'
  <1>0. /\ clock \in Nat /\ humanSince \in Nat /\ conv.version \in Nat /\ humanSince <= clock
        /\ \A e \in Events : receipt[e].version \in Nat /\ receipt[e].version <= conv.version
    BY Fields DEF IInv, TypeOK, StoredNotAhead, PendingNewer
  <1>1. CASE RaisesVersion
    BY <1>0, <1>1 DEF RaisesVersion, PendingNewer
  <1>2. CASE KeepsVersion
    BY <1>0, <1>2 DEF KeepsVersion, PendingNewer
  <1>3. CASE HandsToHermes
    BY <1>0, <1>3 DEF HandsToHermes, PendingNewer
  <1>4. QED
    BY <1>0, <1>1, <1>2, <1>3, OwnerShape

\* NewerResume: the conversation goes back to Hermes only on a staff command received
\* after the takeover (resolve_airhop_staff_control_batch, and "@Hermes continue").
THEOREM NewerResume == Spec => ResumeNewerThanTakeover
  <1>1. Init => PendingNewer
    BY DEF Init, PendingNewer, NoReceipt
  <1>2. IInv /\ PendingNewer /\ [Next]_vars => PendingNewer'
    BY PendingStep
  <1> DEFINE Newer == conv.owner = "human" /\ conv'.owner = "hermes" =>
                        \E e \in StaffEvents : /\ event'[e].at > humanSince
                                               /\ receipt'[e].reason = "staff_resume"
                                               /\ receipt'[e].version = conv'.version
  <1>3. IInv /\ PendingNewer /\ [Next]_vars => [Newer]_vars
    <2> SUFFICES ASSUME IInv, PendingNewer, [Next]_vars, conv.owner = "human", conv'.owner = "hermes"
                 PROVE  \E e \in StaffEvents : /\ event'[e].at > humanSince
                                               /\ receipt'[e].reason = "staff_resume"
                                               /\ receipt'[e].version = conv'.version
      OBVIOUS
    <2>1. clock \in Nat /\ humanSince \in Nat /\ humanSince <= clock /\ StaffEvents \subseteq Events
      BY Fields DEF IInv, TypeOK, PendingNewer, Events
    <2>2. HandsToHermes
      BY <2>1, OwnerShape DEF RaisesVersion, KeepsVersion
    <2>3. QED
      BY <2>1, <2>2 DEF HandsToHermes, PendingNewer
  <1>4. QED
    BY <1>1, <1>2, <1>3, Inductive, PTL DEF Spec, ResumeNewerThanTakeover

=============================================================================
