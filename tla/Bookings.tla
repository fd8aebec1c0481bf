------------------------------ MODULE Bookings ------------------------------
(***************************************************************************)
(* Bookings of the lessons of one group: reservations from the web form,   *)
(* the chat and the staff, decisions of the staff and of Hermes, commands  *)
(* of the parent, cancelled and changed lessons, changes of the group, and *)
(* enrollments; and the notices that tell a parent the staff's decision.   *)
(*                                                                         *)
(* crates/buzz-db/src/airhop: booking.rs, public_booking.rs,               *)
(* conversation_booking.rs, lesson_participants.rs, booking_decision.rs,   *)
(* public_management.rs, lesson_exception.rs, group_directory.rs,          *)
(* schedule.rs; crates/airhop-core/src/schedule.rs.                        *)
(*                                                                         *)
(* Every command is one transaction at READ COMMITTED.  Its row locks and  *)
(* the reads that no lock protects are steps of their own, in the order of *)
(* the code; what it writes is seen by others when it commits, and its     *)
(* locks are held until then.  Lessons lie in the future, all bookings are *)
(* trials, and people, consents, branches and ages are valid.  The lock of *)
(* a recurrence rule is only taken under the lock of its group, and the    *)
(* lock of a phone number together with the key: both are left out.        *)
(***************************************************************************)
EXTENDS Integers, Sequences, FiniteSets

CONSTANTS
    Lessons,      \* occurrences of the group, each of a rule of its own
    Children,     \* children on record; a web form creates another one
    Seeds,        \* bookings that exist initially
    Requests,     \* idempotency keys
    MaxTries,     \* bound: transactions per request
    Capacities,   \* values of a capacity, NoLimit among them
    MaxAttempts,  \* MAX_DELIVERY_ATTEMPTS
    MaxLeases,    \* bound: leases of notices
    Configs       \* bounds: records of the fields below

NoLimit == -1
Tries == Requests \X (1..MaxTries)
Ids == Seeds \cup Tries
Applicants == Children \cup Tries
Leases == 1..MaxLeases
Callbacks == 1..2

Kinds == {"none", "web", "chat", "add", "decide", "online", "leave", "transfer",
          "cancel", "override", "restore", "group", "enroll", "trial"}

Ops == [kind : Kinds, lesson : Lessons, child : Children, booking : Ids,
        answer : {"pending", "confirmed", "rejected"}, capacity : Capacities,
        status : {"active", "archived"}, rule : [Lessons -> {"kept", "narrowed", "archived"}]]

Statuses == {"pending", "confirmed", "rejected", "left", "cancelled"}

\* The rows of airhop_bookings.
BookingRows == [child : Applicants, lesson : Lessons, status : Statuses, transfer : BOOLEAN]

\* The bookings that exist are not those of requests to come; a decision of the
\* staff confirms or rejects.
ASSUME BookingsAssumption ==
    /\ MaxTries \in Nat \ {0}
    /\ MaxAttempts \in Nat \ {0}
    /\ MaxLeases \in Nat
    /\ NoLimit \in Capacities /\ Capacities \subseteq Nat \cup {NoLimit}
    /\ IsFiniteSet(Children) /\ IsFiniteSet(Seeds) /\ IsFiniteSet(Requests)
    /\ Seeds \cap Tries = {}
    /\ \A c \in Configs : /\ DOMAIN c = {"ops", "capacity", "seeds", "tries", "faults", "messenger"}
                          /\ c.ops \in [Requests -> Ops]
                          /\ \A r \in Requests : c.ops[r].kind = "decide" => c.ops[r].answer # "pending"
                          /\ c.capacity \in Capacities
                          /\ DOMAIN c.seeds \subseteq Seeds
                          /\ \A b \in DOMAIN c.seeds : c.seeds[b] \in BookingRows
                          /\ c.tries \in 1..MaxTries
                          /\ c.faults \in Nat
                          /\ c.messenger \in BOOLEAN

VARIABLES
    config,     \* the bounds of this behaviour
    group,      \* airhop_groups: the group
    rule,       \* airhop_recurrence_rules: the rule of each lesson
    exception,  \* airhop_lesson_exceptions
    lesson,     \* airhop_lesson_occurrences
    booking,    \* airhop_bookings
    enrolled,   \* airhop_enrollments: the lessons each child is enrolled in
    done,       \* airhop_commands: the transactions committed under their keys
    expect,     \* the version each client has seen
    tries,      \* transactions begun for each request
    tx,         \* transactions under way
    notice,     \* airhop_outbox: decisions for the parents
    lease,      \* the bookings of the lease tokens, in the order of their claims
    receipt,    \* airhop_outbox_delivery_attempts, by lease token
    callback,   \* completions of the connector for each lease token
    faults      \* failures so far

sourceVars == <<group, rule, exception, lesson>>
commandVars == <<done, expect, tries, tx>>
noticeVars == <<notice, lease, receipt, callback>>
vars == <<config, sourceVars, booking, enrolled, commandVars, noticeVars, faults>>

None == [none |-> TRUE]

-----------------------------------------------------------------------------
(* Rows *)

Live(b) == booking[b] # None /\ booking[b].status \in {"pending", "confirmed"}

Booked(l) == {booking[b].child : b \in {x \in Ids : Live(x) /\ booking[x].lesson = l}}

Enrolled(l) == {c \in Children : l \in enrolled[c]}

\* The live bookings of a child for a lesson.
Existing(c, l) == {b \in Ids : Live(b) /\ booking[b].child = c /\ booking[b].lesson = l}

HasCapacity(capacity, present, c) ==
    c \in present \/ capacity = NoLimit \/ Cardinality(present) < capacity

\* Mutant: lessons that are no longer produced are deleted.
Materialized_Deleted(g, r, ex) ==
    [l \in Lessons |->
        IF g.status # "active" \/ r[l] # "kept" THEN None
        ELSE [open |-> ex[l].kind # "cancelled",
              capacity |-> IF ex[l].kind = "none" THEN g.capacity ELSE ex[l].capacity]]

\* Lessons that materialize_schedule produces are upserted, the others are cancelled.
Materialized(g, r, ex) ==
    [l \in Lessons |->
        IF g.status # "active" \/ r[l] # "kept" THEN [lesson[l] EXCEPT !.open = FALSE]
        ELSE [open |-> ex[l].kind # "cancelled",
              capacity |-> IF ex[l].kind = "none" THEN g.capacity ELSE ex[l].capacity]]

NoException == [kind |-> "none", capacity |-> NoLimit, version |-> 0]

NoNotice == [state |-> "none", attempts |-> 0, lease |-> 0, expired |-> FALSE, call |-> FALSE]

IdleCallback == [pc |-> "idle", outcome |-> "none", answer |-> "none"]

Init ==
    /\ config \in Configs
    /\ group = [status |-> "active", capacity |-> config.capacity, version |-> 1]
    /\ rule = [l \in Lessons |-> "kept"]
    /\ exception = [l \in Lessons |-> NoException]
    /\ lesson = [l \in Lessons |-> [open |-> TRUE, capacity |-> config.capacity]]
    /\ booking = [b \in Ids |-> IF b \in DOMAIN config.seeds THEN config.seeds[b] ELSE None]
    /\ enrolled = [c \in Children |-> {}]
    /\ done = {}
    /\ expect = [r \in Requests |-> 0]
    /\ tries = [r \in Requests |-> 0]
    /\ tx = [t \in Tries |-> None]
    /\ notice = [b \in Ids |-> NoNotice]
    /\ lease = <<>>
    /\ receipt = [k \in Leases |-> "none"]
    /\ callback = [k \in Leases |-> [i \in Callbacks |-> IdleCallback]]
    /\ faults = 0

-----------------------------------------------------------------------------
(* Transactions: rows locked and values read, in the order of the code *)

Op(t) == config.ops[t[1]]
Running(t) == tx[t] # None
Child(t) == IF Op(t).kind = "web" THEN t ELSE Op(t).child
OnLesson == {"web", "chat", "add", "cancel", "override", "restore", "enroll", "trial"}
LessonOf(t) == IF Op(t).kind \in OnLesson THEN Op(t).lesson ELSE booking[Op(t).booking].lesson

\* Mutant: the web form does not lock the lesson.
ReservePlan_Unlocked(kind) ==
    CASE kind = "web"  -> <<"key", "snapshot", "count">>
      [] kind = "chat" -> <<"key", "child", "lesson", "group", "count">>
      [] kind = "add"  -> <<"key", "child", "lesson", "booking", "count">>

ReservePlan(kind) ==
    CASE kind = "web"  -> <<"key", "snapshot", "lesson", "count">>
      [] kind = "chat" -> <<"key", "child", "lesson", "group", "count">>
      [] kind = "add"  -> <<"key", "child", "lesson", "booking", "count">>

\* Mutant: the lesson is locked before its group.
LessonPlan_LessonFirst(kind) ==
    <<"key", "lesson", "group", "lessons">> \o (IF kind = "cancel" THEN <<"bookings">> ELSE <<>>)

LessonPlan(kind) ==
    <<"key", "group", "lesson", "lessons">> \o (IF kind = "cancel" THEN <<"bookings">> ELSE <<>>)

\* Mutant: an enrollment does not lock the group.
EnrollPlan_Unlocked(kind) ==
    CASE kind = "enroll" -> <<"key", "child", "enrollment">>
      [] kind = "trial"  -> <<"key", "lesson", "booking", "child", "enrollment">>

EnrollPlan(kind) ==
    CASE kind = "enroll" -> <<"key", "child", "group", "enrollment">>
      [] kind = "trial"  -> <<"key", "lesson", "booking", "child", "group", "enrollment">>

Plan(kind) ==
    CASE kind \in {"web", "chat", "add"}            -> ReservePlan(kind)
      [] kind \in {"cancel", "override", "restore"} -> LessonPlan(kind)
      [] kind \in {"enroll", "trial"}               -> EnrollPlan(kind)
      [] kind = "group"                             -> <<"key", "group", "protect", "lessons">>
      [] kind = "decide"                            -> <<"key", "booking">>
      [] kind = "online"                            -> <<"booking", "key", "snapshot", "lesson", "recheck">>
      [] kind \in {"leave", "transfer"}             -> <<"booking", "key">>

Item(t) == Plan(Op(t).kind)[tx[t].pc]

AtItem(t) == Running(t) /\ tx[t].pc <= Len(Plan(Op(t).kind))

\* A booking that is confirmed already is not rechecked.
Skips(t) == Op(t).kind = "online" /\ booking[Op(t).booking].status = "confirmed"

Trials(t) == {b \in Existing(Child(t), LessonOf(t)) : booking[b].status = "confirmed"}

\* The rows the next statement of t locks.
Needs(t) ==
    CASE Item(t) = "key"      -> {<<"key", t[1]>>}
      [] Item(t) = "child"    -> {<<"child", Op(t).child>>}
      [] Item(t) = "group"    -> {<<"group", "g">>}
      [] Item(t) = "lesson"   -> IF Skips(t) THEN {} ELSE {<<"lesson", LessonOf(t)>>}
      [] Item(t) = "lessons"  -> {<<"lesson", l>> : l \in Lessons}
      [] Item(t) = "booking"  ->
             CASE Op(t).kind = "add"   -> {<<"booking", b>> : b \in Existing(Child(t), LessonOf(t))}
               [] Op(t).kind = "trial" -> {<<"booking", b>> : b \in Trials(t)}
               [] OTHER                -> {<<"booking", Op(t).booking>>}
      [] Item(t) = "bookings" -> {<<"booking", b>> : b \in
                                     {x \in Ids : Live(x) /\ booking[x].lesson = LessonOf(t)}}
      [] OTHER                -> {}

\* Rows that t locks FOR SHARE.
Shares(t, row) == \/ row[1] = "child" /\ Op(t).kind \in {"chat", "add"}
                  \/ row[1] = "group" /\ Op(t).kind = "chat"

Conflict(t, u, row) == /\ u # t /\ Running(u)
                       /\ row \in tx[u].held
                       /\ ~ (Shares(t, row) /\ Shares(u, row))

Missing(t) == Needs(t) \ tx[t].held

\* t waits for a lock that u holds.
WaitsFor(t, u) ==
    /\ AtItem(t)
    /\ \A row \in Missing(t) : \E v \in Tries : Conflict(t, v, row)
    /\ \E row \in Missing(t) : Conflict(t, u, row)

-----------------------------------------------------------------------------
(* The checks after each statement *)

ExceptionRefused(t) ==
    LET ex == exception[LessonOf(t)]
    IN  \/ ex.version # expect[t[1]]
        \/ Op(t).kind = "restore" /\ ex.kind = "none"
        \/ rule[LessonOf(t)] = "narrowed"

\* Mutant: of the lesson only a cancellation is looked at, and the group as it
\* was before the wait.
LessonRefused_Stale(t) ==
    LET cancelled == exception[LessonOf(t)].kind = "cancelled"
    IN  CASE Op(t).kind \in {"web", "online"} -> ~ Skips(t) /\ (cancelled \/ tx[t].seen.group # "active")
          [] Op(t).kind = "add"               -> cancelled
          [] Op(t).kind \in {"cancel", "override", "restore"} -> ExceptionRefused(t)
          [] OTHER                            -> FALSE

\* After the lock of the lesson; the group was read before the wait for it.
LessonRefused(t) ==
    CASE Op(t).kind \in {"web", "online"} ->
             ~ Skips(t) /\ (~ lesson[LessonOf(t)].open \/ tx[t].seen.group # "active")
      [] Op(t).kind = "add"               -> ~ lesson[LessonOf(t)].open
      [] Op(t).kind \in {"cancel", "override", "restore"} -> ExceptionRefused(t)
      [] OTHER                            -> FALSE

\* After the lock of the group.
GroupRefused(t) ==
    CASE Op(t).kind = "group"  -> group.version # expect[t[1]]
      [] Op(t).kind = "chat"   -> group.status # "active" \/ ~ lesson[LessonOf(t)].open
      [] Op(t).kind \in {"enroll", "trial"} -> group.status # "active"
      [] OTHER                 -> group.status # "active" \/ rule[LessonOf(t)] = "archived"

\* Of the booking that is locked.
BookingRefused(t) ==
    LET b == Op(t).booking
    IN  CASE Op(t).kind = "decide"   -> booking[b].status # "pending"
          [] Op(t).kind = "online"   -> ~ Live(b)
          [] Op(t).kind = "leave"    -> ~ Live(b) /\ booking[b].status # "left"
          [] Op(t).kind = "transfer" -> ~ Live(b)
          [] Op(t).kind = "trial"    -> Trials(t) = {}
          [] OTHER                   -> FALSE

\* protect_booked_original_dates and protect_enrollment_selections: a rule that
\* keeps its id keeps the dates of its bookings and exceptions, and every rule
\* keeps what enrollments have selected.
Protected(t) ==
    \E l \in Lessons :
        \/ /\ Op(t).rule[l] = "narrowed"
           /\ exception[l].kind # "none" \/ \E b \in Ids : booking[b] # None /\ booking[b].lesson = l
        \/ Op(t).rule[l] # "kept" /\ Enrolled(l) # {}

\* The seat of a reservation, unless the child has a booking or, for the staff, is enrolled.
CountRefused(t) ==
    LET l == LessonOf(t)
    IN  /\ Existing(Child(t), l) = {}
        /\ ~ (Op(t).kind = "add" /\ Child(t) \in Enrolled(l))
        /\ ~ HasCapacity(lesson[l].capacity, Booked(l) \cup Enrolled(l), Child(t))

\* recheck_online_confirmation
RecheckRefused(t) ==
    LET l == LessonOf(t)
    IN  /\ booking[Op(t).booking].status = "pending"
        /\ \/ booking[Op(t).booking].transfer
           \/ /\ lesson[l].capacity # NoLimit
              /\ Cardinality(Booked(l) \cup Enrolled(l)) > lesson[l].capacity

EnrollmentRefused(t) == enrolled[Child(t)] # {} \/ rule[LessonOf(t)] # "kept"

\* A command of the parent or Hermes judges its booking after its key.
BookingItem(t) == IF Op(t).kind \in {"online", "leave", "transfer"} THEN "key" ELSE "booking"

Refused(t) ==
    CASE Item(t) = "lesson"     -> LessonRefused(t)
      [] Item(t) = "group"      -> GroupRefused(t)
      [] Item(t) = BookingItem(t) -> BookingRefused(t)
      [] Item(t) = "protect"    -> Protected(t)
      [] Item(t) = "count"      -> CountRefused(t)
      [] Item(t) = "recheck"    -> RecheckRefused(t)
      [] Item(t) = "enrollment" -> EnrollmentRefused(t)
      [] OTHER                  -> FALSE

\* Mutant: a key that was used is used again.
Replayed_Never(t) == FALSE

\* insert_pending_command finds a committed command.
Replayed(t) == Item(t) = "key" /\ \E u \in done : u[1] = t[1]

Seen(t) ==
    CASE Item(t) = "snapshot" -> [tx[t].seen EXCEPT !.group = group.status]
      [] Item(t) = "count"    -> [tx[t].seen EXCEPT !.enrolled = Enrolled(LessonOf(t)),
                                                    !.mine = Existing(Child(t), LessonOf(t))]
      [] OTHER                -> tx[t].seen

-----------------------------------------------------------------------------
(* Commands *)

Nothing == [group |-> "active", enrolled |-> {}, mine |-> {}]

\* A client sends a request, or sends it again: the answer is late or lost.
Begin(t) ==
    LET r == t[1]
    IN  /\ Op(t).kind # "none"
        /\ Op(t).kind \in {"decide", "online", "leave", "transfer"} => booking[Op(t).booking] # None
        /\ tries[r] + 1 = t[2]
        /\ t[2] <= config.tries
        /\ tries' = [tries EXCEPT ![r] = t[2]]
        /\ expect' = IF t[2] > 1 THEN expect
                     ELSE [expect EXCEPT ![r] = CASE Op(t).kind = "group" -> group.version
                                                  [] Op(t).kind \in {"cancel", "override", "restore"} ->
                                                         exception[LessonOf(t)].version
                                                  [] OTHER -> 0]
        /\ tx' = [tx EXCEPT ![t] = [pc |-> 1, held |-> {}, seen |-> Nothing]]
        /\ UNCHANGED <<config, sourceVars, booking, enrolled, done, noticeVars, faults>>

\* A statement: it takes a free lock, and with the last one its result is checked.
Step(t) ==
    /\ AtItem(t)
    /\ \E rows \in {{row} : row \in Missing(t)} \cup (IF Missing(t) = {} THEN {{}} ELSE {}) :
          LET held == tx[t].held \cup rows
          IN  /\ \A row \in rows, u \in Tries : ~ Conflict(t, u, row)
              /\ tx' = [tx EXCEPT ![t] =
                           IF ~ Needs(t) \subseteq held THEN [@ EXCEPT !.held = held]
                           ELSE IF Replayed(t) \/ Refused(t) THEN None
                           ELSE [pc |-> @.pc + 1, held |-> held, seen |-> Seen(t)]]
    /\ UNCHANGED <<config, sourceVars, booking, enrolled, done, expect, tries, noticeVars, faults>>

\* The commit of a transaction of one of the kinds.
Finish(t, kinds) ==
    /\ Running(t)
    /\ Op(t).kind \in kinds
    /\ tx[t].pc > Len(Plan(Op(t).kind))
    /\ tx' = [tx EXCEPT ![t] = None]
    /\ done' = done \cup {t}
    /\ UNCHANGED <<config, expect, tries, faults>>

Inserted(t, status) ==
    [booking EXCEPT ![t] = [child |-> Child(t), lesson |-> LessonOf(t),
                            status |-> status, transfer |-> FALSE]]

SetStatus(bs, status) ==
    [b \in Ids |-> IF b \in bs THEN [booking[b] EXCEPT !.status = status, !.transfer = FALSE]
                   ELSE booking[b]]

\* create_public_booking, commit_airhop_booking_draft
Reserve(t) ==
    /\ Finish(t, {"web", "chat"})
    /\ booking' = IF tx[t].seen.mine # {} THEN booking
                  ELSE Inserted(t, IF Op(t).kind = "chat" THEN Op(t).answer ELSE "pending")
    /\ UNCHANGED <<sourceVars, enrolled, noticeVars>>

\* add_airhop_staff_lesson_participant
AddParticipant(t) ==
    /\ Finish(t, {"add"})
    /\ booking' = CASE tx[t].seen.mine # {} ->
                           SetStatus({b \in tx[t].seen.mine : booking[b].status = "pending"}, "confirmed")
                    [] tx[t].seen.mine = {} /\ Child(t) \in tx[t].seen.enrolled -> booking
                    [] OTHER -> Inserted(t, "confirmed")
    /\ UNCHANGED <<sourceVars, enrolled, noticeVars>>

\* decide_airhop_booking
Decide(t) ==
    /\ Finish(t, {"decide"})
    /\ LET b == Op(t).booking
       IN  /\ booking' = [booking EXCEPT ![b].status = Op(t).answer]
           /\ notice' = [notice EXCEPT ![b] = IF config.messenger THEN [@ EXCEPT !.state = "open"]
                                              ELSE [@ EXCEPT !.call = TRUE]]
    /\ UNCHANGED <<sourceVars, enrolled, lease, receipt, callback>>

\* apply_action: a confirmation by Hermes, a cancellation or a request to
\* transfer by the parent; what is already so stays as it is.
Manage(t) ==
    /\ Finish(t, {"online", "leave", "transfer"})
    /\ LET b == Op(t).booking
       IN  booking' = CASE Op(t).kind = "online"   -> [booking EXCEPT ![b].status = "confirmed"]
                        [] Op(t).kind = "leave"    -> SetStatus({b}, "left")
                        [] Op(t).kind = "transfer" -> [booking EXCEPT ![b].transfer = TRUE]
    /\ UNCHANGED <<sourceVars, enrolled, noticeVars>>

\* Mutant: only bookings that are not yet confirmed are cancelled.
CancelledWith_Pending(l) == {b \in Ids : Live(b) /\ booking[b].lesson = l /\ booking[b].status = "pending"}

\* cancel_active_bookings
CancelledWith(l) == {b \in Ids : Live(b) /\ booking[b].lesson = l}

\* put_airhop_lesson_exception
PutException(t) ==
    /\ Finish(t, {"cancel", "override", "restore"})
    /\ LET l == LessonOf(t)
           v == exception[l].version + 1
       IN  /\ exception' = [exception EXCEPT ![l] =
                  CASE Op(t).kind = "cancel"   -> [kind |-> "cancelled", capacity |-> lesson[l].capacity, version |-> v]
                    [] Op(t).kind = "override" -> [kind |-> "override", capacity |-> Op(t).capacity, version |-> v]
                    [] Op(t).kind = "restore"  -> NoException]
           /\ lesson' = Materialized(group, rule, exception')
           /\ booking' = IF Op(t).kind = "cancel" THEN SetStatus(CancelledWith(l), "cancelled") ELSE booking
    /\ UNCHANGED <<group, rule, enrolled, noticeVars>>

\* put_airhop_group
PutGroup(t) ==
    /\ Finish(t, {"group"})
    /\ group' = [status |-> Op(t).status, capacity |-> Op(t).capacity, version |-> group.version + 1]
    /\ rule' = Op(t).rule
    /\ lesson' = Materialized(group', rule', exception)
    /\ UNCHANGED <<exception, booking, enrolled, noticeVars>>

\* create_enrollment_and_first_payment
Enroll(t) ==
    /\ Finish(t, {"enroll", "trial"})
    /\ enrolled' = [enrolled EXCEPT ![Child(t)] = {LessonOf(t)}]
    /\ UNCHANGED <<sourceVars, booking, noticeVars>>

\* The transactions t waits for, directly or through others.
Reaches(t) ==
    LET active == {u \in Tries : Running(u)}
        hop[n \in 0..Cardinality(active)] ==
            IF n = 0 THEN {u \in active : WaitsFor(t, u)}
            ELSE LET near == hop[n - 1]
                 IN  near \cup {u \in active : \E v \in near : WaitsFor(v, u)}
    IN  hop[Cardinality(active)]

\* The database ends one transaction of a cycle of waits.
Deadlock(t) ==
    /\ Running(t)
    /\ t \in Reaches(t)
    /\ tx' = [tx EXCEPT ![t] = None]
    /\ UNCHANGED <<config, sourceVars, booking, enrolled, done, expect, tries, noticeVars, faults>>

\* The connection is lost before the commit.
Abort(t) ==
    /\ Running(t)
    /\ faults < config.faults
    /\ faults' = faults + 1
    /\ tx' = [tx EXCEPT ![t] = None]
    /\ UNCHANGED <<config, sourceVars, booking, enrolled, done, expect, tries, noticeVars>>

-----------------------------------------------------------------------------
(* Notices: a connector leases a decision, delivers it and reports back *)

Receipts(b) == {k \in DOMAIN lease : lease[k] = b /\ receipt[k] # "none"}

\* Mutant: a lease that ran out is never taken over.
Claimable_Unleased(b) == notice[b].state = "open" /\ notice[b].lease = 0

Claimable(b) == notice[b].state = "open" /\ (notice[b].lease = 0 \/ notice[b].expired)

\* claim_airhop_parent_notifications
Claim(b) ==
    /\ Claimable(b)
    /\ Len(lease) < MaxLeases
    /\ lease' = Append(lease, b)
    /\ notice' = [notice EXCEPT ![b].lease = Len(lease'), ![b].expired = FALSE]
    /\ UNCHANGED <<config, sourceVars, booking, enrolled, commandVars, receipt, callback, faults>>

\* The lease runs out while its connector is late.
Expire(b) ==
    /\ notice[b].lease # 0 /\ ~ notice[b].expired
    /\ \/ callback[notice[b].lease][1].pc = "lost" /\ UNCHANGED faults
       \/ faults < config.faults /\ faults' = faults + 1
    /\ notice' = [notice EXCEPT ![b].expired = TRUE]
    /\ UNCHANGED <<config, sourceVars, booking, enrolled, commandVars, lease, receipt, callback>>

\* The connector reports, perhaps twice; a receipt seen at once is the answer.
Report(k, i, outcome) ==
    /\ k \in DOMAIN lease
    /\ callback[k][i].pc = "idle"
    /\ i = 2 => callback[k][1].pc # "idle" /\ config.faults > 0
    /\ callback' = [callback EXCEPT ![k][i] =
                       [pc |-> IF receipt[k] = "none" THEN "waiting" ELSE "answered",
                        outcome |-> outcome, answer |-> receipt[k]]]
    /\ UNCHANGED <<config, sourceVars, booking, enrolled, commandVars, notice, lease, receipt, faults>>

\* The connector stops before it reports.
Crash(k) ==
    /\ k \in DOMAIN lease
    /\ callback[k][1].pc = "idle"
    /\ faults < config.faults
    /\ faults' = faults + 1
    /\ callback' = [callback EXCEPT ![k][1].pc = "lost"]
    /\ UNCHANGED <<config, sourceVars, booking, enrolled, commandVars, notice, lease, receipt>>

\* Mutant: the receipt is not read again under the lock.
Recorded_Once(k) == FALSE

\* The receipt, read again under the lock of the outbox row.
Recorded(k) == receipt[k] # "none"

Outcome(b, outcome) ==
    IF outcome = "delivered" THEN "delivered"
    ELSE IF notice[b].attempts + 1 >= MaxAttempts THEN "failed" ELSE "retry"

Settled(n, outcome) ==
    [n EXCEPT !.attempts = @ + 1, !.lease = 0, !.expired = FALSE,
              !.state = CASE outcome = "delivered" -> "published"
                          [] outcome = "failed"    -> "failed"
                          [] outcome = "retry"     -> "open",
              !.call = outcome = "failed"]

\* complete_airhop_parent_notification, from the lock of the outbox row on
Complete(k, i) ==
    LET b == lease[k]
        outcome == Outcome(b, callback[k][i].outcome)
        Answer(a) == callback' = [callback EXCEPT ![k][i].pc = "answered", ![k][i].answer = a]
    IN  /\ callback[k][i].pc = "waiting"
        /\ \/ Recorded(k) /\ Answer(receipt[k]) /\ UNCHANGED <<notice, receipt>>
           \/ /\ ~ Recorded(k) /\ (notice[b].state # "open" \/ notice[b].lease # k)
              /\ Answer("denied")
              /\ UNCHANGED <<notice, receipt>>
           \/ /\ ~ Recorded(k) /\ notice[b].state = "open" /\ notice[b].lease = k
              /\ Answer(outcome)
              /\ receipt' = [receipt EXCEPT ![k] = outcome]
              /\ notice' = [notice EXCEPT ![b] = Settled(@, outcome)]
        /\ UNCHANGED <<config, sourceVars, booking, enrolled, commandVars, lease, faults>>

-----------------------------------------------------------------------------

Command(t) ==
    \/ Step(t) \/ Reserve(t) \/ AddParticipant(t) \/ Decide(t) \/ Manage(t)
    \/ PutException(t) \/ PutGroup(t) \/ Enroll(t) \/ Deadlock(t)

Connector ==
    \/ \E b \in Ids : Expire(b) \/ Claim(b)
    \/ \E k \in Leases : \/ Crash(k)
                         \/ \E i \in Callbacks : \/ Complete(k, i)
                                                 \/ \E o \in {"delivered", "error"} : Report(k, i, o)

Next == Connector \/ \E t \in Tries : Begin(t) \/ Command(t) \/ Abort(t)

Spec == Init /\ [][Next]_vars

\* Connectors poll, a lease runs out in time, and a connector that has not
\* stopped reports.
FairSpec ==
    /\ Spec
    /\ WF_vars(\E b \in Ids : Expire(b))
    /\ WF_vars(\E b \in Ids : Claim(b))
    /\ WF_vars(\E k \in Leases, o \in {"delivered", "error"} : Report(k, 1, o))
    /\ WF_vars(\E k \in Leases : Complete(k, 1))

-----------------------------------------------------------------------------
(* Properties *)

Rows == {"key", "child", "group", "lesson", "booking"}

\* Every variable has its type.
TypeOK ==
    /\ config.ops \in [Requests -> Ops] /\ config.capacity \in Capacities
    /\ group \in [status : {"active", "archived"}, capacity : Capacities, version : Nat]
    /\ rule \in [Lessons -> {"kept", "narrowed", "archived"}]
    /\ exception \in [Lessons -> [kind : {"none", "cancelled", "override"}, capacity : Capacities, version : Nat]]
    /\ lesson \in [Lessons -> [open : BOOLEAN, capacity : Capacities]]
    /\ booking \in [Ids -> BookingRows \cup {None}]
    /\ enrolled \in [Children -> SUBSET Lessons]
    /\ done \subseteq Tries
    /\ expect \in [Requests -> Nat]
    /\ tries \in [Requests -> 0..MaxTries]
    /\ \A t \in Tries : Running(t) => /\ tx[t].pc \in 1..(Len(Plan(Op(t).kind)) + 1)
                                      /\ \A row \in tx[t].held : row[1] \in Rows
    /\ notice \in [Ids -> [state : {"none", "open", "published", "failed"}, attempts : 0..MaxAttempts,
                           lease : 0..MaxLeases, expired : BOOLEAN, call : BOOLEAN]]
    /\ lease \in Seq(Ids)
    /\ receipt \in [Leases -> {"none", "delivered", "retry", "failed"}]

\* A booking takes a seat that is free: with the children booked by then and
\* those the transaction has seen enrolled, it stays within the capacity of
\* the lesson, whatever reserves, confirms, cancels or changes the lesson at
\* the same time.  (Enrollments are not limited, and one may commit after the
\* count.)
NoOverbooking ==
    [][\A t \in Tries, b \in Ids, l \in Lessons :
          Running(t) /\ ~ Running(t)' /\ ~ Live(b) /\ Live(b)' /\ booking'[b].lesson = l =>
          LET counted == Enrolled(l) \cap tx[t].seen.enrolled
          IN  \/ lesson'[l].capacity = NoLimit
              \/ booking'[b].child \in counted
              \/ Cardinality(Booked(l)' \cup counted) <= lesson'[l].capacity]_vars

\* A booking is made for a lesson that takes place, in a group that is active
\* when it commits, although the group is read before the wait for the lesson.
TakesOpenLesson ==
    [][\A b \in Ids : ~ Live(b) /\ Live(b)' =>
          lesson[booking'[b].lesson].open /\ group.status = "active"]_vars

\* A lesson cancelled by the staff has no booking that holds a seat, whatever
\* was reserved, promoted or decided while it was being cancelled.
CancelledEmpty ==
    \A l \in Lessons : exception[l].kind = "cancelled" => Booked(l) = {}

\* The rule that an enrollment has selected keeps producing its lesson.
SelectionKept == \A l \in Lessons : Enrolled(l) # {} => rule[l] = "kept"

\* A request books at most once, however often it is sent.
OncePerRequest ==
    \A t, u \in Tries : t[1] = u[1] /\ t # u => booking[t] = None \/ booking[u] = None

\* Among the commands under way that are neither a confirmation by Hermes nor a
\* booking in the chat nor an enrollment after a trial, there is always one that
\* does not wait for another of them: only those three wait in a circle, all
\* others lock child, group, lesson and booking in this order.
OutOfOrder == {"online", "chat", "trial"}

LockOrder ==
    \A S \in SUBSET {t \in Tries : Running(t) /\ Op(t).kind \notin OutOfOrder} :
        S # {} => \E t \in S : \A u \in S : ~ WaitsFor(t, u)

\* All completions of a lease get the same answer: one that was recorded is
\* never denied afterwards, not even while another one is being recorded.
AckStable ==
    \A k \in Leases : \A i, j \in Callbacks :
        /\ callback[k][i].pc = "answered" /\ callback[k][j].pc = "answered" =>
               callback[k][i].answer = callback[k][j].answer

\* A notice fails over to a call by the staff exactly after MaxAttempts failures
\* were reported, and is closed as delivered exactly when a delivery was.
FailsOver ==
    \A b \in Ids :
        /\ notice[b].state = "failed" <=>
               Cardinality({k \in Receipts(b) : receipt[k] # "delivered"}) = MaxAttempts
        /\ notice[b].state = "failed" => notice[b].call
        /\ notice[b].state = "published" <=> \E k \in Receipts(b) : receipt[k] = "delivered"

\* The recorded completions decide: they are what every caller is told, and they
\* alone close the notice.
ReceiptsDecide == AckStable /\ FailsOver

\* A decision of the staff reaches the parent, or a member of the staff is
\* asked to call, although connectors stop, are late and fail.
DecisionTold ==
    \A b \in Ids : notice[b].state = "open" ~> notice[b].state = "published" \/ notice[b].call

=============================================================================
