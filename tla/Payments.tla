------------------------------ MODULE Payments ------------------------------
(***************************************************************************)
(* Payments of a center: the monthly expectations of an enrollment, their  *)
(* ledger of receipts and refunds, the commands of the staff, and the      *)
(* automation of the relay that creates expectations ahead of time and     *)
(* posts the overdue ones in the payments channel, one card per payment.   *)
(* A reaction to a card marks its payment paid.                            *)
(*                                                                         *)
(* crates/buzz-db/src/airhop/payment_queue.rs, payment_automation.rs,      *)
(* enrollment_lifecycle.rs and organization_settings.rs;                   *)
(* crates/buzz-relay/src/airhop_payments.rs and the loop of main.rs.       *)
(*                                                                         *)
(* The database runs at READ COMMITTED.  A transaction that one advisory   *)
(* lock or one row lock serialises is one step, except where a value read  *)
(* before the lock, or in the snapshot of a statement that waited for the  *)
(* lock, is used after it: the targets of a cycle, the enrollments of a    *)
(* refresh, and the ledger sum of a command.  Names, currencies, reasons,  *)
(* methods and texts are left out: only the version of a payment and what  *)
(* it still owes are shown on its card.  The one enrollment status that    *)
(* sets end_date is never billed again, so end_date is left out too.       *)
(***************************************************************************)
EXTENDS Integers, FiniteSets

CONSTANTS
    Enrollments,   \* configured enrollments of the organization
    Streams,       \* channels that can be configured for payments
    Workers,       \* relay pods that run the payment automation
    Keys,          \* idempotency keys and reaction ids
    Prices,        \* tariff prices
    LastMonth,     \* bound: months are 0..LastMonth
    DaysPerMonth,
    PaymentDay,    \* payment_day_of_month
    MaxCreated,    \* MAX_CREATED_PER_ENROLLMENT
    Configs        \* bounds: records of the fields below

ASSUME PaymentsAssumption ==
    /\ DaysPerMonth \in Nat \ {0}
    /\ PaymentDay \in 0..(DaysPerMonth - 1)
    /\ LastMonth \in Nat
    /\ MaxCreated \in Nat \ {0}
    /\ Streams # {} /\ "unset" \notin Streams
    /\ IsFiniteSet(Workers)
    /\ Prices \subseteq Nat /\ \E n \in Prices : \A k \in Prices : k <= n
    /\ Configs \subseteq [staff    : SUBSET Keys,      \* keys the staff uses
                          changes  : SUBSET STRING,    \* kinds of command it sends
                          reacts   : SUBSET Keys,      \* reaction ids
                          workers  : SUBSET Workers,
                          first    : BOOLEAN,          \* enrolled with a first payment
                          days     : 0..((LastMonth - 1) * DaysPerMonth),  \* days that pass
                          faults   : Nat,              \* failures of calls and of pods
                          settings : Nat,              \* changes and archivals of channels
                          lifecycle : Nat]             \* changes of enrollments
    /\ \A c \in Configs : c.staff \cap c.reacts = {}     \* two kinds of key

Months == 0..LastMonth
Days == 0..(LastMonth * DaysPerMonth + PaymentDay)
PaymentIds == Enrollments \X Months
TopPrice == CHOOSE n \in Prices : \A k \in Prices : k <= n
Amounts == 0..TopPrice

MonthOf(d) == d \div DaysPerMonth
FirstOf(m) == m * DaysPerMonth

VARIABLES
    config,      \* the bounds of this behaviour
    today,       \* the local date of the organization
    stream,      \* payments_buzz_channel_id, or "unset"
    archived,    \* channels archived or deleted
    enrollment,  \* airhop_enrollments
    payment,     \* airhop_payment_expectations with the sums of the ledger
    request,     \* the request behind each key
    tx,          \* transactions that wait for the row of their payment
    done,        \* airhop_commands: the result committed under each key
    answer,      \* the last answer the client of each key has seen
    summary,     \* airhop_payment_buzz_summary_state
    card,        \* airhop_payment_buzz_action_state
    posted,      \* messages of the relay in the channels
    jobs,        \* number of summaries prepared
    worker,      \* the payment automation of each pod
    counts,      \* faults, changes of settings and of enrollments so far
    active,      \* history: months in which an enrollment was active
    forgiven     \* history: active months a resume left unbilled

vars == <<config, today, stream, archived, enrollment, payment, request, tx, done, answer,
          summary, card, posted, jobs, worker, counts, active, forgiven>>

commandVars == <<request, tx, done, answer>>
buzzVars == <<summary, card, posted, jobs>>
clientVars == <<config, today, enrollment, active, forgiven>>

None == [none |-> TRUE]

-----------------------------------------------------------------------------
(* Payments *)

\* Mutant: the version starts at zero.
NewPayment_Zero(amount, due) ==
    [status |-> "expected", amount |-> amount, received |-> 0, refunded |-> 0,
     due |-> due, version |-> 0]

NewPayment(amount, due) ==
    [status |-> "expected", amount |-> amount, received |-> 0, refunded |-> 0,
     due |-> due, version |-> 1]

Exists(p) == payment[p] # None

Paid(r) == r.received - r.refunded

Owed(r) == r.amount - Paid(r)

Changes(kinds) == {c \in [kind : {"record", "refund", "amount"}, n : Amounts] \cup
                         [kind : {"paid", "cancel", "restore"}, n : {0}] \cup
                         [kind : {"move"}, n : {FirstOf(m) : m \in 0..MonthOf(config.days)}] :
                      c.kind \in kinds}

\* validate_input and validate_transition, on the row r as locked and the
\* ledger sum paid as read.
Allowed(r, paid, c) ==
    CASE c.kind = "paid"    -> r.status = "expected" /\ r.amount - paid > 0
      [] c.kind = "record"  -> r.status = "expected" /\ c.n > 0 /\ c.n <= r.amount - paid
      [] c.kind = "refund"  -> r.status # "cancelled" /\ c.n > 0 /\ c.n <= paid
      [] c.kind = "cancel"  -> r.status = "expected" /\ paid = 0
      [] c.kind = "restore" -> (r.status = "paid" /\ paid > 0) \/ (r.status = "cancelled" /\ paid = 0)
      [] c.kind = "amount"  -> r.status = "expected" /\ c.n # r.amount /\ (paid = 0 \/ c.n > paid)
      [] c.kind = "move"    -> r.status = "expected" /\ c.n # r.due

\* apply_ledger_movement: a receipt (or a refund) of n.
Receive(r, paid, n) ==
    [r EXCEPT !.received = @ + n, !.version = @ + 1,
              !.status = IF paid + n = r.amount THEN "paid" ELSE "expected"]

Refund(r, paid, n) ==
    [r EXCEPT !.refunded = @ + n, !.version = @ + 1,
              !.status = IF paid - n = r.amount THEN "paid" ELSE "expected"]

\* apply_change
Apply(r, paid, c) ==
    CASE c.kind = "paid"   -> Receive(r, paid, r.amount - paid)
      [] c.kind = "record" -> Receive(r, paid, c.n)
      [] c.kind = "refund" -> Refund(r, paid, c.n)
      [] c.kind = "restore" /\ r.status = "paid" -> Refund(r, paid, paid)
      [] c.kind = "restore" /\ r.status # "paid" -> [r EXCEPT !.status = "expected", !.version = @ + 1]
      [] c.kind = "cancel" -> [r EXCEPT !.status = "cancelled", !.version = @ + 1]
      [] c.kind = "amount" -> [r EXCEPT !.amount = c.n, !.version = @ + 1]
      [] c.kind = "move"   -> [r EXCEPT !.due = c.n, !.version = @ + 1]

-----------------------------------------------------------------------------
(* Init *)

Idle == [pc |-> "idle", stream |-> "unset", date |-> 0, seen |-> None, job |-> None]

Init ==
    /\ config \in Configs
    /\ today = 0
    /\ stream = CHOOSE ch \in Streams : TRUE
    /\ archived = {}
    /\ enrollment = [e \in Enrollments |-> [status |-> "active", price |-> TopPrice,
                                            start |-> 0, floor |-> 0]]
    /\ payment = [p \in PaymentIds |->
                     IF config.first /\ p[2] = 0 THEN NewPayment(enrollment[p[1]].price, 0) ELSE None]
    /\ request = [k \in Keys |-> None]
    /\ tx = [k \in Keys |-> None]
    /\ done = [k \in Keys |-> 0]
    /\ answer = [k \in Keys |-> "none"]
    /\ summary = None
    /\ card = [p \in PaymentIds |-> None]
    /\ posted = {}
    /\ jobs = 0
    /\ worker = [w \in Workers |-> Idle]
    /\ counts = [faults |-> 0, settings |-> 0, lifecycle |-> 0]
    /\ active = [e \in Enrollments |-> {0}]
    /\ forgiven = [e \in Enrollments |-> {}]

-----------------------------------------------------------------------------
(* Commands of the staff and reactions *)

\* A client reads the payment and sends a command for the version it has seen.
\* It may send the same request again, at any time, under the same key.
Ask(k, p, c) ==
    /\ k \in config.staff
    /\ request[k] = None
    /\ Exists(p)
    /\ c.n > 0 \/ c.kind \notin {"record", "refund"}
    /\ request' = [request EXCEPT ![k] = [payment |-> p, version |-> payment[p].version,
                                          change |-> c, target |-> None]]
    /\ UNCHANGED <<clientVars, stream, archived, payment, tx, done, answer, buzzVars, worker, counts>>

\* A member of the staff reacts to a card it sees.
React(k, m) ==
    /\ k \in config.reacts
    /\ request[k] = None
    /\ m \in posted
    /\ m.kind = "card"
    /\ request' = [request EXCEPT ![k] = [payment |-> m.payment, version |-> m.version,
                                          change |-> [kind |-> "paid", n |-> 0], target |-> m]]
    /\ UNCHANGED <<clientVars, stream, archived, payment, tx, done, answer, buzzVars, worker, counts>>

\* Mutant: a command is never recognised as a retry.
Replayed_Never(k) == FALSE

\* insert_pending_command finds the key committed; for a reaction, the
\* reaction is already active.
Replayed(k) == done[k] # 0

\* The card a reaction targets is the reserved one, in the channel that is
\* configured now.
Reserved(r) ==
    r.target # None => /\ r.target.stream = stream
                       /\ card[r.payment] = r.target

\* The request reaches the relay.  Its key is new or it is answered from the
\* command; the statement that locks the payment takes its snapshot.  A second
\* transaction under the same key waits for the first.
Begin(k) ==
    /\ request[k] # None
    /\ tx[k] = None
    /\ answer[k] \in {"none", "lost"}
    /\ CASE Replayed(k) ->
              answer' = [answer EXCEPT ![k] = "ok"] /\ tx' = tx
         [] ~Replayed(k) /\ ~Reserved(request[k]) ->
              answer' = [answer EXCEPT ![k] = "refused"] /\ tx' = tx
         [] OTHER ->
              /\ tx' = [tx EXCEPT ![k] = [paid |-> Paid(payment[request[k].payment])]]
              /\ answer' = answer
    /\ UNCHANGED <<clientVars, stream, archived, payment, request, done, buzzVars, worker, counts>>

\* Mutant: the version the client has seen is not compared.
Current_Any(r, version) == TRUE

Current(r, version) == r.version = version

\* The row lock is granted: the row is as it is now, the ledger sum as it was
\* when the statement began.  The answer may be lost.
Commit(k) ==
    /\ tx[k] # None
    /\ tx' = [tx EXCEPT ![k] = None]
    /\ UNCHANGED <<clientVars, stream, archived, request, buzzVars, worker>>
    /\ LET q    == request[k]
           r    == payment[q.payment]
           paid == tx[k].paid
       IN  IF Current(r, q.version) /\ Allowed(r, paid, q.change)
           THEN /\ payment' = [payment EXCEPT ![q.payment] = Apply(r, paid, q.change)]
                /\ done' = [done EXCEPT ![k] = r.version + 1]
                /\ \/ answer' = [answer EXCEPT ![k] = "ok"] /\ counts' = counts
                   \/ /\ counts.faults < config.faults
                      /\ answer' = [answer EXCEPT ![k] = "lost"]
                      /\ counts' = [counts EXCEPT !.faults = @ + 1]
           ELSE /\ answer' = [answer EXCEPT ![k] = IF Current(r, q.version) THEN "refused" ELSE "conflict"]
                /\ UNCHANGED <<payment, done, counts>>

\* The transaction is rolled back and the client hears nothing.
Rollback(k) ==
    /\ tx[k] # None
    /\ counts.faults < config.faults
    /\ counts' = [counts EXCEPT !.faults = @ + 1]
    /\ tx' = [tx EXCEPT ![k] = None]
    /\ answer' = [answer EXCEPT ![k] = "lost"]
    /\ UNCHANGED <<clientVars, stream, archived, payment, request, done, buzzVars, worker>>

-----------------------------------------------------------------------------
(* Enrollments, settings and the calendar *)

Billed(e) == {m \in Months : Exists(<<e, m>>)}

Lifecycle(e, new) ==
    /\ counts.lifecycle < config.lifecycle
    /\ counts' = [counts EXCEPT !.lifecycle = @ + 1]
    /\ enrollment' = [enrollment EXCEPT ![e] = new]
    /\ active' = [active EXCEPT ![e] = IF new.status = "active" THEN @ \cup {MonthOf(today)} ELSE @]
    /\ UNCHANGED <<config, today, stream, archived, payment, commandVars, buzzVars, worker>>

Pause(e) ==
    /\ enrollment[e].status = "active"
    /\ Lifecycle(e, [enrollment[e] EXCEPT !.status = "paused"])
    /\ UNCHANGED forgiven

\* New expectations begin with the day of the resume.
Resume(e) ==
    /\ enrollment[e].status = "paused"
    /\ Lifecycle(e, [enrollment[e] EXCEPT !.status = "active", !.floor = today])
    /\ forgiven' = [forgiven EXCEPT ![e] = @ \cup {m \in active[e] \ Billed(e) : m < MonthOf(today)}]

End(e) ==
    /\ enrollment[e].status \in {"active", "paused"}
    /\ Lifecycle(e, [enrollment[e] EXCEPT !.status = "ended"])
    /\ UNCHANGED forgiven

ChangeTariff(e, n) ==
    /\ enrollment[e].status \in {"active", "paused"}
    /\ enrollment[e].price # n
    /\ Lifecycle(e, [enrollment[e] EXCEPT !.price = n])
    /\ UNCHANGED forgiven

\* put_airhop_organization_settings with a new channel: what was reserved for
\* the old one is deleted.
SetStream(ch) ==
    /\ counts.settings < config.settings
    /\ ch # stream
    /\ ch \notin archived
    /\ counts' = [counts EXCEPT !.settings = @ + 1]
    /\ stream' = ch
    /\ card' = [p \in PaymentIds |-> None]
    /\ summary' = None
    /\ UNCHANGED <<clientVars, archived, payment, commandVars, posted, jobs, worker>>

Archive(ch) ==
    /\ counts.settings < config.settings
    /\ ch \notin archived
    /\ counts' = [counts EXCEPT !.settings = @ + 1]
    /\ archived' = archived \cup {ch}
    /\ UNCHANGED <<clientVars, stream, payment, commandVars, buzzVars, worker>>

Tick ==
    /\ today < config.days
    /\ today' = today + 1
    /\ active' = [e \in Enrollments |->
                     active[e] \cup IF enrollment[e].status = "active" THEN {MonthOf(today')} ELSE {}]
    /\ UNCHANGED <<config, stream, archived, enrollment, payment, commandVars, buzzVars, worker,
                   counts, forgiven>>

-----------------------------------------------------------------------------
(* Creation of expectations: refresh_airhop_payment_horizons *)

At(w, pc) == w \in config.workers /\ worker[w].pc = pc

Go(w, new) == worker' = [worker EXCEPT ![w] = new]

\* The date of the organization is read before the lock is taken.
LoadHorizon(w) ==
    /\ At(w, "idle")
    /\ Go(w, [Idle EXCEPT !.pc = "horizon", !.date = today])
    /\ UNCHANGED <<clientVars, stream, archived, payment, commandVars, buzzVars, counts>>

\* Under the advisory lock of the organization the enrollments are read.
ReadEnrollments(w) ==
    /\ At(w, "horizon")
    /\ \A v \in Workers : ~At(v, "insert")
    /\ Go(w, [worker[w] EXCEPT !.pc = "insert", !.seen = enrollment])
    /\ UNCHANGED <<clientVars, stream, archived, payment, commandVars, buzzVars, counts>>

\* Mutant: the cadence follows the due date, which the staff may move.
LatestPeriod_Due(e) ==
    CHOOSE m \in 0..LastMonth : /\ \E l \in Billed(e) : m = MonthOf(payment[<<e, l>>].due)
                                /\ \A l \in Billed(e) : MonthOf(payment[<<e, l>>].due) <= m

\* MAX(billing_period)
LatestPeriod(e) == CHOOSE m \in Billed(e) : \A l \in Billed(e) : l <= m

\* Mutant: the horizon is the current month.
Horizon_ThisMonth(date) == MonthOf(date)

Horizon(date) == MonthOf(date) + 1

\* The first month to bill, and its due date.
FirstPeriod(e, seen) ==
    LET next == IF Billed(e) = {} THEN MonthOf(seen.start) ELSE LatestPeriod(e) + 1
        due  == IF Billed(e) = {} THEN seen.start ELSE FirstOf(next) + PaymentDay
    IN  IF next < MonthOf(seen.floor) THEN [month |-> MonthOf(seen.floor), due |-> seen.floor]
                                      ELSE [month |-> next, due |-> due]

\* materialize_payment, for each enrollment and month: what exists stays.
Materialized(seen, date) ==
    [p \in PaymentIds |->
        LET e     == p[1]
            first == FirstPeriod(e, seen[e])
        IN  IF /\ seen[e].status = "active"
               /\ ~Exists(p)
               /\ p[2] \in first.month..(first.month + MaxCreated - 1)
               /\ p[2] <= Horizon(date)
            THEN NewPayment(seen[e].price,
                            IF p[2] = first.month THEN first.due ELSE FirstOf(p[2]) + PaymentDay)
            ELSE payment[p]]

Materialize(w) ==
    /\ At(w, "insert")
    /\ payment' = Materialized(worker[w].seen, worker[w].date)
    /\ Go(w, [Idle EXCEPT !.pc = "refreshed"])
    /\ UNCHANGED <<clientVars, stream, archived, commandVars, buzzVars, counts>>

-----------------------------------------------------------------------------
(* Overdue summaries: publish_pending_overdue_summaries *)

\* The channel and the date are read before the summary is locked.
LoadTargets(w) ==
    /\ At(w, "refreshed")
    /\ Go(w, IF stream = "unset" THEN Idle
             ELSE [Idle EXCEPT !.pc = "prepare", !.stream = stream, !.date = today])
    /\ UNCHANGED <<clientVars, stream, archived, payment, commandVars, buzzVars, counts>>

\* load_overdue_rows; the version of a payment stands for its row.
Overdue(date) ==
    {p \in PaymentIds : Exists(p) /\ payment[p].status = "expected" /\ payment[p].due < date}

Digest(rows) == {<<p, payment[p].version>> : p \in rows}

\* Mutant: any card of the payment counts, whatever its version.
Published_AnyVersion(p, ch, period) ==
    card[p] # None /\ card[p].stream = ch /\ card[p].period = period

\* The thread of the channel and the month has a card of this version.
Published(p, ch, period) ==
    card[p] # None /\ card[p].stream = ch /\ card[p].period = period
                   /\ card[p].version = payment[p].version

\* Mutant: what a card shows is the amount, partial receipts included.
CardOf_Amount(p, ch, period, id) ==
    [kind |-> "card", payment |-> p, version |-> payment[p].version,
     shown |-> payment[p].amount, stream |-> ch, period |-> period, job |-> id]

\* The signed event of a card: a retry builds the same event.
CardOf(p, ch, period, id) ==
    [kind |-> "card", payment |-> p, version |-> payment[p].version,
     shown |-> Owed(payment[p]), stream |-> ch, period |-> period, job |-> id]

\* Mutant: a summary that is not yet published is not resumed.
Pending_Ignored == FALSE

Pending == summary # None /\ summary.job # None

\* prepare_organization_summary: the pending summary, a new one, or none.
Prepare(w) ==
    /\ At(w, "prepare")
    /\ UNCHANGED <<clientVars, stream, archived, payment, commandVars, card, posted, counts>>
    /\ LET ch     == worker[w].stream
           period == MonthOf(worker[w].date)
           rows   == Overdue(worker[w].date)
           new    == {p \in rows : ~Published(p, ch, period)}
           same   == summary # None /\ summary.stream = ch /\ summary.period = period
           job    == [id |-> jobs + 1, stream |-> ch, period |-> period, digest |-> Digest(rows),
                      root |-> IF same THEN summary.root ELSE 0,
                      cards |-> {CardOf(p, ch, period, jobs + 1) : p \in new}]
       IN  IF Pending
           THEN /\ Go(w, [Idle EXCEPT !.pc = "root", !.job = summary.job])
                /\ UNCHANGED <<summary, jobs>>
           ELSE IF \/ rows = {} /\ (summary = None \/ summary.digest = {})
                   \/ same /\ summary.digest = Digest(rows) /\ new = {}
           THEN Go(w, Idle) /\ UNCHANGED <<summary, jobs>>
           ELSE /\ summary' = [stream |-> ch, period |-> period, root |-> job.root, job |-> job,
                               digest |-> IF summary = None THEN {} ELSE summary.digest]
                /\ jobs' = jobs + 1
                /\ Go(w, [Idle EXCEPT !.pc = "root", !.job = job])

Post(w, kind) ==
    posted' = posted \cup {[kind |-> kind, stream |-> worker[w].job.stream,
                            period |-> worker[w].job.period, job |-> worker[w].job.id]}

\* The channel must be active, and the month needs a root message.
PostRoot(w) ==
    /\ At(w, "root")
    /\ IF worker[w].job.stream \in archived
       THEN Go(w, Idle) /\ UNCHANGED posted
       ELSE /\ Go(w, [worker[w] EXCEPT !.pc = "reply"])
            /\ IF worker[w].job.root = 0 THEN Post(w, "root") ELSE UNCHANGED posted
    /\ UNCHANGED <<clientVars, stream, archived, payment, commandVars, summary, card, jobs, counts>>

PostReply(w) ==
    /\ At(w, "reply")
    /\ Post(w, "reply")
    /\ Go(w, [worker[w] EXCEPT !.pc = IF worker[w].job.cards = {} THEN "complete" ELSE "reserve"])
    /\ UNCHANGED <<clientVars, stream, archived, payment, commandVars, summary, card, jobs, counts>>

StillPending(j) == Pending /\ summary.job.id = j.id

Upsert(cards) ==
    card' = [p \in PaymentIds |-> IF \E m \in cards : m.payment = p
                                  THEN CHOOSE m \in cards : m.payment = p ELSE card[p]]

\* reserve_airhop_payment_action_events: before a card can be seen.
Reserve(w) ==
    /\ At(w, "reserve")
    /\ IF StillPending(worker[w].job)
       THEN Upsert(worker[w].job.cards) /\ Go(w, [worker[w] EXCEPT !.pc = "cards"])
       ELSE Go(w, Idle) /\ UNCHANGED card
    /\ UNCHANGED <<clientVars, stream, archived, payment, commandVars, summary, posted, jobs, counts>>

\* One message per card; a failure leaves the rest for the retry.
PostCards(w) ==
    /\ At(w, "cards")
    /\ \/ /\ posted' = posted \cup worker[w].job.cards
          /\ Go(w, [worker[w] EXCEPT !.pc = "complete"])
          /\ counts' = counts
       \/ /\ counts.faults < config.faults
          /\ counts' = [counts EXCEPT !.faults = @ + 1]
          /\ \E some \in SUBSET worker[w].job.cards : posted' = posted \cup some
          /\ Go(w, Idle)
    /\ UNCHANGED <<clientVars, stream, archived, payment, commandVars, summary, card, jobs>>

\* complete_airhop_overdue_summary
Complete(w) ==
    /\ At(w, "complete")
    /\ Go(w, Idle)
    /\ IF StillPending(worker[w].job)
       THEN /\ summary' = [summary EXCEPT !.root = IF @ = 0 THEN worker[w].job.id ELSE @,
                                          !.digest = worker[w].job.digest, !.job = None]
            /\ Upsert(worker[w].job.cards)
       ELSE UNCHANGED <<summary, card>>
    /\ UNCHANGED <<clientVars, stream, archived, payment, commandVars, posted, jobs, counts>>

\* A call fails or the pod restarts: the transaction that is open is rolled
\* back and the next cycle begins, with the summaries if the refresh failed.
Fail(w) ==
    /\ w \in config.workers
    /\ worker[w].pc # "idle"
    /\ counts.faults < config.faults
    /\ counts' = [counts EXCEPT !.faults = @ + 1]
    /\ \/ Go(w, Idle)
       \/ worker[w].pc \in {"horizon", "insert"} /\ Go(w, [Idle EXCEPT !.pc = "refreshed"])
    /\ UNCHANGED <<clientVars, stream, archived, payment, commandVars, buzzVars>>

-----------------------------------------------------------------------------

Cycle(w) ==
    \/ LoadHorizon(w) \/ ReadEnrollments(w) \/ Materialize(w)
    \/ LoadTargets(w) \/ Prepare(w) \/ PostRoot(w) \/ PostReply(w)
    \/ Reserve(w) \/ PostCards(w) \/ Complete(w)

Staff ==
    \/ \E k \in Keys : \/ \E p \in PaymentIds, c \in Changes(config.changes) : Ask(k, p, c)
                       \/ \E m \in posted : React(k, m)
                       \/ Begin(k) \/ Commit(k) \/ Rollback(k)
    \/ \E e \in Enrollments : \/ Pause(e) \/ Resume(e) \/ End(e)
                              \/ \E n \in Prices : ChangeTariff(e, n)
    \/ \E ch \in Streams \cup {"unset"} : SetStream(ch)
    \/ \E ch \in Streams : Archive(ch)

Next == (\E w \in Workers : Cycle(w) \/ Fail(w)) \/ Staff \/ Tick

Spec == Init /\ [][Next]_vars

\* The automation of each pod runs on a timer; nothing obliges the staff.
FairSpec == Spec /\ \A w \in Workers : WF_vars(Cycle(w))

-----------------------------------------------------------------------------
(* Properties *)

Rows == [status : {"expected", "paid", "cancelled"}, amount : Amounts, received : Nat,
         refunded : Nat, due : Days, version : Nat \ {0}]

CardEvents == [kind : {"card"}, payment : PaymentIds, version : Nat, shown : Int,
               stream : Streams, period : Months, job : Nat]

Jobs == [id : Nat, stream : Streams, period : Months, digest : SUBSET (PaymentIds \X Nat),
         root : Nat, cards : SUBSET CardEvents]

\* Every variable has its type; in particular versions are positive.
TypeOK ==
    /\ config \in Configs
    /\ today \in Days
    /\ stream \in Streams \cup {"unset"}
    /\ archived \subseteq Streams
    /\ enrollment \in [Enrollments -> [status : {"active", "paused", "ended"}, price : Amounts,
                                       start : Days, floor : Days]]
    /\ payment \in [PaymentIds -> Rows \cup {None}]
    /\ \A k \in Keys : request[k] # None => request[k].payment \in PaymentIds
    /\ tx \in [Keys -> [paid : Int] \cup {None}]
    /\ done \in [Keys -> Nat]
    /\ answer \in [Keys -> {"none", "ok", "lost", "refused", "conflict"}]
    /\ card \in [PaymentIds -> CardEvents \cup {None}]
    /\ summary # None => /\ summary.job \in Jobs \cup {None}
                         /\ summary.stream \in Streams
    /\ posted \subseteq CardEvents \cup [kind : {"root", "reply"}, stream : Streams,
                                         period : Months, job : Nat]
    /\ \A w \in Workers : worker[w].job \in Jobs \cup {None}
    /\ active \in [Enrollments -> SUBSET Months]
    /\ forgiven \in [Enrollments -> SUBSET Months]

\* Whatever commands and reactions run at once, and however old the ledger sum
\* they have read: what is paid stays within what is due, a payment is paid
\* exactly when it is covered, and a cancelled one holds no money.
LedgerBalanced ==
    \A p \in PaymentIds : Exists(p) =>
        LET r == payment[p]
        IN  /\ Paid(r) \in 0..r.amount
            /\ r.status = "paid" <=> Paid(r) = r.amount /\ r.amount > 0
            /\ r.status = "cancelled" => Paid(r) = 0

\* A reaction records exactly the sum its card shows, and settles the payment.
ConfirmsWhatItShows ==
    [][\A k \in config.reacts : done'[k] # done[k] =>
          LET m == request[k].target
          IN  /\ payment'[m.payment].received = payment[m.payment].received + m.shown
              /\ payment'[m.payment].status = "paid"]_vars

\* The client of a command that was committed is never told anything else,
\* however often it has to ask.
RetryAnswered ==
    [][\A k \in Keys : done[k] # 0 /\ answer'[k] # answer[k] => answer'[k] = "ok"]_vars

\* A month in which the enrollment was active and that precedes a billed month
\* is billed, unless a resume has forgiven it: neither a moved due date nor a
\* pause nor a refresh that failed skips a month.
NoMonthSkipped ==
    \A e \in Enrollments : \A m \in active[e] \ forgiven[e], l \in Billed(e) :
        m < l => m \in Billed(e)

\* With one pod and one channel, failures and retries neither repeat the root
\* message of a month nor the card of a version in that month.
RetryStable ==
    Cardinality(config.workers) = 1 /\ counts.settings = 0 =>
        \A m, n \in posted :
            m.kind = n.kind /\ m.period = n.period /\ m.job # n.job =>
                \/ m.kind = "reply"
                \/ m.kind = "card" /\ <<m.payment, m.version>> # <<n.payment, n.version>>

\* Every message of the automation is posted in the channel that is configured.
NoLeak == [][\A m \in posted' \ posted : m.stream = stream]_vars

Confirmable(p) ==
    card[p] \in posted /\ card[p].stream = stream /\ card[p].version = payment[p].version

\* While a pod runs, a payment that is overdue gets a card that shows it as it is and that a
\* reaction can confirm, unless it stops being overdue; unless the channel, or
\* the one of a summary still pending, is gone.
CardAppears ==
    \A p \in PaymentIds :
        config.workers # {} /\ p \in Overdue(today) ~>
                                \/ p \notin Overdue(today)
                                \/ Confirmable(p)
                                \/ stream \in archived \cup {"unset"}
                                \/ summary # None /\ summary.stream \in archived

\* While a pod runs, an active enrollment is billed a month ahead.
BilledAhead ==
    \A e \in Enrollments, m \in Months :
        config.workers # {} /\ enrollment[e].status = "active" /\ m = MonthOf(today) + 1 ~>
            m \in Billed(e) \/ enrollment[e].status # "active" \/ m \in forgiven[e]

=============================================================================
