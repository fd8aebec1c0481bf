------------------------ MODULE PaymentsAutomation_proofs ------------------------
(***************************************************************************)
(* More proofs about Payments: no active month is left unbilled, failures  *)
(* and retries repeat no message of a month, and every variable has its    *)
(* type, for any number of enrollments, months, prices, keys and pods.     *)
(***************************************************************************)
EXTENDS Payments_proofs, FiniteSetTheorems

-----------------------------------------------------------------------------
(* The months of an enrollment.                                            *)

\* Of an enrollment: it has not resumed after today, nor was it active after today;
\* the active months before its floor that are not billed were forgiven by a resume;
\* and what is not billed before a billed month lies before its floor.
MonthsOf(e) ==
  /\ enrollment[e].start = 0 /\ enrollment[e].floor \in Nat /\ enrollment[e].floor <= today
  /\ \A m \in active[e] : m \in Nat /\ m <= MonthOf(today)
  /\ \A m \in active[e] \ Billed(e) : m < MonthOf(enrollment[e].floor) => m \in forgiven[e]
  /\ \A l \in Billed(e), m \in Nat : m < l /\ m \notin Billed(e) => m < MonthOf(enrollment[e].floor)
  /\ Billed(e) # {} => \E m \in Billed(e) : \A l \in Billed(e) : l <= m

\* A pod that bills has seen the enrollment as it is, or as it was before a resume.
SeenOk(w, e) ==
  /\ worker[w].seen[e].start = 0 /\ worker[w].seen[e].floor \in Nat
  /\ worker[w].seen[e].floor <= enrollment[e].floor

MonthsOk ==
  /\ today \in Nat
  /\ active = [e \in Enrollments |-> active[e]] /\ forgiven = [e \in Enrollments |-> forgiven[e]]
  /\ \A e \in Enrollments : MonthsOf(e)
  /\ \A w \in Workers : /\ worker[w].pc \in {"horizon", "insert"} => worker[w].date \in Nat
                        /\ worker[w].pc = "insert" => \A e \in Enrollments : SeenOk(w, e)

-----------------------------------------------------------------------------
(* One pod, one channel.                                                   *)

\* One pod runs the automation, and no channel was changed or archived.
OnePod == (\E w \in Workers : config.workers = {w}) /\ counts.settings = 0

\* A card, as an event.
IsCard(c) ==
  c \in [kind : {"card"}, payment : {c.payment}, version : {c.version}, shown : {c.shown},
         stream : {c.stream}, period : {c.period}, job : {c.job}]

\* What card c says is not behind what card m says, and the same only if they are of one job.
Ahead(c, m) ==
  /\ m.version <= c.version /\ m.period <= c.period
  /\ m.version = c.version /\ m.period = c.period => m.job = c.job

\* The summary of a month, pending or published: its job has a card per payment, and
\* posts a root only if the month has none.
SummaryOk ==
  /\ jobs \in Nat
  /\ summary # None => /\ summary.stream = stream /\ summary.period \in Nat
                       /\ summary.period <= MonthOf(today)
                       /\ summary.root # 0 \/ Pending
  /\ Pending => /\ summary.job.period = summary.period /\ summary.job.root = summary.root
                /\ summary.job.id # 0
                /\ \A c \in summary.job.cards : /\ IsCard(c) /\ c.job = summary.job.id
                                                /\ c.period = summary.period /\ c.stream = stream
                /\ \A c, d \in summary.job.cards : c.payment = d.payment => c = d

\* A reserved card is of the channel, and not ahead of its payment or of the summary.
ReservedOk ==
  \A p \in PaymentIds : card[p] # None =>
     /\ CardOk(card[p]) /\ card[p].payment = p /\ card[p].stream = stream
     /\ summary # None /\ card[p].period \in Nat /\ card[p].period <= summary.period

\* The one pod takes the months in their order and works on the summary that is pending;
\* it posts the cards that it has reserved.
PodOk ==
  \A w \in config.workers :
     /\ worker[w].pc = "prepare" => /\ worker[w].stream = stream
                                    /\ worker[w].date \in Nat /\ worker[w].date <= today
                                    /\ summary # None => summary.period <= MonthOf(worker[w].date)
     /\ worker[w].pc \in Holding => Pending /\ worker[w].job = summary.job
     /\ worker[w].pc = "cards" => \A c \in summary.job.cards : card[c.payment] = c

\* What is posted is of the month of the summary or of an earlier one; a root of that month is
\* known to the summary, and no card is ahead of the reserved and of the pending one.
IsPosted(m) ==
  /\ summary # None /\ m.period \in Nat /\ m.period <= summary.period
  /\ m.kind = "root" /\ m.period = summary.period =>
       summary.root # 0 \/ (Pending /\ m.job = summary.job.id)
  /\ m.kind = "card" => /\ card[m.payment] # None /\ Ahead(card[m.payment], m)
                        /\ Pending => \A c \in summary.job.cards : c.payment = m.payment => Ahead(c, m)

\* No two jobs post the same: RetryStable, once there is one pod.
Distinct(m, n) ==
  m.kind = n.kind /\ m.period = n.period /\ m.job # n.job =>
    \/ m.kind = "reply"
    \/ m.kind = "card" /\ <<m.payment, m.version>> # <<n.payment, n.version>>

PostedOk == /\ \A m \in posted : IsPosted(m)
            /\ \A m, n \in posted : Distinct(m, n)

RetryInv ==
  /\ counts \in [faults : Nat, settings : Nat, lifecycle : Nat]
  /\ OnePod => SummaryOk /\ ReservedOk /\ PodOk /\ PostedOk

-----------------------------------------------------------------------------
(* The calendar.                                                           *)

\* MonthOfType: a day lies in a month.
LEMMA MonthOfType ==
  ASSUME NEW d \in Nat
  PROVE  MonthOf(d) \in Nat /\ MonthOf(d) * DaysPerMonth <= d
  BY PaymentsAssumption DEF MonthOf

\* MonthOfRises: a later day does not lie in an earlier month.
LEMMA MonthOfRises ==
  ASSUME NEW c \in Nat, NEW d \in Nat, c <= d
  PROVE  MonthOf(c) <= MonthOf(d)
  BY PaymentsAssumption DEF MonthOf

\* MonthOfZero: the calendar starts with the first month.
LEMMA MonthOfZero == MonthOf(0) = 0
  BY PaymentsAssumption DEF MonthOf

-----------------------------------------------------------------------------
(* No month is skipped.                                                    *)

\* FirstPeriodFacts: a refresh begins after the latest billed month, and jumps only over
\* months before the floor.
LEMMA FirstPeriodFacts ==
  ASSUME NEW e \in Enrollments, NEW seen, seen.start = 0, seen.floor \in Nat,
         Billed(e) # {} => \E m \in Billed(e) : \A l \in Billed(e) : l <= m
  PROVE  LET first == FirstPeriod(e, seen).month IN
         /\ first \in Nat
         /\ \A l \in Billed(e) : l < first
         /\ \A m \in Nat : m < first => m < MonthOf(seen.floor) \/ \E l \in Billed(e) : m <= l
  <1> DEFINE next  == IF Billed(e) = {} THEN MonthOf(seen.start) ELSE LatestPeriod(e) + 1
             first == FirstPeriod(e, seen).month
             floor == MonthOf(seen.floor)
  <1>1. first = IF next < floor THEN floor ELSE next
    BY DEF FirstPeriod
  <1>2. floor \in Nat
    BY MonthOfType
  <1>3. Billed(e) \subseteq Nat
    BY PaymentsAssumption DEF Billed, Months
  <1>4. CASE Billed(e) = {}
    <2>1. next = 0
      BY <1>4, MonthOfZero
    <2> HIDE DEF next
    <2>2. QED
      BY <1>1, <1>2, <1>4, <2>1
  <1>5. CASE Billed(e) # {}
    <2>1. LatestPeriod(e) \in Billed(e) /\ \A l \in Billed(e) : l <= LatestPeriod(e)
      BY <1>5 DEF LatestPeriod
    <2>2. next = LatestPeriod(e) + 1 /\ LatestPeriod(e) \in Nat
      BY <1>3, <1>5, <2>1
    <2> HIDE DEF next
    <2>3. QED
      BY <1>1, <1>2, <1>3, <2>1, <2>2
  <1>6. QED
    BY <1>4, <1>5

\* Filled: the rows that a refresh with snapshot seen and date adds for an enrollment.
Filled(e, seen, date) ==
  {m \in Months : /\ seen[e].status = "active" /\ m \notin Billed(e)
                  /\ m \in FirstPeriod(e, seen[e]).month..(FirstPeriod(e, seen[e]).month + MaxCreated - 1)
                  /\ m <= Horizon(date)}

\* BilledNext: what is billed after a refresh.
LEMMA BilledNext ==
  ASSUME NEW e \in Enrollments, NEW w \in Workers, Materialize(w)
  PROVE  Billed(e)' = Billed(e) \cup Filled(e, worker[w].seen, worker[w].date)
  <1> DEFINE seen == worker[w].seen
             date == worker[w].date
  <1>1. payment' = Materialized(seen, date)
    BY DEF Materialize
  <1>2. ASSUME NEW m \in Months
        PROVE  payment'[<<e, m>>] # None <=> payment[<<e, m>>] # None \/ m \in Filled(e, seen, date)
    <2> DEFINE p == <<e, m>>
    <2>1. p \in PaymentIds /\ p[1] = e /\ p[2] = m
      BY DEF PaymentIds
    <2>2. \A a, d : NewPayment(a, d) # None
      BY DEF NewPayment, None
    <2>3. m \in Filled(e, seen, date) <=>
            /\ seen[e].status = "active" /\ payment[p] = None
            /\ m \in FirstPeriod(e, seen[e]).month..(FirstPeriod(e, seen[e]).month + MaxCreated - 1)
            /\ m <= Horizon(date)
      BY DEF Filled, Billed, Exists
    <2>4. \/ payment'[p] = payment[p] /\ m \notin Filled(e, seen, date)
          \/ (\E a, d : payment'[p] = NewPayment(a, d)) /\ m \in Filled(e, seen, date)
      BY <1>1, <2>1, <2>3 DEF Materialized, Exists
    <2>5. m \in Filled(e, seen, date) => payment[p] = None
      BY <2>3
    <2>6. QED
      BY <2>2, <2>4, <2>5
  <1>3. Filled(e, seen, date) \subseteq Months
    BY DEF Filled
  <1> HIDE DEF seen, date
  <1>4. QED
    BY <1>2, <1>3 DEF Billed, Exists, seen, date


\* FilledFacts: a refresh fills consecutive months after the latest billed one; what it
\* leaves out before them lies before the floor it has seen.
LEMMA FilledFacts ==
  ASSUME NEW e \in Enrollments, NEW seen, NEW date \in Nat, seen[e].start = 0, seen[e].floor \in Nat,
         Billed(e) # {} => \E m \in Billed(e) : \A l \in Billed(e) : l <= m
  PROVE  LET after == Billed(e) \cup Filled(e, seen, date) IN
         /\ \A l \in Filled(e, seen, date), m \in Nat :
              m < l /\ m \notin after => m < MonthOf(seen[e].floor) \/ \E k \in Billed(e) : m <= k
         /\ after # {} => \E m \in after : \A l \in after : l <= m
  <1> DEFINE first == FirstPeriod(e, seen[e]).month
             new   == Filled(e, seen, date)
             after == Billed(e) \cup new
  <1>1. /\ first \in Nat /\ \A l \in Billed(e) : l < first
        /\ \A m \in Nat : m < first => m < MonthOf(seen[e].floor) \/ \E l \in Billed(e) : m <= l
    BY FirstPeriodFacts
  <1> DEFINE last == first + MaxCreated - 1
  <1>2. \A m : m \in new <=> /\ m \in Months /\ seen[e].status = "active" /\ m \notin Billed(e)
                             /\ m \in first..last /\ m <= Horizon(date)
    BY DEF Filled
  <1>3. Horizon(date) \in Nat /\ last \in Nat /\ LastMonth \in Nat /\ Months = 0..LastMonth
    <2>1. MonthOf(date) \in Nat
      BY MonthOfType
    <2>2. QED
      BY <1>1, <2>1, PaymentsAssumption DEF Horizon, Months
  <1>4. Billed(e) \subseteq Nat
    BY <1>3 DEF Billed
  <1> HIDE DEF first, last, new
  <1>5. ASSUME NEW l \in new, NEW m \in Nat, m < l, m \notin after
        PROVE  m < MonthOf(seen[e].floor) \/ \E k \in Billed(e) : m <= k
    <2>1. ~(first <= m)
      BY <1>1, <1>2, <1>3, <1>5
    <2>2. QED
      BY <1>1, <2>1
  <1>6. ASSUME after # {} PROVE \E m \in after : \A l \in after : l <= m
    <2>1. CASE new = {}
      BY <1>6, <2>1
    <2>2. CASE new # {}
      <3>1. PICK x \in new : TRUE
        BY <2>2
      <3>2. PICK top \in Nat : /\ top <= last /\ top <= Horizon(date) /\ top <= LastMonth
                               /\ top = last \/ top = Horizon(date) \/ top = LastMonth
        BY <1>3
      <3>3. \A l \in new : l \in Nat /\ first <= l /\ l <= top
        BY <1>2, <1>3, <3>2
      <3>4. first <= top
        BY <3>1, <3>2, <3>3, <1>1
      <3>5. top \in new
        BY <1>1, <1>2, <1>3, <1>4, <3>1, <3>2, <3>4
      <3>6. \A l \in Billed(e) : l <= top
        BY <1>1, <1>4, <3>2, <3>4
      <3>7. QED
        BY <3>3, <3>5, <3>6
    <2>3. QED
      BY <2>1, <2>2
  <1>7. QED
    BY <1>5, <1>6 DEF new

\* MonthsFilled: a refresh skips only months before the floor.
LEMMA MonthsFilled ==
  ASSUME MonthsOk, NEW w \in Workers, Materialize(w), WorkersOk
  PROVE  MonthsOk'
  <1> DEFINE seen == worker[w].seen
             date == worker[w].date
  <1>1. /\ UNCHANGED <<today, enrollment, active, forgiven>> /\ worker[w].pc = "insert"
        /\ Go(w, [Idle EXCEPT !.pc = "refreshed"])
    BY DEF Materialize, At, clientVars
  <1>2. date \in Nat /\ \A e \in Enrollments : SeenOk(w, e)
    BY <1>1 DEF MonthsOk
  <1>3. ASSUME NEW e \in Enrollments PROVE MonthsOf(e)'
    <2>0. MonthsOf(e) /\ SeenOk(w, e)
      BY <1>2 DEF MonthsOk
    <2> DEFINE new == Filled(e, seen, date)
    <2>1. Billed(e)' = Billed(e) \cup new
      BY BilledNext
    <2>2. /\ \A l \in new, m \in Nat :
               m < l /\ m \notin Billed(e) \cup new =>
                 m < MonthOf(seen[e].floor) \/ \E k \in Billed(e) : m <= k
          /\ Billed(e) \cup new # {} => \E m \in Billed(e) \cup new : \A l \in Billed(e) \cup new : l <= m
      BY <1>2, <2>0, FilledFacts DEF SeenOk, MonthsOf
    <2> HIDE DEF new
    <2>3. /\ MonthOf(enrollment[e].floor) \in Nat /\ MonthOf(seen[e].floor) \in Nat
          /\ MonthOf(seen[e].floor) <= MonthOf(enrollment[e].floor)
      BY <2>0, MonthOfType, MonthOfRises DEF SeenOk, MonthsOf
    <2>4. Billed(e) \subseteq Nat
      BY PaymentsAssumption DEF Billed, Months
    <2>5. ASSUME NEW l \in Billed(e)', NEW m \in Nat, m < l, m \notin Billed(e)'
          PROVE  m < MonthOf(enrollment[e].floor)
      <3>1. CASE l \in Billed(e)
        BY <2>0, <2>1, <2>5, <3>1 DEF MonthsOf
      <3>2. CASE l \in new
        <4>1. m < MonthOf(seen[e].floor) \/ \E k \in Billed(e) : m <= k
          BY <2>1, <2>2, <2>5, <3>2
        <4>2. CASE m < MonthOf(seen[e].floor)
          BY <2>3, <4>2
        <4>3. ASSUME NEW k \in Billed(e), m <= k PROVE m < MonthOf(enrollment[e].floor)
          <5>1. m # k /\ m < k
            BY <2>1, <2>4, <2>5, <4>3
          <5>2. QED
            BY <2>0, <2>1, <2>5, <5>1 DEF MonthsOf
        <4>4. QED
          BY <4>1, <4>2, <4>3
      <3>3. QED
        BY <2>1, <2>5, <3>1, <3>2
    <2>6. \A m \in active[e] \ Billed(e)' : m < MonthOf(enrollment[e].floor) => m \in forgiven[e]
      BY <2>0, <2>1 DEF MonthsOf
    <2>7. Billed(e)' # {} => \E m \in Billed(e)' : \A l \in Billed(e)' : l <= m
      BY <2>1, <2>2
    <2>8. UNCHANGED <<enrollment[e], active[e], forgiven[e], today>>
      BY <1>1
    <2>9. (MonthOf(enrollment[e].floor) = MonthOf(enrollment[e].floor)') /\ (MonthOf(today)' = MonthOf(today))
      BY <2>8 DEF MonthOf
    <2>10. QED
      BY <2>0, <2>5, <2>6, <2>7, <2>8, <2>9 DEF MonthsOf
  <1>4. ASSUME NEW v \in Workers
        PROVE  /\ worker'[v].pc \in {"horizon", "insert"} => worker'[v].date \in Nat
               /\ worker'[v].pc = "insert" => \A e \in Enrollments : SeenOk(v, e)'
    <2> DEFINE idle == [Idle EXCEPT !.pc = "refreshed"]
    <2>1. IsWorker(idle) /\ idle.pc = "refreshed"
      BY IdleFacts
    <2>2. Go(w, idle)
      BY <1>1
    <2> HIDE DEF idle
    <2>3. worker'[w] = idle /\ \A u \in Workers : u # w => worker'[u] = worker[u]
      BY <2>1, <2>2, GoFacts
    <2>4. CASE v = w
      BY <2>1, <2>3, <2>4
    <2>5. CASE v # w
      BY <1>1, <2>3, <2>5 DEF MonthsOk, SeenOk
    <2>6. QED
      BY <2>4, <2>5
  <1>5. QED
    BY <1>1, <1>3, <1>4 DEF MonthsOk


\* SameMonths: the months of an enrollment depend on nothing else.
LEMMA SameMonths ==
  ASSUME NEW e \in Enrollments, MonthsOf(e), UNCHANGED <<today, enrollment[e], active[e], forgiven[e]>>,
         Billed(e)' = Billed(e)
  PROVE  MonthsOf(e)'
  <1>1. MonthOf(today)' = MonthOf(today) /\ MonthOf(enrollment[e].floor)' = MonthOf(enrollment[e].floor)
    BY DEF MonthOf
  <1>2. QED
    BY <1>1 DEF MonthsOf

\* MonthsQuiet: a step that creates no payment and changes no enrollment skips no month; a pod
\* that reads the enrollments reads them as they are.
LEMMA MonthsQuiet ==
  ASSUME MonthsOk, UNCHANGED <<today, enrollment, active, forgiven>>,
         \A p \in PaymentIds : payment'[p] = None <=> payment[p] = None,
         \A w \in Workers :
            \/ worker'[w] = worker[w]
            \/ worker'[w].pc \notin {"horizon", "insert"}
            \/ worker'[w].pc = "horizon" /\ worker'[w].date = today
            \/ /\ worker'[w].pc = "insert" /\ worker[w].pc = "horizon"
               /\ worker'[w].date = worker[w].date /\ worker'[w].seen = enrollment
  PROVE  MonthsOk'
  <1>1. ASSUME NEW e \in Enrollments PROVE Billed(e)' = Billed(e)
    BY DEF Billed, Exists, PaymentIds
  <1>2. ASSUME NEW e \in Enrollments PROVE MonthsOf(e)'
    BY <1>1, SameMonths DEF MonthsOk
  <1>3. ASSUME NEW w \in Workers
        PROVE  /\ worker'[w].pc \in {"horizon", "insert"} => worker'[w].date \in Nat
               /\ worker'[w].pc = "insert" => \A e \in Enrollments : SeenOk(w, e)'
    <2>1. CASE worker'[w] = worker[w]
      BY <2>1 DEF MonthsOk, SeenOk
    <2>2. CASE worker'[w].pc \notin {"horizon", "insert"}
      BY <2>2
    <2>3. CASE worker'[w].pc = "horizon" /\ worker'[w].date = today
      BY <2>3 DEF MonthsOk
    <2>4. CASE /\ worker'[w].pc = "insert" /\ worker[w].pc = "horizon"
               /\ worker'[w].date = worker[w].date /\ worker'[w].seen = enrollment
      <3>1. worker'[w].date \in Nat
        BY <2>4 DEF MonthsOk
      <3>2. ASSUME NEW e \in Enrollments PROVE SeenOk(w, e)'
        <4>1. worker'[w].seen[e] = enrollment[e] /\ enrollment'[e] = enrollment[e]
          BY <2>4
        <4>2. enrollment[e].start = 0 /\ enrollment[e].floor \in Nat
          BY DEF MonthsOk, MonthsOf
        <4>3. QED
          BY <4>1, <4>2 DEF SeenOk
      <3>3. QED
        BY <3>1, <3>2
    <2>5. QED
      BY <2>1, <2>2, <2>3, <2>4
  <1>4. QED
    BY <1>2, <1>3 DEF MonthsOk

\* NewActive: a month that becomes active while the enrollment runs is the present one.
LEMMA NewActive ==
  ASSUME NEW e \in Enrollments, MonthsOf(e), today \in Nat, today' \in Nat, today <= today',
         UNCHANGED payment, enrollment'[e].start = 0,
         enrollment'[e].floor = enrollment[e].floor, forgiven'[e] = forgiven[e],
         active'[e] = active[e] \/ active'[e] = active[e] \cup {MonthOf(today')}
  PROVE  MonthsOf(e)'
  <1>1. /\ MonthOf(today)' = MonthOf(today')
        /\ MonthOf(enrollment[e].floor)' = MonthOf(enrollment[e].floor)
    BY DEF MonthOf
  <1>2. /\ MonthOf(today) \in Nat /\ MonthOf(today') \in Nat /\ MonthOf(today) <= MonthOf(today')
        /\ MonthOf(enrollment[e].floor) \in Nat /\ MonthOf(enrollment[e].floor) <= MonthOf(today')
        /\ enrollment[e].floor \in Nat /\ enrollment[e].floor <= today'
    <2>1. enrollment[e].floor \in Nat /\ enrollment[e].floor <= today'
      BY DEF MonthsOf
    <2>2. QED
      BY <2>1, MonthOfType, MonthOfRises
  <1>3. Billed(e)' = Billed(e)
    BY DEF Billed, Exists
  <1>4. \A m \in active'[e] : m \in Nat /\ m <= MonthOf(today')
    BY <1>2 DEF MonthsOf
  <1>5. \A m \in active'[e] \ Billed(e) : m < MonthOf(enrollment[e].floor) => m \in forgiven[e]
    BY <1>2 DEF MonthsOf
  <1>6. QED
    BY <1>1, <1>2, <1>3, <1>4, <1>5 DEF MonthsOf

\* MonthsLifecycle: a resume forgives the active months it leaves unbilled; a pause, an end
\* and a new tariff leave the floor as it is.
LEMMA MonthsLifecycle ==
  ASSUME MonthsOk, EnrollmentsOk, NEW e \in Enrollments,
         Pause(e) \/ Resume(e) \/ End(e) \/ \E n \in Prices : ChangeTariff(e, n)
  PROVE  MonthsOk'
  <1>1. PICK new :
          /\ new.start = enrollment[e].start
          /\ enrollment' = [enrollment EXCEPT ![e] = new]
          /\ active' = [active EXCEPT ![e] = IF new.status = "active" THEN @ \cup {MonthOf(today)} ELSE @]
          /\ UNCHANGED <<today, payment, worker>>
          /\ \/ new.floor = enrollment[e].floor /\ forgiven' = forgiven
             \/ /\ new.floor = today
                /\ forgiven' = [forgiven EXCEPT ![e] = @ \cup {m \in active[e] \ Billed(e) : m < MonthOf(today)}]
    <2>1. enrollment[e] \in EnrollmentRows
      BY DEF EnrollmentsOk
    <2>2. CASE Pause(e)
      <3>1. PICK new : new = [enrollment[e] EXCEPT !.status = "paused"]
        OBVIOUS
      <3>2. new.start = enrollment[e].start /\ new.floor = enrollment[e].floor
        BY <2>1, <3>1 DEF EnrollmentRows
      <3>3. QED
        BY <2>2, <3>1, <3>2 DEF Pause, Lifecycle
    <2>3. CASE Resume(e)
      <3>1. PICK new : new = [enrollment[e] EXCEPT !.status = "active", !.floor = today]
        OBVIOUS
      <3>2. new.start = enrollment[e].start /\ new.floor = today
        BY <2>1, <3>1 DEF EnrollmentRows
      <3>3. QED
        BY <2>3, <3>1, <3>2 DEF Resume, Lifecycle
    <2>4. CASE End(e)
      <3>1. PICK new : new = [enrollment[e] EXCEPT !.status = "ended"]
        OBVIOUS
      <3>2. new.start = enrollment[e].start /\ new.floor = enrollment[e].floor
        BY <2>1, <3>1 DEF EnrollmentRows
      <3>3. QED
        BY <2>4, <3>1, <3>2 DEF End, Lifecycle
    <2>5. ASSUME NEW n \in Prices, ChangeTariff(e, n)
          PROVE  \E new :
          /\ new.start = enrollment[e].start
          /\ enrollment' = [enrollment EXCEPT ![e] = new]
          /\ active' = [active EXCEPT ![e] = IF new.status = "active" THEN @ \cup {MonthOf(today)} ELSE @]
          /\ UNCHANGED <<today, payment, worker>>
          /\ new.floor = enrollment[e].floor /\ forgiven' = forgiven
      <3>1. PICK new : new = [enrollment[e] EXCEPT !.price = n]
        OBVIOUS
      <3>2. new.start = enrollment[e].start /\ new.floor = enrollment[e].floor
        BY <2>1, <3>1 DEF EnrollmentRows
      <3>3. QED
        BY <2>5, <3>1, <3>2 DEF ChangeTariff, Lifecycle
    <2>6. QED
      BY <2>2, <2>3, <2>4, <2>5
  <1>2. /\ enrollment' = [d \in Enrollments |-> enrollment'[d]]
        /\ enrollment'[e] = new /\ \A d \in Enrollments : d # e => enrollment'[d] = enrollment[d]
    BY <1>1 DEF EnrollmentsOk
  <1>3. /\ active' = [d \in Enrollments |-> active'[d]]
        /\ active'[e] = active[e] \/ active'[e] = active[e] \cup {MonthOf(today)}
        /\ \A d \in Enrollments : d # e => active'[d] = active[d]
    BY <1>1 DEF MonthsOk
  <1>4. /\ forgiven' = [d \in Enrollments |-> forgiven'[d]]
        /\ \A d \in Enrollments : d # e => forgiven'[d] = forgiven[d]
        /\ \/ new.floor = enrollment[e].floor /\ forgiven'[e] = forgiven[e]
           \/ /\ new.floor = today
              /\ forgiven'[e] = forgiven[e] \cup {m \in active[e] \ Billed(e) : m < MonthOf(today)}
    BY <1>1 DEF MonthsOk
  <1>5. \A d \in Enrollments : Billed(d)' = Billed(d)
    BY <1>1 DEF Billed, Exists
  <1>6. MonthsOf(e) /\ today \in Nat /\ enrollment[e].start = 0 /\ enrollment[e].floor \in Nat
        /\ enrollment[e].floor <= today
    BY DEF MonthsOk, MonthsOf
  <1>7. MonthsOf(e)'
    <2>1. CASE new.floor = enrollment[e].floor /\ forgiven'[e] = forgiven[e]
      BY <1>1, <1>2, <1>3, <1>6, <2>1, NewActive
    <2>2. CASE /\ new.floor = today
               /\ forgiven'[e] = forgiven[e] \cup {m \in active[e] \ Billed(e) : m < MonthOf(today)}
      <3>1. /\ enrollment'[e].floor = today /\ enrollment'[e].start = 0 /\ today' = today
            /\ MonthOf(enrollment[e].floor)' = MonthOf(today) /\ MonthOf(today)' = MonthOf(today)
        BY <1>1, <1>2, <1>6, <2>2 DEF MonthOf
      <3>2. /\ MonthOf(today) \in Nat /\ MonthOf(enrollment[e].floor) \in Nat
            /\ MonthOf(enrollment[e].floor) <= MonthOf(today)
        BY <1>6, MonthOfType, MonthOfRises
      <3>3. \A m \in active'[e] : m \in Nat /\ m <= MonthOf(today)
        BY <1>3, <1>6, <3>2 DEF MonthsOf
      <3>4. \A m \in active'[e] \ Billed(e) : m < MonthOf(today) => m \in forgiven'[e]
        BY <1>3, <2>2, <3>2
      <3>5. \A l \in Billed(e), m \in Nat : m < l /\ m \notin Billed(e) => m < MonthOf(today)
        BY <1>6, <3>2 DEF MonthsOf
      <3>6. QED
        BY <1>5, <1>6, <3>1, <3>3, <3>4, <3>5 DEF MonthsOf
    <2>3. QED
      BY <1>4, <2>1, <2>2
  <1>8. \A d \in Enrollments : MonthsOf(d)'
    <2>1. ASSUME NEW d \in Enrollments, d # e PROVE MonthsOf(d)'
      <3>1. UNCHANGED <<today, enrollment[d], active[d], forgiven[d]>>
        BY <1>1, <1>2, <1>3, <1>4, <2>1
      <3>2. QED
        BY <1>5, <3>1, SameMonths DEF MonthsOk
    <2>2. QED
      BY <1>7, <2>1
  <1>9. ASSUME NEW w \in Workers, worker[w].pc = "insert", NEW d \in Enrollments
        PROVE  SeenOk(w, d)'
    <2>1. SeenOk(w, d)
      BY <1>9 DEF MonthsOk
    <2>2. enrollment[d].floor \in Nat /\ enrollment'[d].floor \in Nat /\ enrollment[d].floor <= enrollment'[d].floor
      <3>1. MonthsOf(d)
        BY DEF MonthsOk
      <3>2. CASE d = e
        BY <1>2, <1>4, <1>6, <3>2
      <3>3. CASE d # e
        BY <1>2, <3>1, <3>3 DEF MonthsOf
      <3>4. QED
        BY <3>2, <3>3
    <2>3. QED
      BY <1>1, <2>1, <2>2 DEF SeenOk
  <1>10. QED
    BY <1>1, <1>3, <1>4, <1>8, <1>9 DEF MonthsOk

\* MonthsTick: a day that passes makes at most the present month active.
LEMMA MonthsTick ==
  ASSUME MonthsOk, Tick
  PROVE  MonthsOk'
  <1>1. /\ today \in Nat /\ today' = today + 1 /\ UNCHANGED <<enrollment, payment, worker, forgiven>>
        /\ active' = [e \in Enrollments |->
                         active[e] \cup IF enrollment[e].status = "active" THEN {MonthOf(today')} ELSE {}]
    BY DEF Tick, MonthsOk
  <1>2. ASSUME NEW e \in Enrollments PROVE MonthsOf(e)'
    <2>1. active'[e] = active[e] \/ active'[e] = active[e] \cup {MonthOf(today')}
      BY <1>1
    <2>2. /\ MonthsOf(e) /\ today' \in Nat /\ today <= today' /\ enrollment'[e].start = 0
          /\ enrollment'[e].floor = enrollment[e].floor /\ forgiven'[e] = forgiven[e]
      BY <1>1 DEF MonthsOk, MonthsOf
    <2>3. QED
      BY <1>1, <2>1, <2>2, NewActive
  <1>3. \A w \in Workers, e \in Enrollments : SeenOk(w, e)' <=> SeenOk(w, e)
    BY <1>1 DEF SeenOk
  <1>4. QED
    BY <1>1, <1>2, <1>3 DEF MonthsOk


\* CommitKeeps: a command creates and deletes no payment.
LEMMA CommitKeeps ==
  ASSUME PInv, NEW k \in Keys, Commit(k)
  PROVE  /\ \A p \in PaymentIds : payment'[p] = None <=> payment[p] = None
         /\ Grows
  <1>1. CASE done' = done
    <2>1. payment' = payment
      <3>1. CASE payment' # payment
        <4>1. /\ tx[k] # None /\ done' = [done EXCEPT ![k] = payment[request[k].payment].version + 1]
          BY <3>1 DEF Commit
        <4>2. TxOk(k) /\ RequestOk(k) /\ done \in [Keys -> Nat]
          BY <4>1 DEF PInv, TxsOk, RequestsOk, TxOk
        <4>3. done[k] = 0 /\ payment[request[k].payment].version \in Nat
          BY <4>2 DEF TxOk, RequestOk, IsRow
        <4>4. done'[k] = payment[request[k].payment].version + 1
          BY <4>1, <4>2
        <4>5. QED
          BY <1>1, <4>3, <4>4
      <3>2. QED
        BY <3>1
    <2>2. QED
      BY <2>1, StaysGrows
  <1>2. CASE done' # done
    <2> DEFINE q == request[k].payment
    <2>1. /\ IsRow(payment[q]) /\ IsRow(payment'[q]) /\ payment' = [payment EXCEPT ![q] = payment'[q]]
          /\ payment'[q].version = payment[q].version + 1 /\ payment[q].version \in Nat
      BY <1>2, CommitFacts DEF IsRow
    <2>2. payment = [p \in PaymentIds |-> payment[p]]
      BY DEF PInv, RowsOk
    <2> HIDE DEF q
    <2>3. ASSUME NEW p \in PaymentIds, p # q PROVE payment'[p] = payment[p]
      BY <2>1, <2>2, <2>3
    <2>4. payment[q] # None /\ payment'[q] # None
      BY <2>1, RowIsNotNone
    <2>5. Grows
      BY <2>1, <2>3 DEF Grows
    <2>6. QED
      BY <2>3, <2>4, <2>5
  <1>3. QED
    BY <1>1, <1>2

-----------------------------------------------------------------------------
(* The steps of a pod.                                                     *)

\* WhereGone: a pod that moves on is where it has gone.
LEMMA WhereGone ==
  ASSUME WorkersOk, NEW w \in Workers, NEW STATE new, Go(w, new)
  PROVE  worker'[w] = new /\ \A v \in Workers : v # w => worker'[v] = worker[v]
  BY DEF WorkersOk, Go

\* GoneIdle: a pod that puts its work down is idle.
LEMMA GoneIdle ==
  ASSUME WorkersOk, NEW w \in Workers, Go(w, Idle)
  PROVE  worker'[w] = Idle /\ worker'[w].pc = "idle"
  BY DEF WorkersOk, Go, Idle

\* CycleGoes: what a pod knows after each of its steps.
LEMMA CycleGoes ==
  ASSUME WorkersOk, NEW w \in Workers, Cycle(w) \/ Fail(w)
  PROVE  /\ \A v \in Workers : v # w => worker'[v] = worker[v]
         /\ LET x == worker'[w] IN
            \/ x.pc \in {"idle", "refreshed"} /\ x.date = 0 /\ x.job = None
            \/ x.pc = "horizon" /\ x.date = today /\ x.job = None
            \/ /\ x.pc = "insert" /\ worker[w].pc = "horizon"
               /\ x.seen = enrollment /\ x.date = worker[w].date /\ x.job = worker[w].job
            \/ x.pc = "prepare" /\ x.date = today /\ x.job = None /\ x.stream = stream /\ stream # "unset"
            \/ x.pc = "root" /\ x.date = 0 /\ x.job = summary'.job /\ Pending'
            \/ /\ x.pc \in {"reply", "reserve", "cards", "complete"} /\ worker[w].pc \in Holding
               /\ x.date = worker[w].date /\ x.job = worker[w].job
  <1> DEFINE Knows(x) ==
            \/ x.pc \in {"idle", "refreshed"} /\ x.date = 0 /\ x.job = None
            \/ x.pc = "horizon" /\ x.date = today /\ x.job = None
            \/ /\ x.pc = "insert" /\ worker[w].pc = "horizon"
               /\ x.seen = enrollment /\ x.date = worker[w].date /\ x.job = worker[w].job
            \/ x.pc = "prepare" /\ x.date = today /\ x.job = None /\ x.stream = stream /\ stream # "unset"
            \/ x.pc = "root" /\ x.date = 0 /\ x.job = summary'.job /\ Pending'
            \/ /\ x.pc \in {"reply", "reserve", "cards", "complete"} /\ worker[w].pc \in Holding
               /\ x.date = worker[w].date /\ x.job = worker[w].job
  <1>0. IsWorker(worker[w])
    BY DEF WorkersOk
  <1>1. Knows(Idle) /\ Knows([Idle EXCEPT !.pc = "refreshed"])
    BY DEF Idle
  <1>2. ASSUME NEW STATE x, Go(w, x), Knows(x)
        PROVE  (\A v \in Workers : v # w => worker'[v] = worker[v]) /\ Knows(worker'[w])
    BY <1>2, WhereGone
  <1>3. ASSUME Go(w, Idle)
        PROVE  (\A v \in Workers : v # w => worker'[v] = worker[v]) /\ Knows(worker'[w])
    <2> HIDE DEF Knows
    <2>1. QED
      BY <1>1, <1>2, <1>3
  <1>4. ASSUME Go(w, [Idle EXCEPT !.pc = "refreshed"])
        PROVE  (\A v \in Workers : v # w => worker'[v] = worker[v]) /\ Knows(worker'[w])
    <2> HIDE DEF Knows
    <2>1. QED
      BY <1>1, <1>2, <1>4
  <1>5. CASE LoadHorizon(w)
    <2> DEFINE x == [Idle EXCEPT !.pc = "horizon", !.date = today]
    <2>1. Knows(x)
      BY DEF Idle
    <2>2. Go(w, x)
      BY <1>5 DEF LoadHorizon
    <2> HIDE DEF x, Knows
    <2>3. (\A v \in Workers : v # w => worker'[v] = worker[v]) /\ Knows(worker'[w])
      BY <1>2, <2>1, <2>2
    <2>4. QED
      BY <2>3 DEF Knows
  <1>6. CASE ReadEnrollments(w)
    <2> DEFINE x == [worker[w] EXCEPT !.pc = "insert", !.seen = enrollment]
    <2>1. Knows(x)
      BY <1>0, <1>6 DEF IsWorker, ReadEnrollments, At
    <2>2. Go(w, x)
      BY <1>6 DEF ReadEnrollments
    <2> HIDE DEF x, Knows
    <2>3. (\A v \in Workers : v # w => worker'[v] = worker[v]) /\ Knows(worker'[w])
      BY <1>2, <2>1, <2>2
    <2>4. QED
      BY <2>3 DEF Knows
  <1>7. CASE LoadTargets(w) /\ stream # "unset"
    <2> DEFINE x == [Idle EXCEPT !.pc = "prepare", !.stream = stream, !.date = today]
    <2>1. Knows(x)
      BY <1>7 DEF Idle
    <2>2. Go(w, x)
      BY <1>7 DEF LoadTargets
    <2> HIDE DEF x, Knows
    <2>3. (\A v \in Workers : v # w => worker'[v] = worker[v]) /\ Knows(worker'[w])
      BY <1>2, <2>1, <2>2
    <2>4. QED
      BY <2>3 DEF Knows
  <1>8. CASE Prepare(w) /\ ~Go(w, Idle)
    <2>1. PICK j : Go(w, [Idle EXCEPT !.pc = "root", !.job = j]) /\ summary'.job = j /\ Pending'
      <3>1. CASE Pending
        BY <1>8, <3>1 DEF Prepare, Pending
      <3>2. CASE ~Pending
        <4> DEFINE job == [id |-> jobs + 1, stream |-> worker[w].stream, period |-> MonthOf(worker[w].date),
                           digest |-> Digest(Overdue(worker[w].date)),
                           root |-> IF summary # None /\ summary.stream = worker[w].stream
                                       /\ summary.period = MonthOf(worker[w].date) THEN summary.root ELSE 0,
                           cards |-> {CardOf(p, worker[w].stream, MonthOf(worker[w].date), jobs + 1) :
                                        p \in {q \in Overdue(worker[w].date) :
                                                 ~Published(q, worker[w].stream, MonthOf(worker[w].date))}}]
        <4>1. /\ summary' = [stream |-> worker[w].stream, period |-> MonthOf(worker[w].date), root |-> job.root,
                             job |-> job, digest |-> IF summary = None THEN {} ELSE summary.digest]
              /\ Go(w, [Idle EXCEPT !.pc = "root", !.job = job])
          BY <1>8, <3>2 DEF Prepare
        <4>2. job # None
          BY DEF None
        <4> HIDE DEF job
        <4>3. Pending' /\ summary'.job = job
          BY <4>1, <4>2 DEF Pending, None
        <4>4. QED
          BY <4>1, <4>3
      <3>3. QED
        BY <3>1, <3>2
    <2> DEFINE x == [Idle EXCEPT !.pc = "root", !.job = j]
    <2>2. Knows(x)
      BY <2>1 DEF Idle
    <2>3. Go(w, x)
      BY <2>1
    <2>4. worker'[w] = x
      BY <2>3 DEF Go, WorkersOk
    <2>5. \A v \in Workers : v # w => worker'[v] = worker[v]
      BY <2>3 DEF Go, WorkersOk
    <2> HIDE DEF x, Knows
    <2>6. Knows(worker'[w])
      BY <2>2, <2>4
    <2>7. QED
      BY <2>5, <2>6 DEF Knows
  <1>9. ASSUME NEW pc \in {"reply", "reserve", "cards", "complete"}, Go(w, [worker[w] EXCEPT !.pc = pc]),
               worker[w].pc \in Holding
        PROVE  (\A v \in Workers : v # w => worker'[v] = worker[v]) /\ Knows(worker'[w])
    <2> DEFINE x == [worker[w] EXCEPT !.pc = pc]
    <2>1. Knows(x)
      BY <1>0, <1>9 DEF IsWorker
    <2>2. Go(w, x)
      BY <1>9
    <2> HIDE DEF x, Knows
    <2>3. QED
      BY <1>2, <2>1, <2>2
  <1> HIDE DEF Knows
  <1>10. CASE PostRoot(w) \/ PostReply(w) \/ Reserve(w) \/ PostCards(w) \/ Complete(w)
    <2>1. \/ Go(w, Idle)
          \/ \E pc \in {"reply", "reserve", "cards", "complete"} : Go(w, [worker[w] EXCEPT !.pc = pc])
      BY <1>10 DEF PostRoot, PostReply, Reserve, PostCards, Complete
    <2>2. worker[w].pc \in Holding
      BY <1>10 DEF PostRoot, PostReply, Reserve, PostCards, Complete, At, Holding
    <2>3. (\A v \in Workers : v # w => worker'[v] = worker[v]) /\ Knows(worker'[w])
      BY <1>3, <1>9, <2>1, <2>2
    <2>4. QED
      BY <2>3 DEF Knows
  <1>11. CASE Go(w, Idle) \/ Go(w, [Idle EXCEPT !.pc = "refreshed"])
    <2>1. (\A v \in Workers : v # w => worker'[v] = worker[v]) /\ Knows(worker'[w])
      BY <1>3, <1>4, <1>11
    <2>2. QED
      BY <2>1 DEF Knows
  <1>12. QED
    BY <1>5, <1>6, <1>7, <1>8, <1>10, <1>11 DEF Cycle, Fail, LoadTargets, Materialize

-----------------------------------------------------------------------------
(* The months, step by step.                                               *)

\* MonthsCycle: the other steps of a pod create no payment.
LEMMA MonthsCycle ==
  ASSUME MonthsOk, WorkersOk, NEW w \in Workers, Cycle(w) \/ Fail(w), ~Materialize(w)
  PROVE  MonthsOk'
  <1>1. UNCHANGED <<today, enrollment, active, forgiven, payment>>
    BY DEF Cycle, Fail, LoadHorizon, ReadEnrollments, LoadTargets, Prepare, PostRoot, PostReply,
       Reserve, PostCards, Complete, clientVars
  <1>2. \A v \in Workers :
            \/ worker'[v] = worker[v]
            \/ worker'[v].pc \notin {"horizon", "insert"}
            \/ worker'[v].pc = "horizon" /\ worker'[v].date = today
            \/ /\ worker'[v].pc = "insert" /\ worker[v].pc = "horizon"
               /\ worker'[v].date = worker[v].date /\ worker'[v].seen = enrollment
    BY CycleGoes
  <1>3. QED
    BY <1>1, <1>2, MonthsQuiet

\* MonthsStep: every step keeps the months.
LEMMA MonthsStep == PInv /\ MonthsOk /\ [Next]_vars => MonthsOk'
  <1> SUFFICES ASSUME PInv, MonthsOk, [Next]_vars PROVE MonthsOk'
    OBVIOUS
  <1>0. WorkersOk /\ EnrollmentsOk
    BY DEF PInv
  <1>1. ASSUME NEW w \in Workers, Cycle(w) \/ Fail(w) PROVE MonthsOk'
    BY <1>0, <1>1, MonthsFilled, MonthsCycle
  <1>2. ASSUME NEW k \in Keys, Commit(k) PROVE MonthsOk'
    <2>1. UNCHANGED <<today, enrollment, active, forgiven, worker>>
      BY <1>2 DEF Commit, clientVars
    <2>2. \A p \in PaymentIds : payment'[p] = None <=> payment[p] = None
      BY <1>2, CommitKeeps
    <2>3. QED
      BY <2>1, <2>2, MonthsQuiet
  <1>3. ASSUME UNCHANGED <<today, enrollment, active, forgiven, worker, payment>> PROVE MonthsOk'
    BY <1>3, MonthsQuiet
  <1>4. CASE Staff
    <2>1. CASE \E k \in Keys : \/ \E p \in PaymentIds, c \in Changes(config.changes) : Ask(k, p, c)
                               \/ \E m \in posted : React(k, m)
                               \/ Begin(k) \/ Rollback(k)
      BY <1>3, <2>1 DEF Ask, React, Begin, Rollback, clientVars
    <2>2. CASE \E ch : SetStream(ch) \/ Archive(ch)
      BY <1>3, <2>2 DEF SetStream, Archive, clientVars
    <2>3. CASE \E e \in Enrollments : Pause(e) \/ Resume(e) \/ End(e) \/ \E n \in Prices : ChangeTariff(e, n)
      BY <1>0, <2>3, MonthsLifecycle
    <2>4. QED
      BY <1>2, <1>4, <2>1, <2>2, <2>3 DEF Staff
  <1>5. CASE Tick
    BY <1>5, MonthsTick
  <1>6. CASE UNCHANGED vars
    BY <1>3, <1>6 DEF vars
  <1>7. QED
    BY <1>1, <1>4, <1>5, <1>6 DEF Next

\* MonthsInit: an organization that has just enrolled has at most its first month billed.
LEMMA MonthsInit == Init => MonthsOk
  <1> SUFFICES ASSUME Init PROVE MonthsOk
    OBVIOUS
  <1>1. ASSUME NEW e \in Enrollments PROVE MonthsOf(e)
    <2>1. enrollment[e].start = 0 /\ enrollment[e].floor = 0 /\ today = 0 /\ active[e] = {0} /\ forgiven[e] = {}
      BY DEF Init
    <2>2. Billed(e) \subseteq {0}
      BY DEF Init, Billed, Exists, PaymentIds
    <2>3. MonthOf(today) = 0 /\ MonthOf(enrollment[e].floor) = 0
      BY <2>1, MonthOfZero
    <2>4. Billed(e) # {} => \E m \in Billed(e) : \A l \in Billed(e) : l <= m
      BY <2>2
    <2>5. QED
      BY <2>1, <2>2, <2>3, <2>4 DEF MonthsOf
  <1>2. \A w \in Workers : worker[w].pc = "idle"
    BY DEF Init, Idle
  <1>3. QED
    BY <1>1, <1>2 DEF Init, MonthsOk

\* MonthsInductive: the months are kept in every behaviour.
THEOREM MonthsInductive == Spec => [](PInv /\ MonthsOk)
  BY PaymentsInit, PaymentsStep, MonthsInit, MonthsStep, PTL DEF Spec

\* MonthsBilled: an active month before a billed one is billed or was forgiven by a resume,
\* whatever pods, failed refreshes, pauses and moved due dates do
\* (refresh_airhop_payment_horizons and materialize_payment, payment_automation.rs).
THEOREM MonthsBilled == Spec => []NoMonthSkipped
  <1>1. MonthsOk => NoMonthSkipped
    <2> SUFFICES ASSUME MonthsOk, NEW e \in Enrollments, NEW m \in active[e] \ forgiven[e],
                        NEW l \in Billed(e), m < l, m \notin Billed(e)
                 PROVE  FALSE
      BY DEF NoMonthSkipped
    <2>1. MonthsOf(e) /\ m \in Nat
      BY DEF MonthsOk, MonthsOf
    <2>2. m < MonthOf(enrollment[e].floor)
      BY <2>1 DEF MonthsOf
    <2>3. QED
      BY <2>1, <2>2 DEF MonthsOf
  <1>2. QED
    BY <1>1, MonthsInductive, PTL


-----------------------------------------------------------------------------
(* Failures and retries repeat no message.                                 *)

\* CardIsNotNone: a card is not the absence of one.
LEMMA CardIsNotNone == ASSUME NEW c, IsCard(c) PROVE c # None /\ c.kind = "card"
  BY DEF IsCard, None

\* AheadOfItself: a card is not behind itself.
LEMMA AheadOfItself == ASSUME NEW c, c.version \in Nat, c.period \in Nat PROVE Ahead(c, c)
  BY DEF Ahead

\* UpsertFacts: the reservations after a job's cards are stored.
LEMMA UpsertFacts ==
  ASSUME NEW cards, Upsert(cards), \A c \in cards : c.payment \in PaymentIds,
         \A c, d \in cards : c.payment = d.payment => c = d
  PROVE  /\ \A c \in cards : card'[c.payment] = c
         /\ \A p \in PaymentIds : card'[p] = card[p] \/ \E c \in cards : c.payment = p /\ card'[p] = c
  <1>1. ASSUME NEW p \in PaymentIds, NEW c \in cards, c.payment = p PROVE card'[p] = c
    <2>1. card'[p] = CHOOSE m \in cards : m.payment = p
      BY <1>1 DEF Upsert
    <2>2. (CHOOSE m \in cards : m.payment = p) \in cards /\ (CHOOSE m \in cards : m.payment = p).payment = p
      BY <1>1
    <2>3. QED
      BY <1>1, <2>1, <2>2
  <1>2. ASSUME NEW p \in PaymentIds, ~\E c \in cards : c.payment = p PROVE card'[p] = card[p]
    BY <1>2 DEF Upsert
  <1>3. QED
    BY <1>1, <1>2

\* SummaryKept: a pending summary stays well formed.
LEMMA SummaryKept ==
  ASSUME SummaryOk, UNCHANGED <<jobs, summary, stream>>, today \in Nat, today' \in Nat, today <= today'
  PROVE  SummaryOk'
  <1>1. MonthOf(today) \in Nat /\ MonthOf(today') \in Nat /\ MonthOf(today) <= MonthOf(today')
    BY MonthOfType, MonthOfRises
  <1>2. MonthOf(today)' = MonthOf(today')
    BY DEF MonthOf
  <1>3. Pending' <=> Pending
    BY DEF Pending
  <1>4. summary # None => summary.period <= MonthOf(today)'
    BY <1>1, <1>2 DEF SummaryOk
  <1>5. QED
    BY <1>3, <1>4 DEF SummaryOk

\* RetryQuiet: a step that neither posts, reserves nor prepares, in which a pod goes on
\* with its job, puts it down, takes the pending one or reads the present date.
LEMMA RetryQuiet ==
  ASSUME SummaryOk, ReservedOk, PodOk, PostedOk, Grows,
         UNCHANGED <<config, stream, summary, card, posted, jobs>>,
         today \in Nat, today' \in Nat, today <= today',
         \A w \in config.workers :
            \/ worker'[w] = worker[w]
            \/ worker'[w].pc # "prepare" /\ worker'[w].pc \notin Holding
            \/ worker'[w].pc = "prepare" /\ worker'[w].stream = stream /\ worker'[w].date = today
            \/ /\ worker'[w].pc \in Holding \ {"cards"} /\ worker[w].pc \in Holding
               /\ worker'[w].job = worker[w].job
            \/ worker'[w].pc = "root" /\ Pending /\ worker'[w].job = summary.job
  PROVE  SummaryOk' /\ ReservedOk' /\ PodOk' /\ PostedOk'
  <1>0. Pending' <=> Pending
    BY DEF Pending
  <1>1. SummaryOk'
    BY SummaryKept
  <1>2. ReservedOk'
    BY CardKept DEF ReservedOk
  <1>3. PostedOk'
    BY <1>0 DEF PostedOk, IsPosted
  <1>4. ASSUME NEW w \in config.workers
        PROVE  /\ worker'[w].pc = "prepare" =>
                    /\ worker'[w].stream = stream /\ worker'[w].date \in Nat /\ worker'[w].date <= today'
                    /\ summary # None => summary.period <= MonthOf(worker'[w].date)
               /\ worker'[w].pc \in Holding => Pending /\ worker'[w].job = summary.job
               /\ worker'[w].pc = "cards" => \A c \in summary.job.cards : card[c.payment] = c
    <2>1. CASE worker'[w] = worker[w]
      BY <2>1 DEF PodOk
    <2>2. CASE worker'[w].pc # "prepare" /\ worker'[w].pc \notin Holding
      BY <2>2 DEF Holding
    <2>3. CASE worker'[w].pc = "prepare" /\ worker'[w].stream = stream /\ worker'[w].date = today
      <3>1. summary # None => summary.period <= MonthOf(worker'[w].date)
        BY <2>3 DEF SummaryOk
      <3>2. QED
        BY <2>3, <3>1 DEF Holding
    <2>4. CASE /\ worker'[w].pc \in Holding \ {"cards"} /\ worker[w].pc \in Holding
               /\ worker'[w].job = worker[w].job
      BY <2>4 DEF PodOk, Holding
    <2>5. CASE worker'[w].pc = "root" /\ Pending /\ worker'[w].job = summary.job
      BY <2>5
    <2>6. QED
      BY <2>1, <2>2, <2>3, <2>4, <2>5
  <1>5. PodOk'
    <2>1. \A w \in config.workers : MonthOf(worker[w].date)' = MonthOf(worker'[w].date)
      BY DEF MonthOf
    <2>2. QED
      BY <1>0, <1>4, <2>1 DEF PodOk
  <1>6. QED
    BY <1>1, <1>2, <1>3, <1>5

\* RetryPosts: the pod posts messages of its job that are new to the month.
LEMMA RetryPosts ==
  ASSUME SummaryOk, ReservedOk, PodOk, PostedOk, NEW w, config.workers = {w},
         UNCHANGED <<config, today, stream, summary, card, jobs, payment>>, today \in Nat,
         NEW some, posted' = posted \cup some,
         \A m \in some : IsPosted(m), \A m, n \in posted \cup some : Distinct(m, n),
         \/ worker'[w].pc # "prepare" /\ worker'[w].pc \notin Holding
         \/ /\ worker'[w].pc \in Holding \ {"cards"} /\ worker[w].pc \in Holding
            /\ worker'[w].job = worker[w].job
  PROVE  SummaryOk' /\ ReservedOk' /\ PodOk' /\ PostedOk'
  <1>0. Pending' <=> Pending
    BY DEF Pending
  <1>1. SummaryOk'
    BY SummaryKept
  <1>2. ReservedOk'
    BY StaysGrows, CardKept DEF ReservedOk
  <1>3. \A m : IsPosted(m)' <=> IsPosted(m)
    BY <1>0 DEF IsPosted
  <1>4. PostedOk'
    BY <1>3 DEF PostedOk
  <1>5. PodOk'
    BY <1>0 DEF PodOk, Holding
  <1>6. QED
    BY <1>1, <1>2, <1>4, <1>5

\* RetryUpsert: storing the cards of the pending job leaves no posted card ahead.
LEMMA RetryUpsert ==
  ASSUME SummaryOk, ReservedOk, PostedOk, CardsOk, Pending, Upsert(summary.job.cards),
         UNCHANGED <<payment, stream, posted>>, summary' # None, summary'.period = summary.period
  PROVE  /\ ReservedOk' /\ \A c \in summary.job.cards : card'[c.payment] = c
         /\ \A m \in posted : m.kind = "card" => card'[m.payment] # None /\ Ahead(card'[m.payment], m)
  <1> DEFINE cards == summary.job.cards
  <1>1. \A c \in cards : /\ IsCard(c) /\ CardOk(c) /\ c.payment \in PaymentIds
                         /\ c.period = summary.period /\ c.stream = stream
    BY DEF SummaryOk, CardsOk, CardOk
  <1>2. /\ \A c \in cards : card'[c.payment] = c
        /\ \A p \in PaymentIds : card'[p] = card[p] \/ \E c \in cards : c.payment = p /\ card'[p] = c
    BY <1>1, UpsertFacts DEF SummaryOk
  <1>3. summary # None /\ summary.period \in Nat
    BY DEF Pending, SummaryOk
  <1>4. ReservedOk'
    <2>1. ASSUME NEW p \in PaymentIds, card'[p] # None
          PROVE  /\ CardOk(card[p])' /\ card'[p].payment = p /\ card'[p].stream = stream'
                 /\ card'[p].period \in Nat /\ card'[p].period <= summary'.period
      <3>1. CASE card'[p] = card[p]
        <4>1. /\ CardOk(card[p]) /\ card[p].payment = p /\ card[p].stream = stream
              /\ card[p].period \in Nat /\ card[p].period <= summary.period
          BY <2>1, <3>1 DEF ReservedOk
        <4>2. QED
          BY <3>1, <4>1 DEF CardOk
      <3>2. ASSUME NEW c \in cards, c.payment = p, card'[p] = c
            PROVE  /\ CardOk(card[p])' /\ card'[p].payment = p /\ card'[p].stream = stream'
                   /\ card'[p].period \in Nat /\ card'[p].period <= summary'.period
        <4>1. /\ CardOk(c) /\ c.payment = p /\ c.stream = stream
              /\ c.period \in Nat /\ c.period <= summary.period
          BY <1>1, <1>3, <3>2
        <4>2. QED
          BY <3>2, <4>1 DEF CardOk
      <3>3. QED
        BY <1>2, <3>1, <3>2
    <2>2. QED
      BY <2>1 DEF ReservedOk
  <1>5. ASSUME NEW m \in posted, m.kind = "card"
        PROVE  card'[m.payment] # None /\ Ahead(card'[m.payment], m)
    <2>1. m.payment \in PaymentIds /\ IsPosted(m)
      BY <1>5 DEF CardsOk, CardOk, PostedOk
    <2>2. CASE card'[m.payment] = card[m.payment]
      BY <1>5, <2>1, <2>2 DEF IsPosted
    <2>3. CASE \E c \in cards : c.payment = m.payment /\ card'[m.payment] = c
      BY <1>1, <1>5, <2>1, <2>3, CardIsNotNone DEF IsPosted
    <2>4. QED
      BY <1>2, <2>1, <2>2, <2>3
  <1>6. QED
    BY <1>2, <1>4, <1>5


\* RetryPrepare: a new summary has a card only for what is not published, and a root to
\* post only if the month has none.
LEMMA RetryPrepare ==
  ASSUME PInv, SummaryOk, ReservedOk, PodOk, PostedOk, NEW w \in Workers, config.workers = {w},
         Prepare(w)
  PROVE  SummaryOk' /\ ReservedOk' /\ PodOk' /\ PostedOk'
  <1>0. WorkersOk /\ CardsOk /\ RowsOk /\ today \in Nat
    BY DEF PInv, EnrollmentsOk
  <1>1. /\ UNCHANGED <<config, today, stream, payment, card, posted>> /\ worker[w].pc = "prepare"
    BY DEF Prepare, clientVars, At
  <1>2. /\ worker[w].stream = stream /\ worker[w].date \in Nat /\ worker[w].date <= today
        /\ summary # None => summary.period <= MonthOf(worker[w].date)
    BY <1>1 DEF PodOk
  <1>3. CASE summary' = summary /\ jobs' = jobs /\ Go(w, Idle)
    <2>1. worker'[w].pc = "idle"
      BY <1>0, <1>3, GoneIdle
    <2>2. QED
      BY <1>0, <1>1, <1>3, <2>1, StaysGrows, RetryQuiet DEF Holding
  <1>4. CASE Pending /\ summary' = summary /\ jobs' = jobs /\ Go(w, [Idle EXCEPT !.pc = "root", !.job = summary.job])
    <2> DEFINE new == [Idle EXCEPT !.pc = "root", !.job = summary.job]
    <2>1. new.pc = "root" /\ new.job = summary.job
      BY IdleFacts
    <2>2. Go(w, new)
      BY <1>4
    <2> HIDE DEF new
    <2>3. worker'[w] = new
      BY <1>0, <2>2, WhereGone
    <2>4. QED
      BY <1>0, <1>1, <1>4, <2>1, <2>3, StaysGrows, RetryQuiet
  <1>5. CASE ~Pending /\ summary' # summary
    <2> DEFINE ch     == worker[w].stream
               period == MonthOf(worker[w].date)
               rows   == Overdue(worker[w].date)
               new    == {p \in rows : ~Published(p, ch, period)}
               same   == summary # None /\ summary.stream = ch /\ summary.period = period
               cards  == {CardOf(p, ch, period, jobs + 1) : p \in new}
               job    == [id |-> jobs + 1, stream |-> ch, period |-> period, digest |-> Digest(rows),
                          root |-> IF same THEN summary.root ELSE 0, cards |-> cards]
    <2>1. /\ summary' = [stream |-> ch, period |-> period, root |-> job.root, job |-> job,
                         digest |-> IF summary = None THEN {} ELSE summary.digest]
          /\ jobs' = jobs + 1
          /\ Go(w, [Idle EXCEPT !.pc = "root", !.job = job])
      BY <1>5 DEF Prepare
    <2>2. /\ job.id = jobs + 1 /\ job.period = period /\ job.cards = cards
          /\ job.root = IF same THEN summary.root ELSE 0
          /\ job # None
      BY DEF None
    <2> HIDE DEF job
    <2>3. /\ summary'.stream = stream /\ summary'.period = period /\ summary'.root = job.root
          /\ summary'.job = job /\ summary' # None /\ Pending'
      BY <1>2, <2>1, <2>2 DEF None, Pending
    <2>4. \A p \in new : LET c == CardOf(p, ch, period, jobs + 1) IN
            /\ IsCard(c) /\ c.payment = p /\ c.version = payment[p].version /\ c.stream = stream
            /\ c.period = period /\ c.job = jobs + 1
      BY <1>2 DEF CardOf, IsCard
    <2>5. period \in Nat /\ MonthOf(today) \in Nat /\ period <= MonthOf(today) /\ MonthOf(today)' = MonthOf(today)
      <3>1. MonthOf(today)' = MonthOf(today)
        BY <1>1 DEF MonthOf
      <3>2. QED
        BY <1>0, <1>2, <3>1, MonthOfType, MonthOfRises
    <2>6. SummaryOk'
      <3>1. jobs \in Nat /\ jobs + 1 # 0 /\ jobs + 1 \in Nat
        BY DEF SummaryOk
      <3>2. \A c \in cards : IsCard(c) /\ c.job = jobs + 1 /\ c.period = period /\ c.stream = stream
        BY <2>4
      <3>3. \A c, d \in cards : c.payment = d.payment => c = d
        BY <2>4
      <3> HIDE DEF cards, period
      <3>4. QED
        BY <1>1, <2>1, <2>2, <2>3, <2>5, <3>1, <3>2, <3>3 DEF SummaryOk
    <2>7. ReservedOk'
      <3>1. summary # None => summary.period \in Nat /\ summary.period <= period
        BY <1>2 DEF SummaryOk
      <3> HIDE DEF period
      <3>2. ASSUME NEW p \in PaymentIds, card[p] # None
            PROVE  /\ CardOk(card[p])' /\ card[p].payment = p /\ card[p].stream = stream
                   /\ card[p].period \in Nat /\ card[p].period <= period
        <4>1. /\ CardOk(card[p]) /\ card[p].payment = p /\ card[p].stream = stream
              /\ summary # None /\ card[p].period \in Nat /\ card[p].period <= summary.period
          BY <3>2 DEF ReservedOk
        <4>2. CardOk(card[p])'
          BY <1>1, <4>1 DEF CardOk
        <4>3. QED
          BY <2>5, <3>1, <4>1, <4>2
      <3>3. QED
        BY <1>1, <2>3, <3>2 DEF ReservedOk
    <2>8. PodOk'
      <3> DEFINE x == [Idle EXCEPT !.pc = "root", !.job = job]
      <3>1. x.pc = "root" /\ x.job = job
        BY IdleFacts
      <3>2. Go(w, x)
        BY <2>1
      <3> HIDE DEF x
      <3>3. worker'[w] = x
        BY <1>0, <3>2, WhereGone
      <3>4. QED
        BY <1>1, <2>3, <3>1, <3>3 DEF PodOk
    <2>9. ASSUME NEW m \in posted PROVE IsPosted(m)'
      <3>1. IsPosted(m) /\ summary # None /\ m.period \in Nat /\ summary.period \in Nat
            /\ m.period <= summary.period /\ summary.period <= period /\ m.period <= period
        <4>1. /\ IsPosted(m) /\ summary # None /\ m.period \in Nat /\ summary.period \in Nat
              /\ m.period <= summary.period /\ summary.period <= period
          BY <1>2 DEF PostedOk, IsPosted, SummaryOk
        <4>2. QED
          BY <2>5, <4>1
      <3>2. m.period = period => job.root # 0
        <4>1. m.period = period => summary.period = period
          BY <2>5, <3>1
        <4>2. summary.stream = ch /\ summary.root # 0
          BY <1>2, <1>5, <3>1 DEF SummaryOk
        <4>3. QED
          BY <2>2, <3>1, <4>1, <4>2
      <3>3. ASSUME m.kind = "card", NEW c \in cards, c.payment = m.payment PROVE Ahead(c, m)
        <4>1. PICK p \in new : c = CardOf(p, ch, period, jobs + 1)
          BY <3>3
        <4>2. c.payment = p /\ c.version = payment[p].version /\ c.period = period /\ p = m.payment
          BY <2>4, <3>3, <4>1
        <4>3. CardOk(m)
          BY <1>0, <3>3 DEF CardsOk
        <4>4. /\ p \in PaymentIds /\ m.version \in Nat /\ payment[p].version \in Nat
              /\ m.version <= payment[p].version
          BY <4>2, <4>3 DEF CardOk, IsRow
        <4> DEFINE k == card[p]
        <4>5. k # None /\ Ahead(k, m)
          BY <3>1, <3>3, <4>2 DEF IsPosted
        <4>6. CardOk(k) /\ k.payment = p /\ k.stream = ch /\ k.period \in Nat /\ k.period <= summary.period
          BY <1>2, <4>4, <4>5 DEF ReservedOk
        <4>7. k.version \in Nat /\ k.version <= payment[p].version
          BY <4>6 DEF CardOk
        <4>8. ~Published(p, ch, period)
          BY <4>1
        <4>9. ~(k.period = period /\ k.version = payment[p].version)
          BY <4>5, <4>6, <4>8 DEF Published
        <4> HIDE DEF k, period
        <4>10. m.version <= k.version /\ m.period <= k.period
          BY <4>5 DEF Ahead
        <4>11. ~(m.version = payment[p].version /\ m.period = period)
          BY <2>5, <3>1, <4>4, <4>6, <4>7, <4>9, <4>10
        <4>12. QED
          BY <3>1, <4>2, <4>4, <4>11 DEF Ahead
      <3>4. m.kind = "card" => card[m.payment] # None /\ Ahead(card[m.payment], m)
        BY <3>1 DEF IsPosted
      <3> HIDE DEF period, cards
      <3>5. QED
        BY <1>1, <2>2, <2>3, <3>1, <3>2, <3>3, <3>4 DEF IsPosted
    <2>10. QED
      BY <1>1, <2>6, <2>7, <2>8, <2>9 DEF PostedOk
  <1>6. \/ summary' = summary /\ jobs' = jobs /\ Go(w, Idle)
        \/ Pending /\ summary' = summary /\ jobs' = jobs /\ Go(w, [Idle EXCEPT !.pc = "root", !.job = summary.job])
        \/ ~Pending /\ summary' # summary
    <2>1. CASE Pending
      BY <2>1 DEF Prepare
    <2>2. CASE ~Pending /\ summary' = summary
      <3>1. CASE jobs' = jobs
        <4>1. jobs \in Nat
          BY DEF SummaryOk
        <4>2. jobs' # jobs + 1
          BY <3>1, <4>1
        <4>3. QED
          BY <2>2, <3>1, <4>2 DEF Prepare
      <3>2. CASE jobs' # jobs
        <4> DEFINE j == [id |-> jobs + 1, stream |-> worker[w].stream, period |-> MonthOf(worker[w].date),
                         digest |-> Digest(Overdue(worker[w].date)),
                         root |-> IF summary # None /\ summary.stream = worker[w].stream
                                     /\ summary.period = MonthOf(worker[w].date) THEN summary.root ELSE 0,
                         cards |-> {CardOf(p, worker[w].stream, MonthOf(worker[w].date), jobs + 1) :
                                      p \in {q \in Overdue(worker[w].date) :
                                               ~Published(q, worker[w].stream, MonthOf(worker[w].date))}}]
        <4>1. summary' = [stream |-> worker[w].stream, period |-> MonthOf(worker[w].date), root |-> j.root,
                          job |-> j, digest |-> IF summary = None THEN {} ELSE summary.digest]
          BY <2>2, <3>2 DEF Prepare
        <4>2. j # None
          BY DEF None
        <4> HIDE DEF j
        <4>3. Pending'
          BY <4>1, <4>2 DEF Pending, None
        <4>4. QED
          BY <2>2, <4>3 DEF Pending
      <3>3. QED
        BY <3>1, <3>2
    <2>3. QED
      BY <2>1, <2>2
  <1>7. QED
    BY <1>3, <1>4, <1>5, <1>6


\* JobFacts: the pod that holds a job holds the pending one.
LEMMA JobFacts ==
  ASSUME SummaryOk, PodOk, CardsOk, NEW w, config.workers = {w}, worker[w].pc \in Holding
  PROVE  LET j == worker[w].job IN
         /\ Pending /\ j = summary.job /\ summary # None /\ summary.period \in Nat
         /\ StillPending(j) /\ j.period = summary.period /\ j.root = summary.root /\ j.id # 0
         /\ \A c \in j.cards : /\ IsCard(c) /\ c.job = j.id /\ c.period = summary.period
                               /\ CardOk(c) /\ c.version \in Nat /\ c.payment \in PaymentIds
         /\ \A c, d \in j.cards : c.payment = d.payment => c = d
  <1>1. Pending /\ worker[w].job = summary.job
    BY DEF PodOk
  <1>2. summary # None /\ summary.period \in Nat
    BY <1>1 DEF Pending, SummaryOk
  <1>3. \A c \in summary.job.cards : CardOk(c) /\ c.version \in Nat /\ c.payment \in PaymentIds
    BY <1>1 DEF CardsOk, CardOk
  <1>4. QED
    BY <1>1, <1>2, <1>3 DEF SummaryOk, StillPending

\* RetryRoot: the root of a month is posted by one job only.
LEMMA RetryRoot ==
  ASSUME PInv, SummaryOk, ReservedOk, PodOk, PostedOk, NEW w \in Workers, config.workers = {w},
         PostRoot(w) \/ PostReply(w)
  PROVE  SummaryOk' /\ ReservedOk' /\ PodOk' /\ PostedOk'
  <1>0. WorkersOk /\ CardsOk /\ today \in Nat /\ IsWorker(worker[w])
    BY DEF PInv, EnrollmentsOk, WorkersOk
  <1>1. /\ UNCHANGED <<config, today, stream, summary, card, jobs, payment>>
        /\ worker[w].pc \in {"root", "reply"}
    BY DEF PostRoot, PostReply, At, clientVars
  <1> DEFINE j == worker[w].job
  <1>2. /\ Pending /\ j = summary.job /\ summary # None /\ summary.period \in Nat
        /\ j.period = summary.period /\ j.root = summary.root /\ j.id # 0
    BY <1>0, <1>1, JobFacts DEF Holding
  <1>3. \/ worker'[w].pc = "idle"
        \/ worker'[w].pc \in {"reply", "reserve", "complete"} /\ worker'[w].job = j
    <2>1. Go(w, Idle) \/ \E pc \in {"reply", "reserve", "complete"} : Go(w, [worker[w] EXCEPT !.pc = pc])
      BY DEF PostRoot, PostReply
    <2>2. CASE Go(w, Idle)
      BY <1>0, <2>2, GoneIdle
    <2>3. ASSUME NEW pc \in {"reply", "reserve", "complete"}, Go(w, [worker[w] EXCEPT !.pc = pc])
          PROVE  worker'[w].pc \in {"reply", "reserve", "complete"} /\ worker'[w].job = j
      <3> DEFINE new == [worker[w] EXCEPT !.pc = pc]
      <3>1. new.pc = pc /\ new.job = j
        BY <1>0, MoveFacts
      <3>2. Go(w, new)
        BY <2>3
      <3> HIDE DEF new, j
      <3>3. worker'[w] = new
        BY <1>0, <3>2, WhereGone
      <3>4. QED
        BY <3>1, <3>3
    <2>4. QED
      BY <2>1, <2>2, <2>3
  <1>4. PICK some : /\ posted' = posted \cup some
                    /\ \/ some = {}
                       \/ \E k \in {"root", "reply"} :
                            /\ some = {[kind |-> k, stream |-> j.stream, period |-> j.period, job |-> j.id]}
                            /\ k = "root" => j.root = 0
    <2>1. CASE posted' = posted
      BY <2>1
    <2>2. CASE PostRoot(w) /\ Post(w, "root") /\ j.root = 0
      BY <2>2 DEF Post
    <2>3. CASE PostReply(w)
      BY <2>3 DEF PostReply, Post
    <2>4. QED
      BY <2>1, <2>2, <2>3 DEF PostRoot
  <1>5. \A m \in some : /\ m.kind \in {"root", "reply"} /\ m.period = summary.period /\ m.job = summary.job.id
                        /\ m.kind = "root" => summary.root = 0
    BY <1>2, <1>4
  <1> HIDE DEF j
  <1>6. \A m \in some : IsPosted(m)
    BY <1>2, <1>5 DEF IsPosted
  <1>7. \A m, n \in posted \cup some : Distinct(m, n)
    <2>1. ASSUME NEW m \in some, NEW n \in posted, m.kind = n.kind, m.period = n.period, m.job # n.job
          PROVE  m.kind = "reply"
      <3>1. IsPosted(n)
        BY DEF PostedOk
      <3>2. QED
        BY <1>5, <2>1, <3>1 DEF IsPosted
    <2>2. \A m, n \in some : m.job = n.job
      BY <1>5
    <2>3. \A m, n \in posted : Distinct(m, n)
      BY DEF PostedOk
    <2>4. QED
      BY <2>1, <2>2, <2>3 DEF Distinct
  <1>8. QED
    BY <1>0, <1>1, <1>3, <1>4, <1>6, <1>7, RetryPosts DEF Holding, j

\* RetryCards: the cards of a job are reserved when they are posted.
LEMMA RetryCards ==
  ASSUME PInv, SummaryOk, ReservedOk, PodOk, PostedOk, NEW w \in Workers, config.workers = {w},
         PostCards(w)
  PROVE  SummaryOk' /\ ReservedOk' /\ PodOk' /\ PostedOk'
  <1>0. WorkersOk /\ CardsOk /\ today \in Nat /\ IsWorker(worker[w])
    BY DEF PInv, EnrollmentsOk, WorkersOk
  <1>1. UNCHANGED <<config, today, stream, summary, card, jobs, payment>> /\ worker[w].pc = "cards"
    BY DEF PostCards, At, clientVars
  <1> DEFINE j == worker[w].job
  <1>2. /\ Pending /\ j = summary.job /\ summary # None /\ summary.period \in Nat
        /\ \A c \in j.cards : /\ IsCard(c) /\ c.job = j.id /\ c.period = summary.period
                              /\ CardOk(c) /\ c.version \in Nat /\ c.payment \in PaymentIds
        /\ \A c, d \in j.cards : c.payment = d.payment => c = d
    BY <1>0, <1>1, JobFacts DEF Holding
  <1>3. \A c \in j.cards : card[c.payment] = c
    BY <1>1, <1>2 DEF PodOk
  <1>4. worker'[w].pc = "idle" \/ (worker'[w].pc = "complete" /\ worker'[w].job = j)
    <2>1. Go(w, Idle) \/ Go(w, [worker[w] EXCEPT !.pc = "complete"])
      BY DEF PostCards
    <2>2. CASE Go(w, Idle)
      BY <1>0, <2>2, GoneIdle
    <2>3. CASE Go(w, [worker[w] EXCEPT !.pc = "complete"])
      <3> DEFINE new == [worker[w] EXCEPT !.pc = "complete"]
      <3>1. new.pc = "complete" /\ new.job = j
        BY <1>0, MoveFacts
      <3>2. Go(w, new)
        BY <2>3
      <3> HIDE DEF new, j
      <3>3. worker'[w] = new
        BY <1>0, <3>2, WhereGone
      <3>4. QED
        BY <3>1, <3>3
    <2>4. QED
      BY <2>1, <2>2, <2>3
  <1>5. PICK some \in SUBSET j.cards : posted' = posted \cup some
    BY DEF PostCards
  <1>6. ASSUME NEW m \in some PROVE IsPosted(m)
    <2>1. /\ IsCard(m) /\ m.kind = "card" /\ m # None /\ m.period = summary.period /\ m.version \in Nat
          /\ card[m.payment] = m
      BY <1>2, <1>3, CardIsNotNone
    <2>2. Ahead(m, m)
      BY <1>2, <2>1, AheadOfItself
    <2>3. \A c \in summary.job.cards : c.payment = m.payment => c = m
      BY <1>2
    <2>4. QED
      BY <1>2, <2>1, <2>2, <2>3 DEF IsPosted
  <1>7. \A m, n \in posted \cup some : Distinct(m, n)
    <2>1. ASSUME NEW m \in some, NEW n \in posted, m.kind = n.kind, m.period = n.period, m.job # n.job
          PROVE  m.kind = "card" /\ <<m.payment, m.version>> # <<n.payment, n.version>>
      <3>1. m.kind = "card" /\ IsPosted(n) /\ m \in summary.job.cards
        BY <1>2, CardIsNotNone DEF PostedOk
      <3>2. m.payment = n.payment => Ahead(m, n)
        BY <1>2, <2>1, <3>1 DEF IsPosted
      <3>3. ~(m.payment = n.payment /\ m.version = n.version)
        BY <2>1, <3>2 DEF Ahead
      <3>4. QED
        BY <3>1, <3>3
    <2>2. \A m, n \in some : m.job = n.job
      BY <1>2
    <2>3. \A m, n \in posted : Distinct(m, n)
      BY DEF PostedOk
    <2>4. ASSUME NEW m \in some, NEW n \in posted PROVE Distinct(m, n) /\ Distinct(n, m)
      BY <2>1 DEF Distinct
    <2>5. \A m, n \in some : Distinct(m, n)
      BY <2>2 DEF Distinct
    <2>6. QED
      BY <2>3, <2>4, <2>5
  <1> HIDE DEF j
  <1>8. QED
    BY <1>0, <1>1, <1>4, <1>5, <1>6, <1>7, RetryPosts DEF Holding, j

\* RetryReserve: the cards of the pending job are reserved.
LEMMA RetryReserve ==
  ASSUME PInv, SummaryOk, ReservedOk, PodOk, PostedOk, NEW w \in Workers, config.workers = {w},
         Reserve(w)
  PROVE  SummaryOk' /\ ReservedOk' /\ PodOk' /\ PostedOk'
  <1>0. WorkersOk /\ CardsOk /\ today \in Nat /\ IsWorker(worker[w])
    BY DEF PInv, EnrollmentsOk, WorkersOk
  <1>1. UNCHANGED <<config, today, stream, summary, posted, jobs, payment>> /\ worker[w].pc = "reserve"
    BY DEF Reserve, At, clientVars
  <1>2. /\ Pending /\ worker[w].job = summary.job /\ summary # None
        /\ StillPending(worker[w].job)
    BY <1>0, <1>1, JobFacts DEF Holding
  <1>3. Upsert(summary.job.cards) /\ Go(w, [worker[w] EXCEPT !.pc = "cards"])
    BY <1>2 DEF Reserve
  <1>4. worker'[w].pc = "cards" /\ worker'[w].job = summary.job
    <2> DEFINE new == [worker[w] EXCEPT !.pc = "cards"]
    <2>1. new.pc = "cards" /\ new.job = summary.job
      BY <1>0, <1>2, MoveFacts
    <2>2. Go(w, new)
      BY <1>3
    <2> HIDE DEF new
    <2>3. worker'[w] = new
      BY <1>0, <2>2, WhereGone
    <2>4. QED
      BY <2>1, <2>3
  <1>5. /\ ReservedOk' /\ \A c \in summary.job.cards : card'[c.payment] = c
        /\ \A m \in posted : m.kind = "card" => card'[m.payment] # None /\ Ahead(card'[m.payment], m)
    BY <1>0, <1>1, <1>2, <1>3, RetryUpsert
  <1>6. Pending' <=> Pending
    BY <1>1 DEF Pending
  <1>7. SummaryOk'
    BY <1>0, <1>1, SummaryKept
  <1>8. PodOk'
    BY <1>1, <1>2, <1>4, <1>5, <1>6 DEF PodOk
  <1>9. PostedOk'
    BY <1>1, <1>5, <1>6 DEF PostedOk, IsPosted
  <1>10. QED
    BY <1>5, <1>7, <1>8, <1>9

\* RetryComplete: a summary that is done has its root, and is pending no more.
LEMMA RetryComplete ==
  ASSUME PInv, SummaryOk, ReservedOk, PodOk, PostedOk, NEW w \in Workers, config.workers = {w},
         Complete(w)
  PROVE  SummaryOk' /\ ReservedOk' /\ PodOk' /\ PostedOk'
  <1>0. WorkersOk /\ CardsOk /\ today \in Nat
    BY DEF PInv, EnrollmentsOk
  <1>1. /\ UNCHANGED <<config, today, stream, posted, jobs, payment>>
        /\ worker[w].pc = "complete" /\ Go(w, Idle)
    BY DEF Complete, At, clientVars
  <1>2. /\ Pending /\ worker[w].job = summary.job /\ summary # None /\ worker[w].job.id # 0
        /\ StillPending(worker[w].job)
    BY <1>0, <1>1, JobFacts DEF Holding
  <1>3. Upsert(summary.job.cards)
    BY <1>2 DEF Complete
  <1>4. /\ summary' # None /\ summary'.stream = summary.stream /\ summary'.period = summary.period
        /\ summary'.root # 0 /\ summary'.job = None
    <2>1. IsSummary(summary)
      BY <1>0, <1>2 DEF CardsOk
    <2>2. PICK root, digest : /\ summary' = [summary EXCEPT !.root = root, !.digest = digest, !.job = None]
                              /\ root # 0
      BY <1>2 DEF Complete
    <2>3. QED
      BY <2>1, <2>2 DEF IsSummary, None
  <1>5. /\ ReservedOk'
        /\ \A m \in posted : m.kind = "card" => card'[m.payment] # None /\ Ahead(card'[m.payment], m)
    BY <1>0, <1>1, <1>2, <1>3, <1>4, RetryUpsert
  <1>6. ~Pending' /\ MonthOf(today)' = MonthOf(today)
    BY <1>1, <1>4 DEF Pending, MonthOf
  <1>7. SummaryOk'
    BY <1>1, <1>2, <1>4, <1>6 DEF SummaryOk
  <1>8. PodOk'
    <2>1. worker'[w].pc = "idle"
      BY <1>0, <1>1, GoneIdle
    <2>2. QED
      BY <1>1, <2>1 DEF PodOk, Holding
  <1>9. PostedOk'
    BY <1>1, <1>4, <1>5, <1>6 DEF PostedOk, IsPosted
  <1>10. QED
    BY <1>5, <1>7, <1>8, <1>9


\* FilledGrow: a refresh leaves the rows that exist as they are.
LEMMA FilledGrow ==
  ASSUME PInv, NEW w \in Workers, Materialize(w)
  PROVE  Grows
  <1>1. \A p \in PaymentIds : payment[p] # None => payment'[p] = payment[p]
    BY DEF Materialize, Materialized, Exists
  <1>2. QED
    BY <1>1, RowIsNotNone DEF Grows

\* RetryCycle: the steps of the one pod.
LEMMA RetryCycle ==
  ASSUME PInv, SummaryOk, ReservedOk, PodOk, PostedOk, NEW w \in Workers, config.workers = {w},
         Cycle(w) \/ Fail(w)
  PROVE  SummaryOk' /\ ReservedOk' /\ PodOk' /\ PostedOk'
  <1>0. WorkersOk /\ today \in Nat
    BY DEF PInv, EnrollmentsOk
  <1>1. ASSUME UNCHANGED <<config, today, stream, summary, card, posted, jobs>>, Grows,
               \/ worker'[w].pc # "prepare" /\ worker'[w].pc \notin Holding
               \/ worker'[w].pc = "prepare" /\ worker'[w].stream = stream /\ worker'[w].date = today
        PROVE  SummaryOk' /\ ReservedOk' /\ PodOk' /\ PostedOk'
    BY <1>0, <1>1, RetryQuiet
  <1>2. CASE LoadHorizon(w)
    <2>1. UNCHANGED <<config, today, stream, summary, card, posted, jobs>> /\ Grows
      BY <1>2, StaysGrows DEF LoadHorizon, clientVars, buzzVars
    <2>2. worker'[w].pc = "horizon"
      BY <1>0, <1>2 DEF LoadHorizon, Go, WorkersOk, Idle
    <2>3. QED
      BY <1>1, <2>1, <2>2 DEF Holding
  <1>3. CASE ReadEnrollments(w)
    <2>1. UNCHANGED <<config, today, stream, summary, card, posted, jobs>> /\ Grows
      BY <1>3, StaysGrows DEF ReadEnrollments, clientVars, buzzVars
    <2>2. worker'[w].pc = "insert"
      BY <1>0, <1>3 DEF ReadEnrollments, Go, WorkersOk, IsWorker
    <2>3. QED
      BY <1>1, <2>1, <2>2 DEF Holding
  <1>4. CASE Materialize(w)
    <2>1. UNCHANGED <<config, today, stream, summary, card, posted, jobs>> /\ Grows
      BY <1>4, FilledGrow DEF Materialize, clientVars, buzzVars
    <2>2. worker'[w].pc = "refreshed"
      BY <1>0, <1>4 DEF Materialize, Go, WorkersOk, Idle
    <2>3. QED
      BY <1>1, <2>1, <2>2 DEF Holding
  <1>5. CASE LoadTargets(w)
    <2>1. UNCHANGED <<config, today, stream, summary, card, posted, jobs>> /\ Grows
      BY <1>5, StaysGrows DEF LoadTargets, clientVars, buzzVars
    <2>2. CASE Go(w, Idle)
      <3>1. worker'[w].pc = "idle"
        BY <1>0, <2>2, GoneIdle
      <3>2. QED
        BY <1>1, <2>1, <3>1 DEF Holding
    <2>3. CASE Go(w, [Idle EXCEPT !.pc = "prepare", !.stream = stream, !.date = today])
      <3>1. worker'[w].pc = "prepare" /\ worker'[w].stream = stream /\ worker'[w].date = today
        BY <1>0, <2>3 DEF Go, WorkersOk, Idle
      <3>2. QED
        BY <1>1, <2>1, <3>1
    <2>4. QED
      BY <1>5, <2>2, <2>3 DEF LoadTargets
  <1>6. CASE Fail(w)
    <2>1. UNCHANGED <<config, today, stream, summary, card, posted, jobs>> /\ Grows
      BY <1>6, StaysGrows DEF Fail, clientVars, buzzVars
    <2>2. worker'[w].pc \in {"idle", "refreshed"}
      BY <1>0, <1>6 DEF Fail, Go, WorkersOk, Idle
    <2>3. QED
      BY <1>1, <2>1, <2>2 DEF Holding
  <1>7. QED
    BY <1>2, <1>3, <1>4, <1>5, <1>6, RetryPrepare, RetryRoot, RetryReserve, RetryCards, RetryComplete
       DEF Cycle

\* CountsStep: faults and changes are counted, and settings that change are never unchanged again.
LEMMA CountsStep ==
  ASSUME counts \in [faults : Nat, settings : Nat, lifecycle : Nat], [Next]_vars
  PROVE  /\ counts' \in [faults : Nat, settings : Nat, lifecycle : Nat]
         /\ counts'.settings = 0 => counts.settings = 0
         /\ (\E ch : SetStream(ch) \/ Archive(ch)) => counts'.settings # 0
  <1>1. \/ counts' = counts
        \/ counts' = [counts EXCEPT !.faults = @ + 1]
        \/ counts' = [counts EXCEPT !.settings = @ + 1]
        \/ counts' = [counts EXCEPT !.lifecycle = @ + 1]
    BY DEF Next, Cycle, Fail, Staff, Tick, LoadHorizon, ReadEnrollments, Materialize, LoadTargets,
       Prepare, PostRoot, PostReply, Reserve, PostCards, Complete, Ask, React, Begin, Commit, Rollback,
       Pause, Resume, End, ChangeTariff, Lifecycle, SetStream, Archive, vars
  <1>2. (\E ch : SetStream(ch) \/ Archive(ch)) => counts' = [counts EXCEPT !.settings = @ + 1]
    BY DEF SetStream, Archive
  <1>3. QED
    BY <1>1, <1>2

\* RetryStep: every step keeps what one pod posts.
LEMMA RetryStep == PInv /\ RetryInv /\ [Next]_vars => RetryInv'
  <1> SUFFICES ASSUME PInv, RetryInv, [Next]_vars PROVE RetryInv'
    OBVIOUS
  <1>0. /\ counts' \in [faults : Nat, settings : Nat, lifecycle : Nat]
        /\ counts'.settings = 0 => counts.settings = 0
        /\ (\E ch : SetStream(ch) \/ Archive(ch)) => counts'.settings # 0
    BY CountsStep DEF RetryInv
  <1>1. config' = config
    BY DEF Next, Cycle, Fail, Staff, Tick, LoadHorizon, ReadEnrollments, Materialize, LoadTargets,
       Prepare, PostRoot, PostReply, Reserve, PostCards, Complete, Ask, React, Begin, Commit, Rollback,
       Pause, Resume, End, ChangeTariff, Lifecycle, SetStream, Archive, clientVars, vars
  <1> SUFFICES ASSUME OnePod' PROVE SummaryOk' /\ ReservedOk' /\ PodOk' /\ PostedOk'
    BY <1>0 DEF RetryInv
  <1>2. OnePod /\ SummaryOk /\ ReservedOk /\ PodOk /\ PostedOk
    BY <1>0, <1>1 DEF OnePod, RetryInv
  <1>3. PICK w \in Workers : config.workers = {w}
    BY <1>2 DEF OnePod
  <1>4. today \in Nat
    BY DEF PInv, EnrollmentsOk
  <1>5. ASSUME NEW v \in Workers, Cycle(v) \/ Fail(v) PROVE SummaryOk' /\ ReservedOk' /\ PodOk' /\ PostedOk'
    <2>1. v \in config.workers
      BY <1>5 DEF Cycle, Fail, LoadHorizon, ReadEnrollments, Materialize, LoadTargets,
         Prepare, PostRoot, PostReply, Reserve, PostCards, Complete, At
    <2>2. QED
      BY <1>2, <1>3, <1>5, <2>1, RetryCycle
  <1>6. ASSUME UNCHANGED <<stream, summary, card, posted, jobs, worker>>, today' \in Nat, today <= today', Grows
        PROVE  SummaryOk' /\ ReservedOk' /\ PodOk' /\ PostedOk'
    BY <1>1, <1>2, <1>4, <1>6, RetryQuiet
  <1>7. ASSUME NEW k \in Keys, Commit(k) PROVE SummaryOk' /\ ReservedOk' /\ PodOk' /\ PostedOk'
    <2>1. Grows
      BY <1>7, CommitKeeps
    <2>2. UNCHANGED <<stream, summary, card, posted, jobs, worker, today>>
      BY <1>7 DEF Commit, clientVars, buzzVars
    <2>3. QED
      BY <1>4, <1>6, <2>1, <2>2
  <1>8. ASSUME UNCHANGED <<stream, summary, card, posted, jobs, worker, today, payment>>
        PROVE  SummaryOk' /\ ReservedOk' /\ PodOk' /\ PostedOk'
    BY <1>4, <1>6, <1>8, StaysGrows
  <1>9. CASE Staff
    <2>1. CASE \E k \in Keys : \/ \E p \in PaymentIds, c \in Changes(config.changes) : Ask(k, p, c)
                               \/ \E m \in posted : React(k, m)
                               \/ Begin(k) \/ Rollback(k)
      BY <1>8, <2>1 DEF Ask, React, Begin, Rollback, clientVars, buzzVars
    <2>2. CASE \E ch : SetStream(ch) \/ Archive(ch)
      BY <1>0, <2>2 DEF OnePod
    <2>3. CASE \E e \in Enrollments : Pause(e) \/ Resume(e) \/ End(e) \/ \E n \in Prices : ChangeTariff(e, n)
      BY <1>8, <2>3 DEF Pause, Resume, End, ChangeTariff, Lifecycle, buzzVars
    <2>4. QED
      BY <1>7, <1>9, <2>1, <2>2, <2>3 DEF Staff
  <1>10. CASE Tick
    <2>1. today' = today + 1 /\ UNCHANGED <<stream, summary, card, posted, jobs, worker, payment>>
      BY <1>10 DEF Tick, buzzVars
    <2>2. QED
      BY <1>4, <1>6, <2>1, StaysGrows
  <1>11. CASE UNCHANGED vars
    BY <1>8, <1>11 DEF vars
  <1>12. QED
    BY <1>5, <1>9, <1>10, <1>11 DEF Next

\* RetryInit: nothing is posted yet.
LEMMA RetryInit == Init => RetryInv
  <1> SUFFICES ASSUME Init PROVE RetryInv
    OBVIOUS
  <1>1. counts \in [faults : Nat, settings : Nat, lifecycle : Nat]
    BY DEF Init
  <1>2. summary = None /\ posted = {} /\ jobs = 0 /\ ~Pending /\ \A p \in PaymentIds : card[p] = None
    BY DEF Init, Pending
  <1>3. config.workers \subseteq Workers
    BY PaymentsAssumption DEF Init
  <1>4. \A w \in config.workers : worker[w].pc = "idle"
    BY <1>3 DEF Init, Idle
  <1>5. QED
    BY <1>1, <1>2, <1>4 DEF RetryInv, SummaryOk, ReservedOk, PodOk, PostedOk, Holding

\* RetryInductive: what one pod posts is in order in every behaviour.
THEOREM RetryInductive == Spec => [](PInv /\ RetryInv)
  BY PaymentsInit, PaymentsStep, RetryInit, RetryStep, PTL DEF Spec

\* StableRetry: with one pod and one channel, failures, restarts and retries repeat neither
\* the root message of a month nor the card of a version in it
\* (publish_pending_overdue_summaries, airhop_payments.rs; prepare_organization_summary and
\* reserve_airhop_payment_action_events, payment_automation.rs).
THEOREM StableRetry == Spec => []RetryStable
  <1>1. PInv /\ RetryInv => RetryStable
    <2> SUFFICES ASSUME PInv, RetryInv, Cardinality(config.workers) = 1, counts.settings = 0
                 PROVE  \A m, n \in posted :
                          m.kind = n.kind /\ m.period = n.period /\ m.job # n.job =>
                            \/ m.kind = "reply"
                            \/ m.kind = "card" /\ <<m.payment, m.version>> # <<n.payment, n.version>>
      BY DEF RetryStable
    <2>1. config.workers \subseteq Workers
      BY PaymentsAssumption DEF PInv, RequestsOk
    <2>2. IsFiniteSet(config.workers)
      BY <2>1, FS_Subset, PaymentsAssumption
    <2>3. \E w : config.workers = {w}
      BY <2>2, FS_Singleton
    <2>4. OnePod
      BY <2>1, <2>3 DEF OnePod
    <2>5. QED
      BY <2>4 DEF RetryInv, PostedOk, Distinct
  <1>2. QED
    BY <1>1, RetryInductive, PTL


-----------------------------------------------------------------------------
(* Types.                                                                  *)

EnrollmentsT == [status : {"active", "paused", "ended"}, price : Amounts, start : Days, floor : Days]

CalendarT == config \in Configs /\ today \in Nat /\ today <= config.days

EnrollT ==
  /\ enrollment \in [Enrollments -> EnrollmentsT]
  /\ \A w \in Workers : worker[w].pc = "insert" => worker[w].seen \in [Enrollments -> EnrollmentsT]

HistoryT == active \in [Enrollments -> SUBSET Months] /\ forgiven \in [Enrollments -> SUBSET Months]

RowsT == payment \in [PaymentIds -> Rows \cup {None}]

ChangeT(c) == (c.kind = "amount" => c.n \in Amounts) /\ (c.kind = "move" => c.n \in Days)

CommandsT ==
  /\ \A k \in Keys : request[k] # None => request[k].payment \in PaymentIds /\ ChangeT(request[k].change)
  /\ tx \in [Keys -> [paid : Int] \cup {None}]
  /\ answer \in [Keys -> {"none", "ok", "lost", "refused", "conflict"}]

Messages == CardEvents \cup [kind : {"root", "reply"}, stream : Streams, period : Months, job : Nat]

BuzzT ==
  /\ stream \in Streams \cup {"unset"} /\ archived \subseteq Streams /\ jobs \in Nat
  /\ card \in [PaymentIds -> CardEvents \cup {None}]
  /\ summary # None => /\ summary.job \in Jobs \cup {None}
                       /\ summary.stream \in Streams /\ summary.root \in Nat
  /\ posted \subseteq Messages

\* What a pod carries from one step to the next: the date, the channel and the job.
PodsT ==
  \A w \in Workers : /\ worker[w].job \in Jobs \cup {None}
                     /\ worker[w].date \in Nat /\ worker[w].date <= config.days
                     /\ worker[w].pc = "prepare" => worker[w].stream \in Streams
                     /\ worker[w].pc \in Holding => worker[w].job \in Jobs

TypeInv == CalendarT /\ EnrollT /\ HistoryT /\ RowsT /\ CommandsT /\ BuzzT /\ PodsT

\* Amounts and days are numbers.
LEMMA NumbersT ==
  /\ TopPrice \in Nat /\ Amounts = 0..TopPrice /\ Amounts \subseteq Nat /\ Prices \subseteq Amounts
  /\ Days \subseteq Nat /\ 0 \in Days
  <1>1. TopPrice \in Nat /\ \A n \in Prices : n <= TopPrice
    BY PaymentsAssumption DEF TopPrice
  <1>2. LastMonth * DaysPerMonth + PaymentDay \in Nat
    BY PaymentsAssumption
  <1>3. QED
    BY <1>1, <1>2, PaymentsAssumption DEF Amounts, Days

\* ConfigT: the days of a configuration lie within the calendar.
LEMMA ConfigT ==
  ASSUME NEW c \in Configs, NEW d \in Nat, d <= c.days
  PROVE  d \in Days /\ MonthOf(d) \in Months
  <1>1. c.days \in 0..((LastMonth - 1) * DaysPerMonth)
    BY PaymentsAssumption
  <1>2. LastMonth \in Nat /\ DaysPerMonth \in Nat \ {0} /\ PaymentDay \in Nat
    BY PaymentsAssumption
  <1>3. (LastMonth - 1) * DaysPerMonth = LastMonth * DaysPerMonth - DaysPerMonth
    BY <1>2
  <1>4. LastMonth * DaysPerMonth \in Nat
    BY <1>2
  <1> DEFINE end == LastMonth * DaysPerMonth
  <1> HIDE DEF end
  <1>5. end \in Nat /\ d <= end - DaysPerMonth
    BY <1>1, <1>2, <1>3, <1>4 DEF end
  <1>6. d \in Days
    BY <1>2, <1>5 DEF Days, end
  <1>7. MonthOf(end) = LastMonth
    BY <1>2 DEF MonthOf, end
  <1>8. MonthOf(d) \in Nat /\ MonthOf(d) <= LastMonth
    BY <1>2, <1>5, <1>7, MonthOfType, MonthOfRises
  <1>9. QED
    BY <1>6, <1>8, <1>2 DEF Months

\* DueT: the payment day of a month lies within the calendar.
LEMMA DueT ==
  ASSUME NEW m \in Months
  PROVE  FirstOf(m) \in Days /\ FirstOf(m) + PaymentDay \in Days
  <1>1. m \in Nat /\ m <= LastMonth /\ LastMonth \in Nat /\ DaysPerMonth \in Nat /\ PaymentDay \in Nat
    BY PaymentsAssumption DEF Months
  <1>2. m * DaysPerMonth \in Nat /\ m * DaysPerMonth <= LastMonth * DaysPerMonth /\ LastMonth * DaysPerMonth \in Nat
    BY <1>1
  <1>3. QED
    BY <1>1, <1>2 DEF FirstOf, Days

\* Who changes what.
LEMMA Touches ==
  ASSUME Next
  PROVE  /\ config' = config
         /\ today' = today \/ Tick
         /\ \/ UNCHANGED <<enrollment, active, forgiven>> \/ Tick
            \/ \E e \in Enrollments : Pause(e) \/ Resume(e) \/ End(e) \/ \E n \in Prices : ChangeTariff(e, n)
         /\ payment' = payment \/ (\E k \in Keys : Commit(k)) \/ (\E w \in Workers : Materialize(w))
         /\ \/ UNCHANGED commandVars
            \/ \E k \in Keys : \/ \E p \in PaymentIds, c \in Changes(config.changes) : Ask(k, p, c)
                               \/ \E m \in posted : React(k, m)
                               \/ Begin(k) \/ Commit(k) \/ Rollback(k)
         /\ \/ UNCHANGED <<stream, archived, buzzVars>>
            \/ \E ch \in Streams \cup {"unset"} : SetStream(ch)
            \/ \E ch \in Streams : Archive(ch)
            \/ \E w \in Workers : Prepare(w) \/ PostRoot(w) \/ PostReply(w) \/ Reserve(w) \/ PostCards(w) \/ Complete(w)
         /\ worker' = worker \/ \E w \in Workers : Cycle(w) \/ Fail(w)
  <1>1. CASE \E w \in Workers : Cycle(w) \/ Fail(w)
    <2>1. PICK w \in Workers : Cycle(w) \/ Fail(w)
      BY <1>1
    <2>2. UNCHANGED <<config, today, enrollment, active, forgiven, commandVars>>
      BY <2>1 DEF Cycle, Fail, LoadHorizon, ReadEnrollments, Materialize, LoadTargets, Prepare,
         PostRoot, PostReply, Reserve, PostCards, Complete, clientVars
    <2>3. payment' = payment \/ Materialize(w)
      BY <2>1 DEF Cycle, Fail, LoadHorizon, ReadEnrollments, LoadTargets, Prepare,
         PostRoot, PostReply, Reserve, PostCards, Complete
    <2>4. \/ UNCHANGED <<stream, archived, buzzVars>>
          \/ Prepare(w) \/ PostRoot(w) \/ PostReply(w) \/ Reserve(w) \/ PostCards(w) \/ Complete(w)
      BY <2>1 DEF Cycle, Fail, LoadHorizon, ReadEnrollments, Materialize, LoadTargets, buzzVars
    <2>5. QED
      BY <1>1, <2>2, <2>3, <2>4
  <1>2. CASE Staff
    BY <1>2 DEF Staff, Ask, React, Begin, Commit, Rollback, Pause, Resume, End, ChangeTariff, Lifecycle,
       SetStream, Archive, clientVars, commandVars, buzzVars
  <1>3. CASE Tick
    BY <1>3 DEF Tick, commandVars, buzzVars
  <1>4. QED
    BY <1>1, <1>2, <1>3 DEF Next


\* Every day that passes lies within the calendar.
LEMMA CalendarTStep == ASSUME CalendarT, [Next]_vars PROVE CalendarT' /\ config' = config
  <1>1. CASE Next
    <2>1. config' = config /\ (today' = today \/ Tick)
      BY <1>1, Touches
    <2>2. Tick => today < config.days /\ today' = today + 1
      BY DEF Tick
    <2>3. config.days \in Nat
      BY PaymentsAssumption DEF CalendarT
    <2>4. QED
      BY <2>1, <2>2, <2>3 DEF CalendarT
  <1>2. CASE UNCHANGED vars
    BY <1>2 DEF vars, CalendarT
  <1>3. QED
    BY <1>1, <1>2

\* Enrollments keep their type, and so does what a pod has read of them.
LEMMA EnrollTStep ==
  ASSUME CalendarT, EnrollT, WorkersOk, [Next]_vars
  PROVE  EnrollT'
  <1>1. enrollment' \in [Enrollments -> EnrollmentsT]
    <2>1. CASE enrollment' = enrollment
      BY <2>1 DEF EnrollT
    <2>2. CASE Tick
      BY <2>2 DEF Tick, EnrollT
    <2>3. ASSUME NEW e \in Enrollments,
                 Pause(e) \/ Resume(e) \/ End(e) \/ \E n \in Prices : ChangeTariff(e, n)
          PROVE  enrollment' \in [Enrollments -> EnrollmentsT]
      <3>1. enrollment[e] \in EnrollmentsT /\ today \in Days /\ Prices \subseteq Amounts
        BY ConfigT, NumbersT DEF EnrollT, CalendarT
      <3>2. \A n \in Amounts : /\ [enrollment[e] EXCEPT !.status = "paused"] \in EnrollmentsT
                               /\ [enrollment[e] EXCEPT !.status = "active", !.floor = today] \in EnrollmentsT
                               /\ [enrollment[e] EXCEPT !.status = "ended"] \in EnrollmentsT
                               /\ [enrollment[e] EXCEPT !.price = n] \in EnrollmentsT
        BY <3>1 DEF EnrollmentsT
      <3>3. 0 \in Amounts
        BY NumbersT
      <3>4. \E new \in EnrollmentsT : enrollment' = [enrollment EXCEPT ![e] = new]
        BY <2>3, <3>1, <3>2, <3>3 DEF Pause, Resume, End, ChangeTariff, Lifecycle
      <3>5. QED
        BY <3>4 DEF EnrollT
    <2>4. QED
      BY <2>1, <2>2, <2>3, Touches DEF vars
  <1>2. ASSUME NEW w \in Workers, worker'[w].pc = "insert"
        PROVE  worker'[w].seen \in [Enrollments -> EnrollmentsT]
    <2>1. CASE worker'[w] = worker[w]
      BY <1>2, <2>1 DEF EnrollT
    <2>2. ASSUME NEW v \in Workers, Cycle(v) \/ Fail(v), worker'[w] # worker[w]
          PROVE  worker'[w].seen \in [Enrollments -> EnrollmentsT]
      <3>1. v = w
        BY <2>2, CycleGoes
      <3>2. worker'[w].seen = enrollment
        BY <1>2, <2>2, <3>1, CycleGoes
      <3>3. QED
        BY <3>2 DEF EnrollT
    <2>3. QED
      BY <2>1, <2>2, Touches DEF vars
  <1>3. QED
    BY <1>1, <1>2 DEF EnrollT


\* Active and forgiven months lie within the calendar.
LEMMA HistoryTStep ==
  ASSUME CalendarT, HistoryT, [Next]_vars
  PROVE  HistoryT'
  <1>1. MonthOf(today) \in Months
    BY ConfigT DEF CalendarT
  <1>2. CASE UNCHANGED <<active, forgiven>>
    BY <1>2 DEF HistoryT
  <1>3. CASE Tick
    <2>1. CalendarT' /\ config' = config
      BY CalendarTStep
    <2>2. MonthOf(today') \in Months
      BY <2>1, ConfigT DEF CalendarT
    <2>3. QED
      BY <1>3, <2>2 DEF Tick, HistoryT
  <1>4. ASSUME NEW e \in Enrollments,
               Pause(e) \/ Resume(e) \/ End(e) \/ \E n \in Prices : ChangeTariff(e, n)
        PROVE  HistoryT'
    <2>1. active' = active \/ active' = [active EXCEPT ![e] = @ \cup {MonthOf(today)}]
      <3>1. PICK new : active' = [active EXCEPT ![e] = IF new.status = "active" THEN @ \cup {MonthOf(today)} ELSE @]
        BY <1>4 DEF Pause, Resume, End, ChangeTariff, Lifecycle
      <3>2. CASE new.status = "active"
        BY <3>1, <3>2
      <3>3. CASE new.status # "active"
        BY <3>1, <3>3 DEF HistoryT
      <3>4. QED
        BY <3>2, <3>3
    <2>2. active' \in [Enrollments -> SUBSET Months]
      BY <1>1, <2>1 DEF HistoryT
    <2>3. \/ forgiven' = forgiven
          \/ forgiven' = [forgiven EXCEPT ![e] = @ \cup {m \in active[e] \ Billed(e) : m < MonthOf(today)}]
      BY <1>4 DEF Pause, Resume, End, ChangeTariff
    <2>4. {m \in active[e] \ Billed(e) : m < MonthOf(today)} \subseteq Months
      BY DEF HistoryT
    <2>5. forgiven' \in [Enrollments -> SUBSET Months]
      BY <2>3, <2>4 DEF HistoryT
    <2>6. QED
      BY <2>2, <2>5 DEF HistoryT
  <1>5. QED
    BY <1>2, <1>3, <1>4, Touches DEF vars

\* ApplyT: a change keeps the amount and the due date of a row within their bounds.
LEMMA ApplyT ==
  ASSUME NEW r \in Rows, NEW paid, NEW c, ChangeOk(c), ChangeT(c)
  PROVE  Apply(r, paid, c).amount \in Amounts /\ Apply(r, paid, c).due \in Days
  <1>1. r.amount \in Amounts /\ r.due \in Days
    BY DEF Rows
  <1>2. ASSUME NEW n PROVE /\ Receive(r, paid, n).amount = r.amount /\ Receive(r, paid, n).due = r.due
                           /\ Refund(r, paid, n).amount = r.amount /\ Refund(r, paid, n).due = r.due
    BY DEF Receive, Refund, Rows
  <1>3. CASE c.kind \in {"paid", "record", "refund"}
    BY <1>1, <1>2, <1>3 DEF Apply
  <1>4. CASE c.kind = "restore"
    <2>1. CASE r.status = "paid"
      BY <1>1, <1>2, <1>4, <2>1 DEF Apply
    <2>2. CASE r.status # "paid"
      BY <1>1, <1>4, <2>2 DEF Apply, Rows
    <2>3. QED
      BY <2>1, <2>2
  <1>5. CASE c.kind = "cancel"
    BY <1>1, <1>5 DEF Apply, Rows
  <1>6. CASE c.kind = "amount"
    BY <1>1, <1>6 DEF Apply, Rows, ChangeT
  <1>7. CASE c.kind = "move"
    BY <1>1, <1>7 DEF Apply, Rows, ChangeT
  <1>8. QED
    BY <1>3, <1>4, <1>5, <1>6, <1>7 DEF ChangeOk

\* RowsT of a commit.
LEMMA CommitT ==
  ASSUME PInv, RowsT, CommandsT, NEW k \in Keys, Commit(k)
  PROVE  RowsT'
  <1>1. CASE payment' = payment
    BY <1>1 DEF RowsT
  <1>2. CASE payment' # payment
    <2> DEFINE q == request[k].payment
    <2>1. /\ tx[k] # None /\ done' = [done EXCEPT ![k] = payment[q].version + 1]
          /\ payment' = [payment EXCEPT ![q] = Apply(payment[q], tx[k].paid, request[k].change)]
      BY <1>2 DEF Commit
    <2>2. request[k] # None /\ done[k] = 0 /\ done \in [Keys -> Nat] /\ RequestOk(k)
      BY <2>1 DEF PInv, TxsOk, TxOk, RequestsOk
    <2>3. q \in PaymentIds /\ ChangeT(request[k].change) /\ ChangeOk(request[k].change)
          /\ IsRow(payment[q])
      BY <2>2 DEF CommandsT, RequestOk
    <2>4. payment[q] \in Rows /\ payment[q].version + 1 # 0
      BY <2>3, RowIsNotNone DEF RowsT, IsRow
    <2>5. done' # done
      BY <2>1, <2>2, <2>4
    <2>6. IsRow(payment'[q]) /\ payment'[q].version = payment[q].version + 1
      BY <2>5, CommitFacts
    <2>7. payment'[q] = Apply(payment[q], tx[k].paid, request[k].change)
      BY <2>1, <2>3 DEF RowsT
    <2> HIDE DEF q
    <2>8. payment'[q].amount \in Amounts /\ payment'[q].due \in Days
      BY <2>3, <2>4, <2>7, ApplyT
    <2>9. payment'[q] \in Rows
      BY <2>4, <2>6, <2>8 DEF IsRow, Rows
    <2>10. payment' = [payment EXCEPT ![q] = payment'[q]]
      BY <2>1, <2>7 DEF q
    <2>11. QED
      BY <2>9, <2>10 DEF RowsT
  <1>3. QED
    BY <1>1, <1>2

\* RowsT of a refresh.
LEMMA FilledT ==
  ASSUME RowsT, EnrollT, NEW w \in Workers, Materialize(w)
  PROVE  RowsT'
  <1> DEFINE seen == worker[w].seen
             date == worker[w].date
  <1>1. payment' = Materialized(seen, date) /\ seen \in [Enrollments -> EnrollmentsT]
    BY DEF Materialize, At, EnrollT
  <1>2. ASSUME NEW p \in PaymentIds, payment'[p] # payment[p] PROVE payment'[p] \in Rows
    <2> DEFINE e     == p[1]
               first == FirstPeriod(e, seen[e])
    <2>1. e \in Enrollments /\ p[2] \in Months /\ seen[e] \in EnrollmentsT
      BY <1>1 DEF PaymentIds
    <2>2. payment'[p] = NewPayment(seen[e].price, IF p[2] = first.month THEN first.due
                                                  ELSE FirstOf(p[2]) + PaymentDay)
      BY <1>1, <1>2 DEF Materialized
    <2>3. seen[e].price \in Amounts /\ seen[e].start \in Days /\ seen[e].floor \in Days
      BY <2>1 DEF EnrollmentsT
    <2>4. p[2] = first.month => first.due \in Days
      <3>1. \/ first.due = seen[e].floor \/ first.due = seen[e].start
            \/ first.due = FirstOf(first.month) + PaymentDay
        BY DEF FirstPeriod
      <3>2. QED
        BY <2>1, <2>3, <3>1, DueT
    <2> HIDE DEF first, e
    <2>5. PICK due \in Days : payment'[p] = NewPayment(seen[e].price, due)
      BY <2>1, <2>2, <2>4, DueT
    <2>6. QED
      BY <2>3, <2>5 DEF NewPayment, Rows
  <1>3. payment' = [p \in PaymentIds |-> payment'[p]]
    BY <1>1 DEF Materialized
  <1>4. QED
    BY <1>2, <1>3 DEF RowsT

\* Rows keep their type.
LEMMA RowsTStep ==
  ASSUME PInv, RowsT, EnrollT, CommandsT, [Next]_vars
  PROVE  RowsT'
  <1>1. CASE payment' = payment
    BY <1>1 DEF RowsT
  <1>2. QED
    BY <1>1, CommitT, FilledT, Touches DEF vars


\* Commands keep their type.
LEMMA CommandsTStep ==
  ASSUME PInv, CalendarT, CommandsT, [Next]_vars
  PROVE  CommandsT'
  <1> DEFINE Asked(k) == request[k] # None => request[k].payment \in PaymentIds /\ ChangeT(request[k].change)
             Answers == {"none", "ok", "lost", "refused", "conflict"}
  <1>0. request = [k \in Keys |-> request[k]]
    BY DEF PInv, RequestsOk
  <1>1. CASE UNCHANGED commandVars
    BY <1>1 DEF commandVars, CommandsT, ChangeT
  <1>2. ASSUME NEW k \in Keys, NEW q, request' = [request EXCEPT ![k] = q], UNCHANGED <<tx, answer>>,
               q.payment \in PaymentIds, ChangeT(q.change)
        PROVE  CommandsT'
    <2>1. request'[k] = q /\ \A j \in Keys : j # k => request'[j] = request[j]
      BY <1>0, <1>2
    <2>2. \A j \in Keys : request'[j] # None => request'[j].payment \in PaymentIds /\ ChangeT(request'[j].change)
      BY <1>2, <2>1 DEF CommandsT
    <2>3. QED
      BY <1>2, <2>2 DEF CommandsT, ChangeT
  <1>3. ASSUME NEW k \in Keys, NEW p \in PaymentIds, NEW c \in Changes(config.changes), Ask(k, p, c)
        PROVE  CommandsT'
    <2>1. ChangeT(c)
      <3>1. config.days \in Nat /\ config \in Configs
        BY PaymentsAssumption DEF CalendarT
      <3>2. MonthOf(config.days) \in Months
        BY <3>1, ConfigT
      <3>3. \A m \in 0..MonthOf(config.days) : m \in Months
        BY <3>2, PaymentsAssumption DEF Months
      <3>4. \A m \in 0..MonthOf(config.days) : FirstOf(m) \in Days
        BY <3>3, DueT
      <3>5. QED
        BY <3>4 DEF Changes, ChangeT
    <2> DEFINE q == [payment |-> p, version |-> payment[p].version, change |-> c, target |-> None]
    <2>2. request' = [request EXCEPT ![k] = q] /\ UNCHANGED <<tx, answer>>
      BY <1>3 DEF Ask
    <2>3. q.payment \in PaymentIds /\ ChangeT(q.change)
      BY <2>1
    <2> HIDE DEF q
    <2>4. QED
      BY <1>2, <2>2, <2>3
  <1>4. ASSUME NEW k \in Keys, NEW m \in posted, React(k, m)
        PROVE  CommandsT'
    <2> DEFINE c == [kind |-> "paid", n |-> 0]
               q == [payment |-> m.payment, version |-> m.version, change |-> c, target |-> m]
    <2>1. m.payment \in PaymentIds
      BY <1>4 DEF React, PInv, CardsOk, CardOk
    <2>2. request' = [request EXCEPT ![k] = q] /\ UNCHANGED <<tx, answer>>
      BY <1>4 DEF React
    <2>3. q.payment \in PaymentIds /\ ChangeT(q.change)
      BY <2>1 DEF ChangeT
    <2> HIDE DEF q
    <2>4. QED
      BY <1>2, <2>2, <2>3
  <1>5. ASSUME NEW k \in Keys, Begin(k) \/ Commit(k) \/ Rollback(k)
        PROVE  CommandsT'
    <2>1. request' = request
      BY <1>5 DEF Begin, Commit, Rollback
    <2>2. \/ tx' = tx \/ tx' = [tx EXCEPT ![k] = None]
          \/ request[k] # None /\ tx' = [tx EXCEPT ![k] = [paid |-> Paid(payment[request[k].payment])]]
      BY <1>5 DEF Begin, Commit, Rollback
    <2>3. request[k] # None => Paid(payment[request[k].payment]) \in Int
      BY DEF PInv, RequestsOk, RequestOk, IsRow, Paid
    <2>4. tx' \in [Keys -> [paid : Int] \cup {None}]
      BY <2>2, <2>3 DEF CommandsT
    <2>5. answer' = answer \/ \E a \in Answers : answer' = [answer EXCEPT ![k] = a]
      BY <1>5 DEF Begin, Commit, Rollback
    <2>6. answer' \in [Keys -> Answers]
      BY <2>5 DEF CommandsT
    <2>7. QED
      BY <2>1, <2>4, <2>6 DEF CommandsT, ChangeT
  <1>6. QED
    BY <1>1, <1>3, <1>4, <1>5, Touches DEF vars, commandVars

\* PrepareT: a new summary has its type.
LEMMA PrepareT ==
  ASSUME PInv, CalendarT, RowsT, BuzzT, PodsT, NEW w \in Workers, Prepare(w)
  PROVE  BuzzT'
  <1>1. UNCHANGED <<stream, archived, card, posted>> /\ worker[w].pc = "prepare"
    BY DEF Prepare, At
  <1>2. CASE UNCHANGED <<summary, jobs>>
    BY <1>1, <1>2 DEF BuzzT
  <1>3. CASE ~UNCHANGED <<summary, jobs>>
    <2> DEFINE ch     == worker[w].stream
               period == MonthOf(worker[w].date)
               rows   == Overdue(worker[w].date)
               new    == {p \in rows : ~Published(p, ch, period)}
               same   == summary # None /\ summary.stream = ch /\ summary.period = period
               cards  == {CardOf(p, ch, period, jobs + 1) : p \in new}
               root   == IF same THEN summary.root ELSE 0
               job    == [id |-> jobs + 1, stream |-> ch, period |-> period, digest |-> Digest(rows),
                          root |-> root, cards |-> cards]
    <2>1. /\ summary' = [stream |-> ch, period |-> period, root |-> job.root, job |-> job,
                         digest |-> IF summary = None THEN {} ELSE summary.digest]
          /\ jobs' = jobs + 1
      BY <1>3 DEF Prepare
    <2>2. ch \in Streams /\ period \in Months /\ jobs \in Nat /\ jobs + 1 \in Nat
      BY <1>1, ConfigT DEF PodsT, CalendarT, BuzzT
    <2>3. root \in Nat
      BY DEF BuzzT
    <2>4. \A p \in rows : /\ p \in PaymentIds /\ payment[p].version \in Nat /\ Owed(payment[p]) \in Int
      <3>1. \A p \in rows : p \in PaymentIds /\ IsRow(payment[p])
        BY DEF Overdue, PInv, RowsOk
      <3>2. QED
        BY <3>1 DEF IsRow, Owed, Paid
    <2>5. Digest(rows) \in SUBSET (PaymentIds \X Nat)
      BY <2>4 DEF Digest
    <2> HIDE DEF root, rows, period, ch
    <2>6. cards \subseteq CardEvents
      BY <2>2, <2>4 DEF CardOf, CardEvents
    <2> HIDE DEF cards
    <2>7. job \in Jobs /\ job.root = root
      BY <2>2, <2>3, <2>5, <2>6 DEF Jobs
    <2> HIDE DEF job
    <2>8. summary'.job \in Jobs /\ summary'.stream \in Streams /\ summary'.root \in Nat
      BY <2>1, <2>2, <2>3, <2>7
    <2>9. QED
      BY <1>1, <2>1, <2>2, <2>8 DEF BuzzT
  <1>4. QED
    BY <1>2, <1>3

\* UpsertT: reservations keep their type.
LEMMA UpsertT ==
  ASSUME card \in [PaymentIds -> CardEvents \cup {None}], NEW cards \in SUBSET CardEvents, Upsert(cards)
  PROVE  card' \in [PaymentIds -> CardEvents \cup {None}]
  <1>1. ASSUME NEW p \in PaymentIds
        PROVE  (IF \E m \in cards : m.payment = p THEN CHOOSE m \in cards : m.payment = p ELSE card[p])
                 \in CardEvents \cup {None}
    <2>1. CASE \E m \in cards : m.payment = p
      <3>1. (CHOOSE m \in cards : m.payment = p) \in cards
        BY <2>1
      <3>2. QED
        BY <2>1, <3>1
    <2>2. CASE ~\E m \in cards : m.payment = p
      BY <2>2
    <2>3. QED
      BY <2>1, <2>2
  <1>2. QED
    BY <1>1 DEF Upsert

\* PostT: what a pod posts and reserves has its type.
LEMMA PostT ==
  ASSUME PInv, BuzzT, PodsT, NEW w \in Workers,
         PostRoot(w) \/ PostReply(w) \/ Reserve(w) \/ PostCards(w) \/ Complete(w)
  PROVE  BuzzT'
  <1>1. UNCHANGED <<stream, archived, jobs>> /\ worker[w].pc \in Holding
    BY DEF PostRoot, PostReply, Reserve, PostCards, Complete, At, Holding
  <1> DEFINE j == worker[w].job
  <1>2. j \in Jobs
    BY <1>1 DEF PodsT
  <1>3. /\ j.id \in Nat /\ j.stream \in Streams /\ j.period \in Months /\ j.root \in Nat
        /\ j.cards \in SUBSET CardEvents
    BY <1>2 DEF Jobs
  <1>4. posted' \subseteq Messages
    <2>1. CASE posted' = posted
      BY <2>1 DEF BuzzT
    <2>2. ASSUME NEW kind \in {"root", "reply"}, Post(w, kind) PROVE posted' \subseteq Messages
      <3>1. [kind |-> kind, stream |-> j.stream, period |-> j.period, job |-> j.id] \in Messages
        BY <1>3 DEF Messages
      <3>2. QED
        BY <2>2, <3>1 DEF Post, BuzzT
    <2>3. CASE \E some \in SUBSET j.cards : posted' = posted \cup some
      BY <1>3, <2>3 DEF BuzzT, Messages
    <2>4. QED
      BY <2>1, <2>2, <2>3 DEF PostRoot, PostReply, Reserve, PostCards, Complete
  <1>5. card' \in [PaymentIds -> CardEvents \cup {None}]
    <2>1. card' = card \/ Upsert(j.cards)
      BY DEF PostRoot, PostReply, Reserve, PostCards, Complete
    <2>2. QED
      BY <1>3, <2>1, UpsertT DEF BuzzT
  <1>6. summary' # None => /\ summary'.job \in Jobs \cup {None}
                           /\ summary'.stream \in Streams /\ summary'.root \in Nat
    <2>1. CASE summary' = summary
      BY <2>1 DEF BuzzT
    <2>2. CASE Complete(w) /\ StillPending(j)
      <3>1. IsSummary(summary) /\ summary.stream \in Streams /\ summary.root \in Nat
        BY <2>2 DEF StillPending, Pending, PInv, CardsOk, BuzzT
      <3>2. PICK root, digest : summary' = [summary EXCEPT !.root = root, !.digest = digest, !.job = None]
                                /\ root = IF summary.root = 0 THEN j.id ELSE summary.root
        BY <2>2 DEF Complete
      <3>3. root \in Nat
        BY <1>3, <3>1, <3>2
      <3>4. QED
        BY <3>1, <3>2, <3>3 DEF IsSummary
    <2>3. QED
      BY <2>1, <2>2 DEF PostRoot, PostReply, Reserve, PostCards, Complete
  <1>7. QED
    BY <1>1, <1>4, <1>5, <1>6 DEF BuzzT


\* Channels, summaries, reservations and messages keep their type.
LEMMA BuzzTStep ==
  ASSUME PInv, CalendarT, RowsT, BuzzT, PodsT, [Next]_vars
  PROVE  BuzzT'
  <1>1. CASE UNCHANGED <<stream, archived, buzzVars>>
    BY <1>1 DEF buzzVars, BuzzT
  <1>2. ASSUME NEW ch \in Streams \cup {"unset"}, SetStream(ch) PROVE BuzzT'
    <2>1. card' \in [PaymentIds -> CardEvents \cup {None}]
      BY <1>2 DEF SetStream
    <2>2. QED
      BY <1>2, <2>1 DEF SetStream, BuzzT
  <1>3. ASSUME NEW ch \in Streams, Archive(ch) PROVE BuzzT'
    BY <1>3 DEF Archive, buzzVars, BuzzT
  <1>4. QED
    BY <1>1, <1>2, <1>3, PrepareT, PostT, Touches DEF vars, buzzVars

\* What the pods carry keeps its type.
LEMMA PodsTStep ==
  ASSUME WorkersOk, CalendarT, BuzzT, BuzzT', PodsT, [Next]_vars
  PROVE  PodsT'
  <1>1. config' = config /\ config.days \in Nat
    BY CalendarTStep, PaymentsAssumption DEF CalendarT
  <1>2. CASE worker' = worker
    BY <1>1, <1>2 DEF PodsT
  <1>3. ASSUME NEW v \in Workers, Cycle(v) \/ Fail(v), NEW w \in Workers
        PROVE  /\ worker'[w].job \in Jobs \cup {None}
               /\ worker'[w].date \in Nat /\ worker'[w].date <= config.days
               /\ worker'[w].pc = "prepare" => worker'[w].stream \in Streams
               /\ worker'[w].pc \in Holding => worker'[w].job \in Jobs
    <2>1. CASE w # v
      <3>1. worker'[w] = worker[w]
        BY <1>3, <2>1, CycleGoes
      <3>2. QED
        BY <3>1 DEF PodsT
    <2>2. CASE w = v
      <3> DEFINE x == worker'[w]
      <3>1. \/ x.pc \in {"idle", "refreshed"} /\ x.date = 0 /\ x.job = None
            \/ x.pc = "horizon" /\ x.date = today /\ x.job = None
            \/ x.pc = "insert" /\ x.date = worker[w].date /\ x.job = worker[w].job
            \/ x.pc = "prepare" /\ x.date = today /\ x.job = None /\ x.stream = stream /\ stream # "unset"
            \/ x.pc = "root" /\ x.date = 0 /\ x.job = summary'.job /\ Pending'
            \/ /\ x.pc \in {"reply", "reserve", "cards", "complete"} /\ worker[w].pc \in Holding
               /\ x.date = worker[w].date /\ x.job = worker[w].job
        BY <1>3, <2>2, CycleGoes
      <3>2. Pending' => summary'.job \in Jobs
        BY DEF Pending, BuzzT
      <3>3. stream # "unset" => stream \in Streams
        BY DEF BuzzT
      <3>4. /\ worker[w].job \in Jobs \cup {None} /\ worker[w].date \in Nat /\ worker[w].date <= config.days
            /\ worker[w].pc \in Holding => worker[w].job \in Jobs
        BY DEF PodsT
      <3>5. today \in Nat /\ today <= config.days
        BY DEF CalendarT
      <3> HIDE DEF x
      <3>6. /\ x.job \in Jobs \cup {None} /\ x.date \in Nat /\ x.date <= config.days
            /\ x.pc = "prepare" => x.stream \in Streams
            /\ x.pc \in Holding => x.job \in Jobs
        BY <1>1, <3>1, <3>2, <3>3, <3>4, <3>5 DEF Holding
      <3>7. QED
        BY <3>6 DEF x
    <2>3. QED
      BY <2>1, <2>2
  <1>4. CASE \E v \in Workers : Cycle(v) \/ Fail(v)
    BY <1>1, <1>3, <1>4 DEF PodsT
  <1>5. QED
    BY <1>2, <1>4, Touches DEF vars

\* TypeStep: every step keeps the types.
LEMMA TypeStep == PInv /\ TypeInv /\ [Next]_vars => TypeInv'
  <1> SUFFICES ASSUME PInv, TypeInv, [Next]_vars PROVE TypeInv'
    OBVIOUS
  <1>1. WorkersOk /\ CalendarT /\ EnrollT /\ HistoryT /\ RowsT /\ CommandsT /\ BuzzT /\ PodsT
    BY DEF PInv, TypeInv
  <1>2. CalendarT' /\ EnrollT' /\ HistoryT' /\ RowsT' /\ CommandsT'
    BY <1>1, CalendarTStep, EnrollTStep, HistoryTStep, RowsTStep, CommandsTStep
  <1>3. BuzzT'
    BY <1>1, BuzzTStep
  <1>4. PodsT'
    BY <1>1, <1>3, PodsTStep
  <1>5. QED
    BY <1>2, <1>3, <1>4 DEF TypeInv

\* TypeInit: the types of an organization that has just enrolled.
LEMMA TypeInit == Init => TypeInv
  <1> SUFFICES ASSUME Init PROVE TypeInv
    OBVIOUS
  <1>1. TopPrice \in Amounts /\ 0 \in Days /\ 0 \in Months
    BY NumbersT, PaymentsAssumption DEF Months
  <1>2. config \in Configs /\ config.days \in Nat
    BY PaymentsAssumption DEF Init
  <1>3. CalendarT
    BY <1>2 DEF Init, CalendarT
  <1>4. \A w \in Workers : worker[w].pc = "idle" /\ worker[w].date = 0 /\ worker[w].job = None
    BY DEF Init, Idle
  <1>5. enrollment \in [Enrollments -> EnrollmentsT]
    BY <1>1 DEF Init, EnrollmentsT
  <1>6. EnrollT
    BY <1>4, <1>5 DEF EnrollT
  <1>7. HistoryT
    BY <1>1 DEF Init, HistoryT
  <1>8. RowsT
    <2>1. \A p \in PaymentIds : enrollment[p[1]].price \in Amounts
      BY <1>5 DEF PaymentIds, EnrollmentsT
    <2>2. \A p \in PaymentIds : payment[p] \in Rows \cup {None}
      <3>1. \A n \in Amounts : NewPayment(n, 0) \in Rows
        BY <1>1 DEF NewPayment, Rows
      <3>2. QED
        BY <2>1, <3>1 DEF Init
    <2>3. QED
      BY <2>2 DEF Init, RowsT
  <1>9. CommandsT
    BY DEF Init, CommandsT
  <1>10. BuzzT
    <2>1. stream \in Streams
      BY PaymentsAssumption DEF Init
    <2>2. QED
      BY <2>1 DEF Init, BuzzT
  <1>11. PodsT
    BY <1>2, <1>4 DEF PodsT, Holding
  <1>12. QED
    BY <1>3, <1>6, <1>7, <1>8, <1>9, <1>10, <1>11 DEF TypeInv

\* TypeCorrect: every variable has its type; in particular versions are positive, no amount is
\* above the highest price, and no due date, card or summary falls outside the calendar.
THEOREM TypeCorrect == Spec => []TypeOK
  <1>1. PInv /\ TypeInv => TypeOK
    <2> SUFFICES ASSUME PInv, TypeInv PROVE TypeOK
      OBVIOUS
    <2>1. config \in Configs /\ today \in Days
      BY ConfigT DEF TypeInv, CalendarT
    <2>2. done \in [Keys -> Nat]
      BY DEF PInv, TxsOk
    <2>3. QED
      BY <2>1, <2>2 DEF TypeOK, TypeInv, EnrollT, EnrollmentsT, HistoryT, RowsT, CommandsT, BuzzT, PodsT,
         Messages
  <1>2. Spec => [](PInv /\ TypeInv)
    BY PaymentsInit, PaymentsStep, TypeInit, TypeStep, PTL DEF Spec
  <1>3. QED
    BY <1>1, <1>2, PTL


=============================================================================
