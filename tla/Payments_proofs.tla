----------------------------- MODULE Payments_proofs -----------------------------
(***************************************************************************)
(* Proofs about Payments, for any number of enrollments, months, prices,   *)
(* keys, pods and faults.                                                  *)
(***************************************************************************)
EXTENDS Payments, TLAPS

-----------------------------------------------------------------------------
(* The invariant.                                                          *)

\* A row of airhop_payment_expectations, whatever its due date.
IsRow(r) ==
  r \in [status : {"expected", "paid", "cancelled"}, amount : Nat, received : Nat,
         refunded : Nat, due : {r.due}, version : Nat]

\* LedgerBalanced, of one row.
Balanced(r) ==
  /\ Paid(r) \in 0..r.amount
  /\ r.status = "paid" <=> Paid(r) = r.amount /\ r.amount > 0
  /\ r.status = "cancelled" => Paid(r) = 0

ChangeOk(c) ==
  /\ c.kind \in {"paid", "record", "refund", "cancel", "restore", "amount", "move"}
  /\ c.kind \in {"record", "refund", "amount"} => c.n \in Nat

\* A card is never ahead of its payment, and shows what the payment owes as
\* long as the payment has the version of the card.
CardOk(m) ==
  /\ m.payment \in PaymentIds /\ IsRow(payment[m.payment])
  /\ m.version \in Nat /\ m.version <= payment[m.payment].version
  /\ m.version = payment[m.payment].version => m.shown = Owed(payment[m.payment])

\* The same of a request; the request of a reaction is that of its card.
RequestOk(k) ==
  /\ request[k].payment \in PaymentIds /\ IsRow(payment[request[k].payment])
  /\ request[k].version \in Nat /\ request[k].version <= payment[request[k].payment].version
  /\ ChangeOk(request[k].change)
  /\ k \in config.reacts => /\ request[k].change.kind = "paid" /\ CardOk(request[k].target)
                            /\ request[k].target.payment = request[k].payment
                            /\ request[k].target.version = request[k].version

\* A transaction that waits for its row has a key nothing was committed under; if
\* its version is still current, the ledger sum it has read is the present one.
TxOk(k) ==
  /\ request[k] # None /\ done[k] = 0
  /\ request[k].version = payment[request[k].payment].version
     => tx[k].paid = Paid(payment[request[k].payment])

EnrollmentRows == [status : {"active", "paused", "ended"}, price : Nat, start : Nat, floor : Nat]

IsWorker(x) ==
  x \in [pc : {x.pc}, stream : {x.stream}, date : {x.date}, seen : {x.seen}, job : {x.job}]

IsSummary(s) ==
  s \in [stream : {s.stream}, period : {s.period}, root : {s.root}, job : {s.job},
         digest : {s.digest}]

\* The steps of a cycle in which a pod holds the job of a summary.
Holding == {"root", "reply", "reserve", "cards", "complete"}

RowsOk ==
  /\ payment = [p \in PaymentIds |-> payment[p]]
  /\ \A p \in PaymentIds : Exists(p) => IsRow(payment[p]) /\ Balanced(payment[p])

EnrollmentsOk == today \in Nat /\ enrollment \in [Enrollments -> EnrollmentRows]

WorkersOk ==
  /\ worker = [w \in Workers |-> worker[w]]
  /\ \A w \in Workers : /\ IsWorker(worker[w])
                        /\ worker[w].pc = "insert"
                           => worker[w].seen \in [Enrollments -> EnrollmentRows]

CardsOk ==
  /\ \A m \in posted : m.kind = "card" => CardOk(m)
  /\ summary # None => IsSummary(summary)
  /\ Pending => \A m \in summary.job.cards : CardOk(m)
  /\ \A w \in Workers : worker[w].pc \in Holding => \A m \in worker[w].job.cards : CardOk(m)

RequestsOk ==
  /\ config \in Configs /\ request = [k \in Keys |-> request[k]]
  /\ \A k \in Keys : request[k] # None => RequestOk(k)

TxsOk ==
  /\ tx = [k \in Keys |-> tx[k]] /\ done \in [Keys -> Nat] /\ answer = [k \in Keys |-> answer[k]]
  /\ \A k \in Keys : tx[k] # None => TxOk(k)

PInv == RowsOk /\ EnrollmentsOk /\ WorkersOk /\ CardsOk /\ RequestsOk /\ TxsOk

-----------------------------------------------------------------------------
(* Rows.                                                                   *)

\* RowIsNotNone: a row is not the absence of one.
LEMMA RowIsNotNone == ASSUME NEW r, IsRow(r) PROVE r # None
  BY DEF IsRow, None

\* NewPaymentFacts: a new expectation is a balanced row.
LEMMA NewPaymentFacts ==
  ASSUME NEW amount \in Nat, NEW due
  PROVE  IsRow(NewPayment(amount, due)) /\ Balanced(NewPayment(amount, due))
  BY DEF NewPayment, IsRow, Balanced, Paid

\* ReceiveFacts: a receipt within what is owed keeps the row balanced.
LEMMA ReceiveFacts ==
  ASSUME NEW r, IsRow(r), Balanced(r), NEW n \in Nat, n > 0, n <= Owed(r)
  PROVE  LET s == Receive(r, Paid(r), n) IN
         /\ IsRow(s) /\ Balanced(s) /\ s.version = r.version + 1
         /\ s.received = r.received + n /\ (n = Owed(r) => s.status = "paid")
  <1> DEFINE st == IF Paid(r) + n = r.amount THEN "paid" ELSE "expected"
             s  == Receive(r, Paid(r), n)
  <1>1. /\ r.received \in Nat /\ r.refunded \in Nat /\ r.amount \in Nat /\ r.version \in Nat
    BY DEF IsRow
  <1>2. /\ r.received - r.refunded \in 0..r.amount /\ n <= r.amount - (r.received - r.refunded)
        /\ r.version + 1 \in Nat /\ r.received + n \in Nat
    BY <1>1 DEF Balanced, Paid, Owed
  <1>3. st \in {"paid", "expected"} /\ (st = "paid" <=> r.received - r.refunded + n = r.amount)
    BY DEF Paid
  <1>4. s = [r EXCEPT !.received = @ + n, !.version = @ + 1, !.status = st]
    BY DEF Receive
  <1> HIDE DEF st, s
  <1>5. /\ IsRow(s) /\ s.status = st /\ s.amount = r.amount /\ s.received = r.received + n
        /\ s.refunded = r.refunded /\ s.version = r.version + 1
    BY <1>2, <1>3, <1>4 DEF IsRow
  <1>6. Balanced(s)
    BY <1>1, <1>2, <1>3, <1>5 DEF Balanced, Paid
  <1>7. n = Owed(r) => s.status = "paid"
    BY <1>1, <1>2, <1>3, <1>5 DEF Owed, Paid
  <1>8. QED
    BY <1>5, <1>6, <1>7 DEF s

\* RefundFacts: a refund within what is paid keeps the row balanced.
LEMMA RefundFacts ==
  ASSUME NEW r, IsRow(r), Balanced(r), NEW n \in Nat, n > 0, n <= Paid(r)
  PROVE  LET s == Refund(r, Paid(r), n) IN
         IsRow(s) /\ Balanced(s) /\ s.version = r.version + 1
  <1> DEFINE s == Refund(r, Paid(r), n)
  <1>1. r.received \in Nat /\ r.refunded \in Nat /\ r.amount \in Nat /\ r.version \in Nat
    BY DEF IsRow
  <1>2. /\ r.received - r.refunded \in 0..r.amount /\ n <= r.received - r.refunded
        /\ r.version + 1 \in Nat /\ r.refunded + n \in Nat
    BY <1>1 DEF Balanced, Paid
  <1>3. Paid(r) - n # r.amount
    BY <1>1, <1>2 DEF Paid
  <1>4. s = [r EXCEPT !.refunded = @ + n, !.version = @ + 1, !.status = "expected"]
    BY <1>3 DEF Refund
  <1> HIDE DEF s
  <1>5. /\ IsRow(s) /\ s.status = "expected" /\ s.amount = r.amount /\ s.received = r.received
        /\ s.refunded = r.refunded + n /\ s.version = r.version + 1
    BY <1>2, <1>4 DEF IsRow
  <1>6. Balanced(s)
    BY <1>1, <1>2, <1>5 DEF Balanced, Paid
  <1>7. QED
    BY <1>5, <1>6 DEF s

\* ApplyFacts: a change that validate_transition allows keeps the row balanced, and
\* raises its version; marking it paid receives all that is owed.
LEMMA ApplyFacts ==
  ASSUME NEW r, IsRow(r), Balanced(r), NEW c, ChangeOk(c), Allowed(r, Paid(r), c)
  PROVE  LET s == Apply(r, Paid(r), c) IN
         /\ IsRow(s) /\ Balanced(s) /\ s.version = r.version + 1
         /\ c.kind = "paid" => s.received = r.received + Owed(r) /\ s.status = "paid"
  <1>0. /\ r.received \in Nat /\ r.refunded \in Nat /\ r.amount \in Nat /\ r.version \in Nat
        /\ Paid(r) \in Nat /\ Paid(r) <= r.amount /\ Owed(r) = r.amount - Paid(r) /\ Owed(r) \in Nat
        /\ r.version + 1 \in Nat
    BY DEF IsRow, Balanced, Paid, Owed
  <1>1. CASE c.kind = "paid"
    <2>1. Owed(r) > 0 /\ Apply(r, Paid(r), c) = Receive(r, Paid(r), Owed(r))
      BY <1>0, <1>1 DEF Allowed, Apply
    <2>2. QED
      BY <1>0, <2>1, ReceiveFacts
  <1>2. CASE c.kind = "record"
    <2>1. /\ c.n \in Nat /\ c.n > 0 /\ c.n <= Owed(r)
          /\ Apply(r, Paid(r), c) = Receive(r, Paid(r), c.n)
      BY <1>0, <1>2 DEF Allowed, Apply, ChangeOk
    <2>2. QED
      BY <1>2, <2>1, ReceiveFacts
  <1>3. CASE c.kind = "refund"
    <2>1. /\ c.n \in Nat /\ c.n > 0 /\ c.n <= Paid(r)
          /\ Apply(r, Paid(r), c) = Refund(r, Paid(r), c.n)
      BY <1>0, <1>3 DEF Allowed, Apply, ChangeOk
    <2>2. QED
      BY <1>3, <2>1, RefundFacts
  <1>4. CASE c.kind = "restore" /\ r.status = "paid"
    <2>1. Paid(r) > 0 /\ Apply(r, Paid(r), c) = Refund(r, Paid(r), Paid(r))
      BY <1>0, <1>4 DEF Allowed, Apply, Balanced
    <2>2. QED
      BY <1>0, <1>4, <2>1, RefundFacts
  <1>5. CASE c.kind = "restore" /\ r.status # "paid"
    <2> DEFINE s == Apply(r, Paid(r), c)
    <2>1. Paid(r) = 0 /\ s = [r EXCEPT !.status = "expected", !.version = @ + 1]
      BY <1>5 DEF Allowed, Apply
    <2>2. IsRow(s) /\ s.status = "expected" /\ s.amount = r.amount /\ Paid(s) = Paid(r)
          /\ s.version = r.version + 1
      BY <1>0, <2>1 DEF IsRow, Paid
    <2>3. ~(r.amount > 0 /\ Paid(r) = r.amount)
      BY <1>0, <2>1
    <2> HIDE DEF s
    <2>4. Balanced(s)
      BY <1>0, <2>2, <2>3 DEF Balanced
    <2>5. QED
      BY <1>5, <2>2, <2>4 DEF s
  <1>6. CASE c.kind = "cancel"
    <2> DEFINE s == Apply(r, Paid(r), c)
    <2>1. r.status = "expected" /\ Paid(r) = 0
          /\ s = [r EXCEPT !.status = "cancelled", !.version = @ + 1]
      BY <1>6 DEF Allowed, Apply
    <2>2. IsRow(s) /\ s.status = "cancelled" /\ s.amount = r.amount /\ Paid(s) = Paid(r)
          /\ s.version = r.version + 1
      BY <1>0, <2>1 DEF IsRow, Paid
    <2> HIDE DEF s
    <2>3. Balanced(s)
      BY <1>0, <2>1, <2>2 DEF Balanced
    <2>4. QED
      BY <1>6, <2>2, <2>3 DEF s
  <1>7. CASE c.kind = "amount"
    <2> DEFINE s == Apply(r, Paid(r), c)
    <2>1. /\ c.n \in Nat /\ r.status = "expected" /\ (Paid(r) = 0 \/ c.n > Paid(r))
          /\ s = [r EXCEPT !.amount = c.n, !.version = @ + 1]
      BY <1>7 DEF Allowed, Apply, ChangeOk
    <2>2. IsRow(s) /\ s.status = "expected" /\ s.amount = c.n /\ Paid(s) = Paid(r)
          /\ s.version = r.version + 1
      BY <1>0, <2>1 DEF IsRow, Paid
    <2> HIDE DEF s
    <2>3. Balanced(s)
      BY <1>0, <2>1, <2>2 DEF Balanced
    <2>4. QED
      BY <1>7, <2>2, <2>3 DEF s
  <1>8. CASE c.kind = "move"
    <2> DEFINE s == Apply(r, Paid(r), c)
    <2>1. s = [r EXCEPT !.due = c.n, !.version = @ + 1]
      BY <1>8 DEF Apply
    <2>2. IsRow(s) /\ s.status = r.status /\ s.amount = r.amount /\ Paid(s) = Paid(r)
          /\ s.version = r.version + 1
      BY <1>0, <2>1 DEF IsRow, Paid
    <2> HIDE DEF s
    <2>3. Balanced(s)
      BY <2>2 DEF Balanced
    <2>4. QED
      BY <1>8, <2>2, <2>3 DEF s
  <1>9. QED
    BY <1>1, <1>2, <1>3, <1>4, <1>5, <1>6, <1>7, <1>8 DEF ChangeOk

-----------------------------------------------------------------------------
(* Rows only grow.                                                         *)

\* A step that keeps every row, or raises its version.
Grows ==
  \A p \in PaymentIds : IsRow(payment[p]) =>
    /\ IsRow(payment'[p])
    /\ payment'[p] = payment[p] \/ payment'[p].version > payment[p].version

\* CardKept: what a card says stays true while rows grow.
LEMMA CardKept ==
  ASSUME Grows, NEW m, CardOk(m)
  PROVE  CardOk(m)'
  <1>1. /\ m.payment \in PaymentIds /\ IsRow(payment[m.payment]) /\ IsRow(payment'[m.payment])
        /\ m.version \in Nat /\ m.version <= payment[m.payment].version
        /\ \/ payment'[m.payment] = payment[m.payment]
           \/ payment'[m.payment].version > payment[m.payment].version
    BY DEF Grows, CardOk
  <1>2. payment[m.payment].version \in Nat /\ payment'[m.payment].version \in Nat
    BY <1>1 DEF IsRow
  <1>3. CASE payment'[m.payment] = payment[m.payment]
    BY <1>3 DEF CardOk
  <1>4. CASE payment'[m.payment].version > payment[m.payment].version
    BY <1>1, <1>2, <1>4 DEF CardOk
  <1>5. QED
    BY <1>1, <1>3, <1>4

\* RequestKept: the same of a request.
LEMMA RequestKept ==
  ASSUME Grows, NEW k, RequestOk(k), config' = config, request'[k] = request[k]
  PROVE  RequestOk(k)'
  <1> DEFINE q == request[k]
  <1>1. /\ q.payment \in PaymentIds /\ IsRow(payment[q.payment]) /\ IsRow(payment'[q.payment])
        /\ q.version \in Nat /\ q.version <= payment[q.payment].version /\ ChangeOk(q.change)
        /\ \/ payment'[q.payment] = payment[q.payment]
           \/ payment'[q.payment].version > payment[q.payment].version
    BY DEF Grows, RequestOk
  <1>2. payment[q.payment].version \in Nat /\ payment'[q.payment].version \in Nat
    BY <1>1 DEF IsRow
  <1>3. q.version <= payment'[q.payment].version
    BY <1>1, <1>2
  <1>4. ASSUME k \in config.reacts
        PROVE  /\ q.change.kind = "paid" /\ CardOk(q.target)'
               /\ q.target.payment = q.payment /\ q.target.version = q.version
    <2>1. /\ q.change.kind = "paid" /\ CardOk(q.target)
          /\ q.target.payment = q.payment /\ q.target.version = q.version
      BY <1>4 DEF RequestOk
    <2>2. CASE payment'[q.payment] = payment[q.payment]
      BY <2>1, <2>2 DEF CardOk
    <2>3. CASE payment'[q.payment].version > payment[q.payment].version
      BY <1>1, <1>2, <2>1, <2>3 DEF CardOk
    <2>4. QED
      BY <1>1, <2>1, <2>2, <2>3
  <1>5. QED
    BY <1>1, <1>3, <1>4 DEF RequestOk

\* TxKept: a ledger sum that was read is present while its version is.
LEMMA TxKept ==
  ASSUME Grows, NEW k, RequestOk(k), TxOk(k),
         request'[k] = request[k], done'[k] = done[k], tx'[k] = tx[k]
  PROVE  TxOk(k)'
  <1> DEFINE q == request[k]
  <1>1. /\ q.payment \in PaymentIds /\ IsRow(payment[q.payment]) /\ IsRow(payment'[q.payment])
        /\ q.version \in Nat /\ q.version <= payment[q.payment].version
        /\ \/ payment'[q.payment] = payment[q.payment]
           \/ payment'[q.payment].version > payment[q.payment].version
    BY DEF Grows, RequestOk
  <1>2. payment[q.payment].version \in Nat /\ payment'[q.payment].version \in Nat
    BY <1>1 DEF IsRow
  <1>3. CASE payment'[q.payment] = payment[q.payment]
    BY <1>3 DEF TxOk
  <1>4. CASE payment'[q.payment].version > payment[q.payment].version
    BY <1>1, <1>2, <1>4 DEF TxOk
  <1>5. QED
    BY <1>1, <1>3, <1>4

\* CardsStep: the cards stay true when rows grow, pods keep their jobs or put
\* them down, and every new card in a channel comes from a job.
LEMMA CardsStep ==
  ASSUME CardsOk, Grows,
         \A m \in posted' : m.kind = "card" => m \in posted \/ CardOk(m),
         summary' # None => IsSummary(summary'),
         Pending' => \/ Pending /\ summary'.job = summary.job
                     \/ \A m \in summary'.job.cards : CardOk(m),
         \A w \in Workers : worker'[w].pc \in Holding =>
            \/ worker[w].pc \in Holding /\ worker'[w].job = worker[w].job
            \/ \A m \in worker'[w].job.cards : CardOk(m)
  PROVE  CardsOk'
  <1>1. \A m \in posted' : m.kind = "card" => CardOk(m)'
    BY CardKept DEF CardsOk
  <1>2. Pending' => \A m \in summary'.job.cards : CardOk(m)'
    <2>1. Pending => \A m \in summary.job.cards : CardOk(m)
      BY DEF CardsOk
    <2>2. Pending' => \A m \in summary'.job.cards : CardOk(m)
      BY <2>1
    <2>3. QED
      BY <2>2, CardKept
  <1>3. \A w \in Workers : worker'[w].pc \in Holding => \A m \in worker'[w].job.cards : CardOk(m)'
    <2>1. \A w \in Workers : worker'[w].pc \in Holding => \A m \in worker'[w].job.cards : CardOk(m)
      BY DEF CardsOk
    <2>2. QED
      BY <2>1, CardKept
  <1>4. QED
    BY <1>1, <1>2, <1>3 DEF CardsOk

\* CardsKept: the cards stay true while rows grow and nothing is posted.
LEMMA CardsKept ==
  ASSUME CardsOk, Grows, UNCHANGED <<posted, summary, worker>>
  PROVE  CardsOk'
  <1>1. Pending' => Pending /\ summary'.job = summary.job
    BY DEF Pending
  <1>2. summary' # None => IsSummary(summary')
    BY DEF CardsOk
  <1>3. \A w \in Workers : worker'[w].pc \in Holding =>
            worker[w].pc \in Holding /\ worker'[w].job = worker[w].job
    OBVIOUS
  <1>4. QED
    BY <1>1, <1>2, <1>3, CardsStep

\* CommandsKept: commands that wait stay as they are while rows grow.
LEMMA CommandsKept ==
  ASSUME RequestsOk, TxsOk, Grows, UNCHANGED <<config, request, tx, done, answer>>
  PROVE  RequestsOk' /\ TxsOk'
  <1>1. ASSUME NEW k \in Keys, request[k] # None PROVE RequestOk(k)'
    BY <1>1, RequestKept DEF RequestsOk
  <1>2. ASSUME NEW k \in Keys, tx[k] # None PROVE TxOk(k)'
    <2>1. TxOk(k) /\ RequestOk(k)
      BY <1>2 DEF TxsOk, RequestsOk, TxOk
    <2>2. QED
      BY <2>1, TxKept
  <1>3. RequestsOk'
    BY <1>1 DEF RequestsOk
  <1>4. TxsOk'
    BY <1>2 DEF TxsOk
  <1>5. QED
    BY <1>3, <1>4

\* StaysGrows: an unchanged table grows.
LEMMA StaysGrows == payment' = payment => Grows
  BY DEF Grows

-----------------------------------------------------------------------------
(* Commands and reactions.                                                 *)

\* AskStep: a request is for the version its client has seen.
LEMMA AskStep ==
  ASSUME PInv, NEW k \in Keys, NEW p \in PaymentIds, NEW c \in Changes(config.changes), Ask(k, p, c)
  PROVE  PInv'
  <1>0. RowsOk /\ RequestsOk /\ TxsOk /\ CardsOk /\ WorkersOk /\ EnrollmentsOk
    BY DEF PInv
  <1>1. /\ payment' = payment /\ UNCHANGED <<config, today, enrollment, tx, done, answer>>
        /\ UNCHANGED <<summary, posted, worker>>
        /\ k \in config.staff /\ request[k] = None /\ Exists(p)
        /\ request' = [request EXCEPT ![k] = [payment |-> p, version |-> payment[p].version,
                                              change |-> c, target |-> None]]
    BY DEF Ask, clientVars, buzzVars
  <1>2. Grows
    BY <1>1, StaysGrows
  <1>3. IsRow(payment[p]) /\ payment[p].version \in Nat
    BY <1>0, <1>1 DEF RowsOk, IsRow
  <1>4. ChangeOk(c)
    <2>1. TopPrice \in Nat
      BY PaymentsAssumption DEF TopPrice
    <2>2. Amounts \subseteq Nat
      BY <2>1 DEF Amounts
    <2>3. QED
      BY <2>2 DEF Changes, ChangeOk
  <1>5. k \notin config.reacts
    BY <1>0, <1>1, PaymentsAssumption DEF RequestsOk
  <1>6. /\ request'[k] = [payment |-> p, version |-> payment[p].version, change |-> c, target |-> None]
        /\ \A j \in Keys : j # k => request'[j] = request[j]
        /\ request' = [j \in Keys |-> request'[j]]
    BY <1>0, <1>1 DEF RequestsOk
  <1>7. RequestOk(k)'
    BY <1>1, <1>3, <1>4, <1>5, <1>6 DEF RequestOk
  <1>8. RequestsOk'
    BY <1>0, <1>1, <1>2, <1>6, <1>7, RequestKept DEF RequestsOk
  <1>9. TxsOk'
    <2>1. tx[k] = None
      BY <1>0, <1>1 DEF TxsOk, TxOk
    <2>2. ASSUME NEW j \in Keys, tx[j] # None PROVE TxOk(j)'
      BY <1>0, <1>1, <1>6, <2>1, <2>2 DEF TxsOk, TxOk
    <2>3. QED
      BY <1>0, <1>1, <2>2 DEF TxsOk
  <1>10. RowsOk' /\ EnrollmentsOk' /\ WorkersOk' /\ CardsOk'
    BY <1>0, <1>1 DEF RowsOk, Exists, EnrollmentsOk, WorkersOk, CardsOk, CardOk, Pending
  <1>11. QED
    BY <1>8, <1>9, <1>10 DEF PInv

\* ReactStep: a reaction is for the version its card shows.
LEMMA ReactStep ==
  ASSUME PInv, NEW k \in Keys, NEW m \in posted, React(k, m)
  PROVE  PInv'
  <1>0. RowsOk /\ RequestsOk /\ TxsOk /\ CardsOk /\ WorkersOk /\ EnrollmentsOk
    BY DEF PInv
  <1> DEFINE c == [kind |-> "paid", n |-> 0]
  <1>1. /\ payment' = payment /\ UNCHANGED <<config, today, enrollment, tx, done, answer>>
        /\ UNCHANGED <<summary, posted, worker>>
        /\ request[k] = None /\ m.kind = "card"
        /\ request' = [request EXCEPT ![k] = [payment |-> m.payment, version |-> m.version,
                                              change |-> c, target |-> m]]
    BY DEF React, clientVars, buzzVars
  <1>2. Grows
    BY <1>1, StaysGrows
  <1>3. CardOk(m)
    BY <1>0, <1>1 DEF CardsOk
  <1>4. ChangeOk(c) /\ c.kind = "paid"
    BY DEF ChangeOk
  <1> HIDE DEF c
  <1>6. /\ request'[k] = [payment |-> m.payment, version |-> m.version, change |-> c, target |-> m]
        /\ \A j \in Keys : j # k => request'[j] = request[j]
        /\ request' = [j \in Keys |-> request'[j]]
    BY <1>0, <1>1 DEF RequestsOk
  <1>7. RequestOk(k)'
    BY <1>1, <1>3, <1>4, <1>6 DEF RequestOk, CardOk
  <1>8. RequestsOk'
    BY <1>0, <1>1, <1>2, <1>6, <1>7, RequestKept DEF RequestsOk
  <1>9. TxsOk'
    <2>1. tx[k] = None
      BY <1>0, <1>1 DEF TxsOk, TxOk
    <2>2. ASSUME NEW j \in Keys, tx[j] # None PROVE TxOk(j)'
      BY <1>0, <1>1, <1>6, <2>1, <2>2 DEF TxsOk, TxOk
    <2>3. QED
      BY <1>0, <1>1, <2>2 DEF TxsOk
  <1>10. RowsOk' /\ EnrollmentsOk' /\ WorkersOk' /\ CardsOk'
    BY <1>0, <1>1 DEF RowsOk, Exists, EnrollmentsOk, WorkersOk, CardsOk, CardOk, Pending
  <1>11. QED
    BY <1>8, <1>9, <1>10 DEF PInv

\* OpenStep: a transaction that begins reads the present ledger sum, and one that
\* is rolled back leaves everything as it was.
LEMMA OpenStep ==
  ASSUME PInv, NEW k \in Keys, Begin(k) \/ Rollback(k)
  PROVE  PInv'
  <1>0. RowsOk /\ RequestsOk /\ TxsOk /\ CardsOk /\ WorkersOk /\ EnrollmentsOk
    BY DEF PInv
  <1>1. UNCHANGED <<payment, config, today, enrollment, request, done, summary, posted, worker>>
    BY DEF Begin, Rollback, clientVars, buzzVars
  <1>2. /\ tx' = [j \in Keys |-> tx'[j]] /\ answer' = [j \in Keys |-> answer'[j]]
        /\ \A j \in Keys : j # k => tx'[j] = tx[j]
    BY <1>0 DEF Begin, Rollback, TxsOk
  <1>3. tx'[k] # None => TxOk(k)'
    <2>1. CASE Rollback(k)
      BY <1>0, <2>1 DEF Rollback, TxsOk
    <2>2. CASE Begin(k) /\ tx' = tx
      BY <1>0, <1>1, <2>2 DEF TxsOk, TxOk
    <2>3. CASE Begin(k) /\ tx' # tx
      <3>1. /\ request[k] # None /\ done[k] = 0
            /\ tx' = [tx EXCEPT ![k] = [paid |-> Paid(payment[request[k].payment])]]
        BY <2>3 DEF Begin, Replayed
      <3>2. tx'[k].paid = Paid(payment[request[k].payment])
        BY <1>0, <3>1 DEF TxsOk
      <3>3. QED
        BY <1>1, <3>1, <3>2 DEF TxOk
    <2>4. QED
      BY <2>1, <2>2, <2>3
  <1>4. TxsOk'
    <2>1. ASSUME NEW j \in Keys, tx'[j] # None PROVE TxOk(j)'
      BY <1>0, <1>1, <1>2, <1>3, <2>1 DEF TxsOk, TxOk
    <2>2. QED
      BY <1>0, <1>1, <1>2, <2>1 DEF TxsOk
  <1>5. RequestsOk'
    BY <1>0, <1>1, StaysGrows, RequestKept DEF RequestsOk
  <1>6. RowsOk' /\ EnrollmentsOk' /\ WorkersOk' /\ CardsOk'
    BY <1>0, <1>1 DEF RowsOk, Exists, EnrollmentsOk, WorkersOk, CardsOk, CardOk, Pending
  <1>7. QED
    BY <1>4, <1>5, <1>6 DEF PInv

\* CommitFacts: what a committed command does to its row.  If the version is
\* current, so is the ledger sum, however long the transaction has waited.
LEMMA CommitFacts ==
  ASSUME PInv, NEW k \in Keys, Commit(k), done' # done
  PROVE  LET p == request[k].payment IN
         /\ RequestOk(k) /\ done[k] = 0 /\ payment[p].version = request[k].version
         /\ payment' = [payment EXCEPT ![p] = payment'[p]]
         /\ done' = [done EXCEPT ![k] = payment[p].version + 1]
         /\ IsRow(payment[p]) /\ IsRow(payment'[p]) /\ Balanced(payment'[p])
         /\ payment'[p].version = payment[p].version + 1
         /\ request[k].change.kind = "paid" =>
              payment'[p].received = payment[p].received + Owed(payment[p])
              /\ payment'[p].status = "paid"
  <1> DEFINE q == request[k]
             r == payment[q.payment]
  <1>0. RowsOk /\ RequestsOk /\ TxsOk
    BY DEF PInv
  <1>1. /\ tx[k] # None /\ r.version = q.version /\ Allowed(r, tx[k].paid, q.change)
        /\ payment' = [payment EXCEPT ![q.payment] = Apply(r, tx[k].paid, q.change)]
        /\ done' = [done EXCEPT ![k] = r.version + 1]
    BY DEF Commit, Current
  <1>2. TxOk(k) /\ RequestOk(k)
    BY <1>0, <1>1 DEF TxsOk, RequestsOk, TxOk
  <1>3. tx[k].paid = Paid(r) /\ done[k] = 0
    BY <1>1, <1>2 DEF TxOk
  <1>4. q.payment \in PaymentIds /\ IsRow(r) /\ ChangeOk(q.change)
    BY <1>2 DEF RequestOk
  <1>5. Balanced(r)
    BY <1>0, <1>4, RowIsNotNone DEF RowsOk, Exists
  <1>6. payment'[q.payment] = Apply(r, Paid(r), q.change)
    BY <1>0, <1>1, <1>3, <1>4 DEF RowsOk
  <1> HIDE DEF q
  <1>7. /\ IsRow(payment'[q.payment]) /\ Balanced(payment'[q.payment])
        /\ payment'[q.payment].version = r.version + 1
        /\ q.change.kind = "paid" => payment'[q.payment].received = r.received + Owed(r)
                                     /\ payment'[q.payment].status = "paid"
    BY <1>1, <1>3, <1>4, <1>5, <1>6, ApplyFacts
  <1>8. QED
    BY <1>1, <1>2, <1>3, <1>4, <1>6, <1>7 DEF q

\* CommitStep: a command that is committed, or refused, keeps the invariant.
LEMMA CommitStep ==
  ASSUME PInv, NEW k \in Keys, Commit(k)
  PROVE  PInv'
  <1>0. RowsOk /\ RequestsOk /\ TxsOk /\ CardsOk /\ WorkersOk /\ EnrollmentsOk
    BY DEF PInv
  <1> DEFINE p == request[k].payment
  <1>1. UNCHANGED <<config, today, enrollment, request, summary, posted, worker>>
        /\ tx[k] # None /\ tx' = [tx EXCEPT ![k] = None]
    BY DEF Commit, clientVars, buzzVars
  <1>2. /\ tx'[k] = None /\ tx' = [j \in Keys |-> tx'[j]] /\ answer' = [j \in Keys |-> answer'[j]]
        /\ \A j \in Keys : j # k => tx'[j] = tx[j]
    BY <1>0, <1>1 DEF Commit, TxsOk
  <1>3. /\ RowsOk' /\ Grows /\ done' \in [Keys -> Nat]
        /\ \A j \in Keys : j # k => done'[j] = done[j]
    <2>1. CASE done' = done
      <3>1. payment' = payment
        <4>1. CASE payment' = payment
          BY <4>1
        <4>2. CASE payment' # payment
          <5>1. /\ done' = [done EXCEPT ![k] = payment[p].version + 1]
                /\ TxOk(k) /\ RequestOk(k)
            BY <1>0, <1>1, <4>2 DEF Commit, TxsOk, RequestsOk, TxOk
          <5>2. done[k] = 0 /\ payment[p].version \in Nat
            BY <5>1 DEF TxOk, RequestOk, IsRow
          <5>3. done'[k] = payment[p].version + 1
            BY <1>0, <5>1 DEF TxsOk
          <5>4. QED
            BY <2>1, <5>2, <5>3
        <4>3. QED
          BY <4>1, <4>2
      <3>2. QED
        BY <1>0, <2>1, <3>1, StaysGrows DEF RowsOk, Exists, TxsOk
    <2>2. CASE done' # done
      <3>1. /\ p \in PaymentIds /\ IsRow(payment[p]) /\ IsRow(payment'[p]) /\ Balanced(payment'[p])
            /\ payment'[p].version = payment[p].version + 1
            /\ payment' = [payment EXCEPT ![p] = payment'[p]]
            /\ done' = [done EXCEPT ![k] = payment[p].version + 1]
        BY <2>2, CommitFacts DEF RequestOk
      <3>2. payment[p].version \in Nat
        BY <3>1 DEF IsRow
      <3>3. /\ payment' = [i \in PaymentIds |-> payment'[i]]
            /\ \A i \in PaymentIds : i # p => payment'[i] = payment[i]
        BY <1>0, <3>1 DEF RowsOk
      <3> HIDE DEF p
      <3>4. RowsOk'
        BY <1>0, <3>1, <3>3 DEF RowsOk, Exists
      <3>5. Grows
        BY <3>1, <3>2, <3>3 DEF Grows
      <3>6. QED
        BY <1>0, <3>1, <3>2, <3>4, <3>5 DEF TxsOk
    <2>3. QED
      BY <2>1, <2>2
  <1>4. TxsOk'
    <2>1. ASSUME NEW j \in Keys, tx'[j] # None PROVE TxOk(j)'
      <3>1. j # k /\ tx'[j] = tx[j] /\ TxOk(j) /\ RequestOk(j) /\ done'[j] = done[j]
        BY <1>0, <1>2, <1>3, <2>1 DEF TxsOk, RequestsOk, TxOk
      <3>2. QED
        BY <1>1, <1>3, <3>1, TxKept
    <2>2. QED
      BY <1>2, <1>3, <2>1 DEF TxsOk
  <1>5. RequestsOk'
    BY <1>0, <1>1, <1>3, RequestKept DEF RequestsOk
  <1>6. CardsOk'
    BY <1>0, <1>1, <1>3, CardsKept
  <1>7. EnrollmentsOk' /\ WorkersOk'
    BY <1>0, <1>1 DEF EnrollmentsOk, WorkersOk
  <1>8. QED
    BY <1>3, <1>4, <1>5, <1>6, <1>7 DEF PInv

-----------------------------------------------------------------------------
(* Enrollments, settings and the calendar.                                 *)

\* LifecycleStep: a change of an enrollment touches no payment and no command.
LEMMA LifecycleStep ==
  ASSUME PInv, NEW e \in Enrollments,
         Pause(e) \/ Resume(e) \/ End(e) \/ \E n \in Prices : ChangeTariff(e, n)
  PROVE  PInv'
  <1>0. RowsOk /\ RequestsOk /\ TxsOk /\ CardsOk /\ WorkersOk /\ EnrollmentsOk
    BY DEF PInv
  <1>1. /\ UNCHANGED <<config, today, payment, request, tx, done, answer, summary, posted, worker>>
        /\ \E new \in EnrollmentRows : enrollment' = [enrollment EXCEPT ![e] = new]
    <2>0. enrollment[e] \in EnrollmentRows /\ today \in Nat /\ Prices \subseteq Nat
      BY <1>0, PaymentsAssumption DEF EnrollmentsOk
    <2>1. \A n \in Nat : /\ [enrollment[e] EXCEPT !.status = "paused"] \in EnrollmentRows
                         /\ [enrollment[e] EXCEPT !.status = "active", !.floor = today] \in EnrollmentRows
                         /\ [enrollment[e] EXCEPT !.status = "ended"] \in EnrollmentRows
                         /\ [enrollment[e] EXCEPT !.price = n] \in EnrollmentRows
      BY <2>0 DEF EnrollmentRows
    <2>2. \E new : Lifecycle(e, new) /\ new \in EnrollmentRows
      BY <2>0, <2>1 DEF Pause, Resume, End, ChangeTariff
    <2>3. QED
      BY <2>2 DEF Lifecycle, commandVars, buzzVars
  <1>2. EnrollmentsOk'
    BY <1>0, <1>1 DEF EnrollmentsOk
  <1>3. RequestsOk' /\ TxsOk' /\ CardsOk'
    BY <1>0, <1>1, StaysGrows, CommandsKept, CardsKept
  <1>4. RowsOk' /\ WorkersOk'
    BY <1>0, <1>1 DEF RowsOk, Exists, WorkersOk
  <1>5. QED
    BY <1>2, <1>3, <1>4 DEF PInv

\* SettingsStep: settings and the calendar touch no payment and no command; a
\* change of the channel drops the pending summary.
LEMMA SettingsStep ==
  ASSUME PInv, (\E ch : SetStream(ch) \/ Archive(ch)) \/ Tick
  PROVE  PInv'
  <1>0. RowsOk /\ RequestsOk /\ TxsOk /\ CardsOk /\ WorkersOk /\ EnrollmentsOk
    BY DEF PInv
  <1>1. /\ UNCHANGED <<config, enrollment, payment, request, tx, done, answer, posted, worker>>
        /\ summary' = summary \/ summary' = None
        /\ today' = today \/ today' = today + 1
    BY DEF SetStream, Archive, Tick, clientVars, commandVars, buzzVars
  <1>2. Grows
    BY <1>1, StaysGrows
  <1>3. CardsOk'
    <2>1. Pending' => Pending /\ summary'.job = summary.job
      BY <1>1 DEF Pending
    <2>2. summary' # None => IsSummary(summary')
      BY <1>0, <1>1 DEF CardsOk
    <2>3. \A w \in Workers : worker'[w].pc \in Holding =>
            worker[w].pc \in Holding /\ worker'[w].job = worker[w].job
      BY <1>1
    <2>4. QED
      BY <1>0, <1>1, <1>2, <2>1, <2>2, <2>3, CardsStep
  <1>4. RequestsOk' /\ TxsOk'
    BY <1>0, <1>1, <1>2, CommandsKept
  <1>5. RowsOk' /\ WorkersOk' /\ EnrollmentsOk'
    BY <1>0, <1>1 DEF RowsOk, Exists, WorkersOk, EnrollmentsOk
  <1>6. QED
    BY <1>3, <1>4, <1>5 DEF PInv

-----------------------------------------------------------------------------
(* The automation.                                                         *)

\* GoFacts: a pod that moves on keeps its own state well formed.
LEMMA GoFacts ==
  ASSUME WorkersOk, NEW w \in Workers, NEW STATE new, Go(w, new), IsWorker(new),
         new.pc = "insert" => new.seen \in [Enrollments -> EnrollmentRows]
  PROVE  /\ WorkersOk' /\ worker'[w] = new
         /\ \A v \in Workers : v # w => worker'[v] = worker[v]
  <1>1. /\ worker'[w] = new /\ worker' = [v \in Workers |-> worker'[v]]
        /\ \A v \in Workers : v # w => worker'[v] = worker[v]
    BY DEF WorkersOk, Go
  <1>2. ASSUME NEW v \in Workers
        PROVE  /\ IsWorker(worker'[v])
               /\ worker'[v].pc = "insert" => worker'[v].seen \in [Enrollments -> EnrollmentRows]
    BY <1>1 DEF WorkersOk
  <1>3. QED
    BY <1>1, <1>2 DEF WorkersOk

\* IdleFacts: the states of a pod that are written from the idle one.
LEMMA IdleFacts ==
  /\ IsWorker(Idle) /\ Idle.pc = "idle"
  /\ \A d : LET x == [Idle EXCEPT !.pc = "horizon", !.date = d] IN IsWorker(x) /\ x.pc = "horizon"
  /\ LET x == [Idle EXCEPT !.pc = "refreshed"] IN IsWorker(x) /\ x.pc = "refreshed"
  /\ \A s, d : LET x == [Idle EXCEPT !.pc = "prepare", !.stream = s, !.date = d]
               IN  IsWorker(x) /\ x.pc = "prepare"
  /\ \A j : LET x == [Idle EXCEPT !.pc = "root", !.job = j]
            IN  IsWorker(x) /\ x.pc = "root" /\ x.job = j
  BY DEF IsWorker, Idle

\* MoveFacts: a pod that moves to another step keeps its job.
LEMMA MoveFacts ==
  ASSUME NEW x, IsWorker(x), NEW pc
  PROVE  LET y == [x EXCEPT !.pc = pc] IN IsWorker(y) /\ y.pc = pc /\ y.job = x.job /\ y.seen = x.seen
  BY DEF IsWorker

\* QuietCycle: a step of a pod that changes neither rows nor the summary, posts
\* only cards of a job, and keeps its job or puts it down.
LEMMA QuietCycle ==
  ASSUME PInv, NEW w \in Workers, NEW STATE new, Go(w, new), IsWorker(new),
         new.pc = "insert" => new.seen \in [Enrollments -> EnrollmentRows],
         UNCHANGED <<config, today, enrollment, payment, request, tx, done, answer, summary>>,
         \A m \in posted' : m.kind = "card" => m \in posted \/ CardOk(m),
         new.pc \in Holding => \/ worker[w].pc \in Holding /\ new.job = worker[w].job
                               \/ \A m \in new.job.cards : CardOk(m)
  PROVE  PInv'
  <1>0. RowsOk /\ RequestsOk /\ TxsOk /\ CardsOk /\ WorkersOk /\ EnrollmentsOk
    BY DEF PInv
  <1>1. /\ WorkersOk' /\ worker'[w] = new
        /\ \A v \in Workers : v # w => worker'[v] = worker[v]
    BY <1>0, GoFacts
  <1>2. Grows
    BY StaysGrows
  <1>3. CardsOk'
    <2>1. Pending' => Pending /\ summary'.job = summary.job
      BY DEF Pending
    <2>2. summary' # None => IsSummary(summary')
      BY <1>0 DEF CardsOk
    <2>3. \A v \in Workers : worker'[v].pc \in Holding =>
            \/ worker[v].pc \in Holding /\ worker'[v].job = worker[v].job
            \/ \A m \in worker'[v].job.cards : CardOk(m)
      BY <1>1
    <2>4. QED
      BY <1>0, <1>2, <2>1, <2>2, <2>3, CardsStep
  <1>4. RequestsOk' /\ TxsOk'
    BY <1>0, <1>2, CommandsKept
  <1>5. RowsOk' /\ EnrollmentsOk'
    BY <1>0 DEF RowsOk, Exists, EnrollmentsOk
  <1>6. QED
    BY <1>1, <1>3, <1>4, <1>5 DEF PInv

\* MaterializeStep: what exists stays, and what is new is a balanced row.
LEMMA MaterializeStep ==
  ASSUME PInv, NEW w \in Workers, Materialize(w)
  PROVE  PInv'
  <1>0. RowsOk /\ RequestsOk /\ TxsOk /\ CardsOk /\ WorkersOk /\ EnrollmentsOk
    BY DEF PInv
  <1> DEFINE seen == worker[w].seen
             new  == [Idle EXCEPT !.pc = "refreshed"]
  <1>1. /\ worker[w].pc = "insert" /\ payment' = Materialized(seen, worker[w].date) /\ Go(w, new)
        /\ UNCHANGED <<config, today, enrollment, request, tx, done, answer, summary, posted>>
    BY DEF Materialize, At, clientVars, commandVars, buzzVars
  <1>2. seen \in [Enrollments -> EnrollmentRows]
    BY <1>0, <1>1 DEF WorkersOk
  <1>3. /\ payment' = [p \in PaymentIds |-> payment'[p]]
        /\ \A p \in PaymentIds : \/ payment'[p] = payment[p]
                                 \/ ~Exists(p) /\ \E d : payment'[p] = NewPayment(seen[p[1]].price, d)
    BY <1>1 DEF Materialized
  <1>4. \A p \in PaymentIds : seen[p[1]].price \in Nat
    BY <1>2 DEF PaymentIds, EnrollmentRows
  <1> HIDE DEF seen
  <1>5. \A p \in PaymentIds : \/ payment'[p] = payment[p]
                              \/ ~Exists(p) /\ IsRow(payment'[p]) /\ Balanced(payment'[p])
    BY <1>3, <1>4, NewPaymentFacts
  <1>6. RowsOk'
    BY <1>0, <1>3, <1>5 DEF RowsOk, Exists
  <1>7. Grows
    BY <1>5, RowIsNotNone DEF Grows, Exists
  <1>8. /\ WorkersOk' /\ worker'[w] = new
        /\ \A v \in Workers : v # w => worker'[v] = worker[v]
    <2>1. IsWorker(new) /\ new.pc = "refreshed"
      BY IdleFacts
    <2>2. QED
      BY <1>0, <1>1, <2>1, GoFacts
  <1>9. CardsOk'
    <2>1. Pending' => Pending /\ summary'.job = summary.job
      BY <1>1 DEF Pending
    <2>2. summary' # None => IsSummary(summary')
      BY <1>0, <1>1 DEF CardsOk
    <2>3. \A v \in Workers : worker'[v].pc \in Holding =>
            worker[v].pc \in Holding /\ worker'[v].job = worker[v].job
      BY <1>8, IdleFacts DEF Holding
    <2>4. QED
      BY <1>0, <1>1, <1>7, <2>1, <2>2, <2>3, CardsStep
  <1>10. RequestsOk' /\ TxsOk'
    BY <1>0, <1>1, <1>7, CommandsKept
  <1>11. EnrollmentsOk'
    BY <1>0, <1>1 DEF EnrollmentsOk
  <1>12. QED
    BY <1>6, <1>8, <1>9, <1>10, <1>11 DEF PInv

\* PrepareStep: the cards of a new summary show the payments as they are.
LEMMA PrepareStep ==
  ASSUME PInv, NEW w \in Workers, Prepare(w)
  PROVE  PInv'
  <1>0. RowsOk /\ RequestsOk /\ TxsOk /\ CardsOk /\ WorkersOk /\ EnrollmentsOk
    BY DEF PInv
  <1>1. UNCHANGED <<config, today, enrollment, payment, request, tx, done, answer, posted>>
    BY DEF Prepare, clientVars, commandVars
  <1>2. CASE summary' = summary
    <2>1. \/ Pending /\ Go(w, [Idle EXCEPT !.pc = "root", !.job = summary.job])
          \/ Go(w, Idle)
          \/ ~Pending /\ summary' # summary
      <3>1. CASE Pending
        BY <3>1 DEF Prepare
      <3>2. CASE ~Pending
        <4>1. CASE Go(w, Idle)
          BY <4>1
        <4>2. CASE ~Go(w, Idle)
          <5>1. PICK job : /\ summary'.job = job /\ summary' # None /\ job # None
            BY <3>2, <4>2 DEF Prepare, None
          <5>2. QED
            BY <3>2, <5>1 DEF Pending
        <4>3. QED
          BY <4>1, <4>2
      <3>3. QED
        BY <3>1, <3>2
    <2>2. CASE Pending /\ Go(w, [Idle EXCEPT !.pc = "root", !.job = summary.job])
      <3> DEFINE new == [Idle EXCEPT !.pc = "root", !.job = summary.job]
      <3>1. IsWorker(new) /\ new.pc = "root" /\ new.job = summary.job
        BY IdleFacts
      <3>2. \A m \in summary.job.cards : CardOk(m)
        BY <1>0, <2>2 DEF CardsOk
      <3> HIDE DEF new
      <3>3. Go(w, new)
        BY <2>2 DEF new
      <3>4. QED
        BY <1>1, <1>2, <3>1, <3>2, <3>3, QuietCycle
    <2>3. CASE Go(w, Idle)
      <3>1. IsWorker(Idle) /\ Idle.pc = "idle"
        BY IdleFacts
      <3>2. Idle.pc \notin Holding
        BY <3>1 DEF Holding
      <3>3. QED
        BY <1>1, <1>2, <2>3, <3>1, <3>2, QuietCycle
    <2>4. QED
      BY <1>2, <2>1, <2>2, <2>3
  <1>3. CASE summary' # summary
    <2>1. PICK ch, period, rows, root, digest, job :
            /\ rows = Overdue(worker[w].date)
            /\ job.cards \subseteq {CardOf(p, ch, period, jobs + 1) : p \in rows}
            /\ summary' = [stream |-> ch, period |-> period, root |-> root, job |-> job, digest |-> digest]
            /\ Go(w, [Idle EXCEPT !.pc = "root", !.job = job])
      <3> DEFINE ch     == worker[w].stream
                 period == MonthOf(worker[w].date)
                 rows   == Overdue(worker[w].date)
                 new    == {p \in rows : ~Published(p, ch, period)}
                 same   == summary # None /\ summary.stream = ch /\ summary.period = period
                 job    == [id |-> jobs + 1, stream |-> ch, period |-> period, digest |-> Digest(rows),
                            root |-> IF same THEN summary.root ELSE 0,
                            cards |-> {CardOf(p, ch, period, jobs + 1) : p \in new}]
      <3>1. /\ summary' = [stream |-> ch, period |-> period, root |-> job.root, job |-> job,
                           digest |-> IF summary = None THEN {} ELSE summary.digest]
            /\ Go(w, [Idle EXCEPT !.pc = "root", !.job = job])
        BY <1>3 DEF Prepare
      <3>2. job.cards \subseteq {CardOf(p, ch, period, jobs + 1) : p \in rows}
        OBVIOUS
      <3> HIDE DEF job
      <3>3. QED
        BY <3>1, <3>2
    <2>2. \A m \in job.cards : CardOk(m)
      <3>1. ASSUME NEW p \in rows PROVE CardOk(CardOf(p, ch, period, jobs + 1))
        <4>1. p \in PaymentIds /\ IsRow(payment[p])
          BY <1>0, <2>1, <3>1 DEF Overdue, RowsOk
        <4>2. payment[p].version \in Nat
          BY <4>1 DEF IsRow
        <4>3. QED
          BY <4>1, <4>2 DEF CardOf, CardOk
      <3>2. QED
        BY <2>1, <3>1
    <2> DEFINE new == [Idle EXCEPT !.pc = "root", !.job = job]
    <2>3. IsWorker(new) /\ new.pc = "root" /\ new.job = job
      BY IdleFacts
    <2> HIDE DEF new
    <2>4. Go(w, new)
      BY <2>1 DEF new
    <2>5. /\ WorkersOk' /\ worker'[w] = new
          /\ \A v \in Workers : v # w => worker'[v] = worker[v]
      BY <1>0, <2>3, <2>4, GoFacts
    <2>6. summary'.job = job /\ IsSummary(summary')
      BY <2>1 DEF IsSummary
    <2>7. CardsOk'
      <3>1. \A v \in Workers : worker'[v].pc \in Holding =>
              \/ worker[v].pc \in Holding /\ worker'[v].job = worker[v].job
              \/ \A m \in worker'[v].job.cards : CardOk(m)
        BY <2>2, <2>3, <2>5
      <3>2. Pending' => \A m \in summary'.job.cards : CardOk(m)
        BY <2>2, <2>6
      <3>3. QED
        BY <1>0, <1>1, <2>6, <3>1, <3>2, StaysGrows, CardsStep
    <2>8. RequestsOk' /\ TxsOk'
      BY <1>0, <1>1, StaysGrows, CommandsKept
    <2>9. RowsOk' /\ EnrollmentsOk'
      BY <1>0, <1>1 DEF RowsOk, Exists, EnrollmentsOk
    <2>10. QED
      BY <2>5, <2>7, <2>8, <2>9 DEF PInv
  <1>4. QED
    BY <1>2, <1>3

\* CompleteStep: a summary that is done is pending no more.
LEMMA CompleteStep ==
  ASSUME PInv, NEW w \in Workers, Complete(w)
  PROVE  PInv'
  <1>0. RowsOk /\ RequestsOk /\ TxsOk /\ CardsOk /\ WorkersOk /\ EnrollmentsOk
    BY DEF PInv
  <1>1. /\ UNCHANGED <<config, today, enrollment, payment, request, tx, done, answer, posted>>
        /\ Go(w, Idle)
    BY DEF Complete, clientVars, commandVars
  <1>2. /\ WorkersOk' /\ worker'[w] = Idle
        /\ \A v \in Workers : v # w => worker'[v] = worker[v]
    <2>1. IsWorker(Idle) /\ Idle.pc = "idle"
      BY IdleFacts
    <2>2. QED
      BY <1>0, <1>1, <2>1, GoFacts
  <1>3. \/ summary' = summary
        \/ summary' # None /\ IsSummary(summary') /\ summary'.job = None
    <2>1. CASE ~StillPending(worker[w].job)
      BY <2>1 DEF Complete
    <2>2. CASE StillPending(worker[w].job)
      <3>1. IsSummary(summary)
        BY <1>0, <2>2 DEF StillPending, Pending, CardsOk
      <3>2. \E root, digest : summary' = [summary EXCEPT !.root = root, !.digest = digest, !.job = None]
        BY <2>2 DEF Complete
      <3>3. IsSummary(summary') /\ summary'.job = None
        BY <3>1, <3>2 DEF IsSummary
      <3>4. summary' # None
        BY <3>3 DEF IsSummary, None
      <3>5. QED
        BY <3>3, <3>4
    <2>3. QED
      BY <2>1, <2>2
  <1>4. CardsOk'
    <2>1. Pending' => Pending /\ summary'.job = summary.job
      BY <1>3 DEF Pending
    <2>2. summary' # None => IsSummary(summary')
      BY <1>0, <1>3 DEF CardsOk
    <2>3. \A v \in Workers : worker'[v].pc \in Holding =>
            worker[v].pc \in Holding /\ worker'[v].job = worker[v].job
      BY <1>2, IdleFacts DEF Holding
    <2>4. QED
      BY <1>0, <1>1, <2>1, <2>2, <2>3, StaysGrows, CardsStep
  <1>5. RequestsOk' /\ TxsOk'
    BY <1>0, <1>1, StaysGrows, CommandsKept
  <1>6. RowsOk' /\ EnrollmentsOk'
    BY <1>0, <1>1 DEF RowsOk, Exists, EnrollmentsOk
  <1>7. QED
    BY <1>2, <1>4, <1>5, <1>6 DEF PInv

\* PostStep: a pod posts the root, the reply or the cards of its job, reserves the
\* cards, or puts the job down.
LEMMA PostStep ==
  ASSUME PInv, NEW w \in Workers, PostRoot(w) \/ PostReply(w) \/ Reserve(w) \/ PostCards(w)
  PROVE  PInv'
  <1>0. WorkersOk /\ CardsOk
    BY DEF PInv
  <1>1. UNCHANGED <<config, today, enrollment, payment, request, tx, done, answer, summary>>
    BY DEF PostRoot, PostReply, Reserve, PostCards, clientVars, commandVars
  <1>2. worker[w].pc \in Holding /\ IsWorker(worker[w])
    BY <1>0 DEF PostRoot, PostReply, Reserve, PostCards, At, Holding, WorkersOk
  <1>3. \A m \in posted' : m.kind = "card" => m \in posted \/ CardOk(m)
    <2>1. \A m \in worker[w].job.cards : CardOk(m)
      BY <1>0, <1>2 DEF CardsOk
    <2>2. CASE posted' = posted
      BY <2>2
    <2>3. CASE Post(w, "root") \/ Post(w, "reply")
      BY <2>3 DEF Post
    <2>4. CASE \E some \in SUBSET worker[w].job.cards : posted' = posted \cup some
      BY <2>1, <2>4
    <2>5. QED
      BY <2>2, <2>3, <2>4 DEF PostRoot, PostReply, Reserve, PostCards
  <1>4. \/ Go(w, Idle)
        \/ \E pc \in {"reply", "reserve", "cards", "complete"} : Go(w, [worker[w] EXCEPT !.pc = pc])
    BY DEF PostRoot, PostReply, Reserve, PostCards
  <1>5. CASE Go(w, Idle)
    <2>1. IsWorker(Idle) /\ Idle.pc = "idle"
      BY IdleFacts
    <2>2. Idle.pc \notin Holding
      BY <2>1 DEF Holding
    <2>3. QED
      BY <1>1, <1>3, <1>5, <2>1, <2>2, QuietCycle
  <1>6. ASSUME NEW pc \in {"reply", "reserve", "cards", "complete"}, Go(w, [worker[w] EXCEPT !.pc = pc])
        PROVE  PInv'
    <2> DEFINE new == [worker[w] EXCEPT !.pc = pc]
    <2>1. IsWorker(new) /\ new.pc = pc /\ new.job = worker[w].job
      BY <1>2, MoveFacts
    <2>2. pc # "insert"
      BY <1>6
    <2>3. Go(w, new)
      BY <1>6
    <2> HIDE DEF new
    <2>4. QED
      BY <1>1, <1>2, <1>3, <2>1, <2>2, <2>3, QuietCycle
  <1>7. QED
    BY <1>4, <1>5, <1>6

\* LoadStep: a pod reads the date, the enrollments or the target, or fails.
LEMMA LoadStep ==
  ASSUME PInv, NEW w \in Workers,
         LoadHorizon(w) \/ ReadEnrollments(w) \/ LoadTargets(w) \/ Fail(w)
  PROVE  PInv'
  <1>0. WorkersOk /\ EnrollmentsOk
    BY DEF PInv
  <1>1. UNCHANGED <<config, today, enrollment, payment, request, tx, done, answer, summary, posted>>
    BY DEF LoadHorizon, ReadEnrollments, LoadTargets, Fail, clientVars, commandVars, buzzVars
  <1>2. ASSUME NEW STATE new, Go(w, new), IsWorker(new), new.pc \in {"idle", "horizon", "refreshed", "prepare"}
        PROVE  PInv'
    <2>1. new.pc # "insert" /\ new.pc \notin Holding
      BY <1>2 DEF Holding
    <2>2. QED
      BY <1>1, <1>2, <2>1, QuietCycle
  <1>3. CASE LoadHorizon(w)
    <2> DEFINE new == [Idle EXCEPT !.pc = "horizon", !.date = today]
    <2>1. IsWorker(new) /\ new.pc = "horizon"
      BY IdleFacts
    <2>2. Go(w, new)
      BY <1>3 DEF LoadHorizon
    <2> HIDE DEF new
    <2>3. QED
      BY <1>2, <2>1, <2>2
  <1>4. CASE ReadEnrollments(w)
    <2> DEFINE new == [worker[w] EXCEPT !.pc = "insert", !.seen = enrollment]
    <2>1. IsWorker(worker[w])
      BY <1>0 DEF WorkersOk
    <2>2. IsWorker(new) /\ new.pc = "insert" /\ new.seen = enrollment
      BY <2>1 DEF IsWorker
    <2>3. Go(w, new)
      BY <1>4 DEF ReadEnrollments
    <2> HIDE DEF new
    <2>4. new.seen \in [Enrollments -> EnrollmentRows] /\ new.pc \notin Holding
      BY <1>0, <2>2 DEF EnrollmentsOk, Holding
    <2>5. QED
      BY <1>1, <2>2, <2>3, <2>4, QuietCycle
  <1>5. CASE LoadTargets(w)
    <2> DEFINE new == [Idle EXCEPT !.pc = "prepare", !.stream = stream, !.date = today]
    <2>1. IsWorker(new) /\ new.pc = "prepare" /\ IsWorker(Idle) /\ Idle.pc = "idle"
      BY IdleFacts
    <2>2. Go(w, new) \/ Go(w, Idle)
      BY <1>5 DEF LoadTargets
    <2> HIDE DEF new
    <2>3. QED
      BY <1>2, <2>1, <2>2
  <1>6. CASE Fail(w)
    <2> DEFINE new == [Idle EXCEPT !.pc = "refreshed"]
    <2>1. IsWorker(new) /\ new.pc = "refreshed" /\ IsWorker(Idle) /\ Idle.pc = "idle"
      BY IdleFacts
    <2>2. Go(w, new) \/ Go(w, Idle)
      BY <1>6 DEF Fail
    <2> HIDE DEF new
    <2>3. QED
      BY <1>2, <2>1, <2>2
  <1>7. QED
    BY <1>3, <1>4, <1>5, <1>6

-----------------------------------------------------------------------------
(* The theorems.                                                           *)

\* PaymentsStep: every step keeps the invariant.
LEMMA PaymentsStep == PInv /\ [Next]_vars => PInv'
  <1> SUFFICES ASSUME PInv, [Next]_vars PROVE PInv'
    OBVIOUS
  <1>1. ASSUME NEW w \in Workers, Cycle(w) \/ Fail(w) PROVE PInv'
    BY <1>1, LoadStep, MaterializeStep, PrepareStep, PostStep, CompleteStep DEF Cycle
  <1>2. CASE Staff
    BY <1>2, AskStep, ReactStep, OpenStep, CommitStep, LifecycleStep, SettingsStep DEF Staff
  <1>3. CASE Tick
    BY <1>3, SettingsStep
  <1>4. CASE UNCHANGED vars
    <2>1. RowsOk /\ RequestsOk /\ TxsOk /\ CardsOk /\ WorkersOk /\ EnrollmentsOk
      BY DEF PInv
    <2>2. UNCHANGED <<config, today, enrollment, payment, request, tx, done, answer, summary, posted, worker>>
      BY <1>4 DEF vars
    <2>3. RequestsOk' /\ TxsOk' /\ CardsOk'
      BY <2>1, <2>2, StaysGrows, CommandsKept, CardsKept
    <2>4. RowsOk' /\ WorkersOk' /\ EnrollmentsOk'
      BY <2>1, <2>2 DEF RowsOk, Exists, WorkersOk, EnrollmentsOk
    <2>5. QED
      BY <2>3, <2>4 DEF PInv
  <1>5. QED
    BY <1>1, <1>2, <1>3, <1>4 DEF Next

\* PaymentsInit: the invariant holds in an organization that has just enrolled.
LEMMA PaymentsInit == Init => PInv
  <1> SUFFICES ASSUME Init PROVE PInv
    OBVIOUS
  <1>1. TopPrice \in Nat
    BY PaymentsAssumption DEF TopPrice
  <1>2. EnrollmentsOk
    BY <1>1 DEF Init, EnrollmentsOk, EnrollmentRows
  <1>3. \A p \in PaymentIds : enrollment[p[1]].price \in Nat
    BY <1>2 DEF EnrollmentsOk, EnrollmentRows, PaymentIds
  <1>4. \A p \in PaymentIds : payment[p] = NewPayment(enrollment[p[1]].price, 0) \/ payment[p] = None
    BY DEF Init
  <1>5. RowsOk
    BY <1>3, <1>4, NewPaymentFacts DEF Init, RowsOk, Exists
  <1>6. WorkersOk /\ \A w \in Workers : worker[w].pc = "idle"
    BY IdleFacts DEF Init, WorkersOk
  <1>7. CardsOk
    BY <1>6 DEF Init, CardsOk, Pending, Holding
  <1>8. RequestsOk /\ TxsOk
    BY DEF Init, RequestsOk, TxsOk
  <1>9. QED
    BY <1>2, <1>5, <1>6, <1>7, <1>8 DEF PInv

\* PaymentsInductive: PInv is an invariant of the specification.
THEOREM PaymentsInductive == Spec => []PInv
  BY PaymentsInit, PaymentsStep, PTL DEF Spec

\* BalancedLedger: however commands, reactions, retries and refreshes overlap, what
\* is paid stays within what is due, a payment is paid exactly when it is covered, and
\* a cancelled one holds no money (validate_transition, payment_queue.rs).
THEOREM BalancedLedger == Spec => []LedgerBalanced
  <1>1. PInv => LedgerBalanced
    BY DEF PInv, RowsOk, LedgerBalanced, Balanced
  <1>2. QED
    BY <1>1, PaymentsInductive, PTL

\* ReactionConfirms: a reaction records exactly the sum its card shows and settles the
\* payment (confirm_airhop_payment_from_buzz_reaction, payment_queue.rs).
THEOREM ReactionConfirms == Spec => ConfirmsWhatItShows
  <1> DEFINE Confirmed == \A k \in config.reacts : done'[k] # done[k] =>
               LET m == request[k].target
               IN  /\ payment'[m.payment].received = payment[m.payment].received + m.shown
                   /\ payment'[m.payment].status = "paid"
  <1>1. PInv /\ [Next]_vars => [Confirmed]_vars
    <2> SUFFICES ASSUME PInv, Next, NEW k \in config.reacts, done'[k] # done[k]
                 PROVE  LET m == request[k].target
                        IN  /\ payment'[m.payment].received = payment[m.payment].received + m.shown
                            /\ payment'[m.payment].status = "paid"
      BY DEF vars
    <2>1. PICK j \in Keys : Commit(j)
      BY DEF Next, Cycle, Fail, Staff, Tick, LoadHorizon, ReadEnrollments, Materialize, LoadTargets,
         Prepare, PostRoot, PostReply, Reserve, PostCards, Complete, Ask, React, Begin, Rollback,
         Pause, Resume, End, ChangeTariff, Lifecycle, SetStream, Archive, commandVars
    <2>2. k \in Keys
      BY PaymentsAssumption DEF PInv, RequestsOk
    <2>3. done' # done
      OBVIOUS
    <2>4. done' = [done EXCEPT ![j] = payment[request[j].payment].version + 1]
      BY <2>1, <2>3, CommitFacts
    <2>5. j = k
      BY <2>2, <2>4 DEF PInv, TxsOk
    <2>6. LET p == request[k].payment IN
          /\ RequestOk(k) /\ payment[p].version = request[k].version
          /\ request[k].change.kind = "paid" =>
              payment'[p].received = payment[p].received + Owed(payment[p])
              /\ payment'[p].status = "paid"
      BY <2>1, <2>3, <2>5, CommitFacts
    <2>7. QED
      BY <2>6 DEF RequestOk, CardOk
  <1>2. QED
    BY <1>1, PaymentsInductive, PTL DEF Spec, ConfirmsWhatItShows

\* AnsweredRetry: the client of a committed command is never told anything else
\* (insert_pending_command, airhop.rs).
THEOREM AnsweredRetry == Spec => RetryAnswered
  <1> DEFINE Told == \A k \in Keys : done[k] # 0 /\ answer'[k] # answer[k] => answer'[k] = "ok"
  <1>1. PInv /\ [Next]_vars => [Told]_vars
    <2> SUFFICES ASSUME PInv, Next, NEW k \in Keys, done[k] # 0, answer'[k] # answer[k]
                 PROVE  answer'[k] = "ok"
      BY DEF vars
    <2>0. /\ answer = [i \in Keys |-> answer[i]] /\ tx[k] = None
      BY DEF PInv, TxsOk, TxOk
    <2>1. PICK j \in Keys : Begin(j) \/ Commit(j) \/ Rollback(j)
      BY DEF Next, Cycle, Fail, Staff, Tick, LoadHorizon, ReadEnrollments, Materialize, LoadTargets,
         Prepare, PostRoot, PostReply, Reserve, PostCards, Complete, Ask, React,
         Pause, Resume, End, ChangeTariff, Lifecycle, SetStream, Archive, commandVars
    <2>2. \E a : answer' = [answer EXCEPT ![j] = a] \/ answer' = answer
      BY <2>1 DEF Begin, Commit, Rollback
    <2>3. j = k
      BY <2>0, <2>2
    <2>4. Begin(k) /\ Replayed(k)
      BY <2>0, <2>1, <2>3 DEF Commit, Rollback, Replayed
    <2>5. answer' = [answer EXCEPT ![k] = "ok"]
      BY <2>4 DEF Begin
    <2>6. QED
      BY <2>0, <2>5
  <1>2. QED
    BY <1>1, PaymentsInductive, PTL DEF Spec, RetryAnswered

=============================================================================
