--------------------------- MODULE Bookings_proofs ---------------------------
(***************************************************************************)
(* Proofs about Bookings, for any number of lessons, children, bookings,   *)
(* requests, retries, leases and faults.                                   *)
(*                                                                         *)
(* The argument is that of two-phase locking: what a transaction has       *)
(* checked stays true until it commits, because every other transaction    *)
(* that could change it needs a lock that this one holds.  TxInv says what *)
(* a transaction has locked and checked by the items of its plan that it   *)
(* is past; Guarantee says what a commit changes and under which locks.    *)
(* That commands which keep the order of the locks never wait in a circle  *)
(* needs the converse, TakenInv: a transaction holds no row of a statement *)
(* that is still to come.                                                  *)
(***************************************************************************)
EXTENDS Bookings, FiniteSetTheorems, SequenceTheorems, TLAPS

-----------------------------------------------------------------------------
(* The invariant *)

Seens == [group : {"active", "archived"}, enrolled : SUBSET Children, mine : SUBSET Ids]

\* A transaction under way, whatever rows it holds.
IsTx(x) == x \in [pc : Nat, held : {x.held}, seen : Seens]

\* TypeOK, with the types of the transactions and of the callbacks and the
\* assumptions on the configuration.
Typed ==
  /\ config \in Configs
  /\ TypeOK
  /\ tx = [t \in Tries |-> tx[t]]
  /\ \A t \in Tries : Running(t) => IsTx(tx[t])
  /\ faults \in Nat
  /\ callback \in [Leases -> [Callbacks -> [pc : {"idle", "waiting", "answered", "lost"},
                                            outcome : {"none", "delivered", "error"},
                                            answer : {"none", "delivered", "retry", "failed", "denied"}]]]

\* A plan before its n-th item has executed an item, is at an item, is at its end.
Before(kind, n, item) == \E i \in 1..(n - 1) : Plan(kind)[i] = item
At(kind, n, item) == n <= Len(Plan(kind)) /\ Plan(kind)[n] = item
Reached(kind, n, item) == Before(kind, n, item) \/ At(kind, n, item)
Full(kind, n) == n > Len(Plan(kind))

\* t has executed an item of its plan.
Past(t, item) == Before(Op(t).kind, tx[t].pc, item)

\* No two transactions hold the same row, unless both have it for share.
Exclusive ==
  \A t, u \in Tries : t # u /\ Running(t) /\ Running(u) =>
      \A row \in tx[t].held \cap tx[u].held : Shares(t, row) /\ Shares(u, row)

OnBooking == {"decide", "online", "leave", "transfer"}

\* The rows a transaction holds after its items.
Locked(t) ==
  LET held == tx[t].held
      kind == Op(t).kind
  IN  /\ Past(t, "key") => <<"key", t[1]>> \in held
      /\ Past(t, "child") => <<"child", Op(t).child>> \in held
      /\ Past(t, "group") => <<"group", "g">> \in held
      /\ Past(t, "lesson") /\ kind # "online" => <<"lesson", LessonOf(t)>> \in held
      /\ Past(t, "lessons") => \A l \in Lessons : <<"lesson", l>> \in held
      /\ Past(t, "booking") /\ kind \in OnBooking => <<"booking", Op(t).booking>> \in held
      /\ Past(t, "booking") /\ kind = "add" =>
             \A b \in Existing(Child(t), LessonOf(t)) : <<"booking", b>> \in held
      /\ Past(t, "bookings") => \A b \in CancelledWith(LessonOf(t)) : <<"booking", b>> \in held

\* The seat a reservation has counted is free.
SeatFree(t) ==
  LET l == LessonOf(t)
      taken == Booked(l) \cup tx[t].seen.enrolled
  IN  \/ lesson[l].capacity = NoLimit
      \/ Child(t) \in tx[t].seen.enrolled
      \/ Cardinality(taken) < lesson[l].capacity

\* What a reservation has counted.
Counted(t) ==
  /\ tx[t].seen.enrolled \subseteq Enrolled(LessonOf(t))
  /\ tx[t].seen.mine = {} =>
         SeatFree(t) \/ (Op(t).kind = "add" /\ Child(t) \in tx[t].seen.enrolled)
  /\ \A b \in tx[t].seen.mine : booking[b] # None
  /\ Op(t).kind = "add" => \A b \in tx[t].seen.mine : <<"booking", b>> \in tx[t].held

\* What a transaction has checked after its items, as it is now.
Checked(t) ==
  LET kind == Op(t).kind
  IN  /\ kind \in OnBooking => booking[Op(t).booking] # None
      /\ Past(t, "key") => \A u \in done : u[1] # t[1]
      /\ kind \in {"web", "add"} /\ Past(t, "lesson") => lesson[LessonOf(t)].open
      /\ kind = "chat" /\ Past(t, "group") => lesson[LessonOf(t)].open
      /\ kind = "decide" /\ Past(t, "booking") => booking[Op(t).booking].status = "pending"
      /\ kind \in {"online", "transfer"} /\ Past(t, "key") => Live(Op(t).booking)
      /\ Past(t, "count") => Counted(t)
      /\ Past(t, "enrollment") => enrolled[Child(t)] = {} /\ rule[LessonOf(t)] = "kept"
      /\ Past(t, "protect") => \A l \in Lessons : Op(t).rule[l] # "kept" => Enrolled(l) = {}

TxInv == \A t \in Tries : Running(t) => Op(t).kind # "none" /\ Locked(t) /\ Checked(t)

\* The commands that have committed: one per request, and every booking but the
\* initial ones is that of such a command.
DoneInv ==
  /\ \A t, u \in done : t[1] = u[1] => t = u
  /\ \A t \in Tries : booking[t] # None => t \in done

\* A lesson is open only where the schedule produces it.
ScheduleInv ==
  \A l \in Lessons : lesson[l].open =>
      group.status = "active" /\ rule[l] = "kept" /\ exception[l].kind # "cancelled"

\* A completion that was answered was told the receipt of its lease, or that it
\* came too late: then the lease is over.
CallbackOk(k, i) ==
  /\ callback[k][i].pc # "idle" => k \in DOMAIN lease
  /\ callback[k][i].pc = "waiting" => callback[k][i].outcome # "none"
  /\ callback[k][i].pc = "answered" =>
         \/ receipt[k] # "none" /\ callback[k][i].answer = receipt[k]
         \/ receipt[k] = "none" /\ callback[k][i].answer = "denied" /\ notice[lease[k]].lease # k

\* Leases and receipts: a notice that is leased is open, and a lease whose
\* completion was recorded is over.
LeaseInv ==
  /\ Len(lease) <= MaxLeases
  /\ \A b \in Ids : notice[b].lease # 0 =>
         notice[b].state = "open" /\ notice[b].lease \in DOMAIN lease /\ lease[notice[b].lease] = b
  /\ \A k \in Leases : receipt[k] # "none" => k \in DOMAIN lease /\ notice[lease[k]].lease # k
  /\ \A k \in Leases, i \in Callbacks : CallbackOk(k, i)

Failures(b) == {k \in Receipts(b) : receipt[k] # "delivered"}
Deliveries(b) == {k \in Receipts(b) : receipt[k] = "delivered"}

\* The attempts of a notice are its receipts; a booking that waits for a decision
\* has no notice yet.
NoticeOk(b) ==
  /\ notice[b].state # "none" => booking[b] # None /\ booking[b].status # "pending"
  /\ notice[b].state \in {"none", "open"} =>
         /\ Deliveries(b) = {}
         /\ Cardinality(Failures(b)) = notice[b].attempts
         /\ notice[b].attempts < MaxAttempts
  /\ notice[b].state = "failed" =>
         /\ Deliveries(b) = {}
         /\ Cardinality(Failures(b)) = MaxAttempts
         /\ notice[b].call
  /\ notice[b].state = "published" =>
         /\ Deliveries(b) # {}
         /\ Cardinality(Failures(b)) < MaxAttempts

NoticeInv == \A b \in Ids : NoticeOk(b)

\* The parts that are not about transactions under way.
RowsInv ==
  DoneInv /\ ScheduleInv /\ CancelledEmpty /\ SelectionKept /\ LeaseInv /\ NoticeInv

IInv == Typed /\ Exclusive /\ TxInv /\ RowsInv

-----------------------------------------------------------------------------
(* Plans *)

\* A row or a transaction is not the value None that stands for its absence.
LEMMA NotNone ==
  ASSUME NEW x, NEW a, NEW b, NEW c, NEW d
  PROVE  /\ [pc |-> a, held |-> b, seen |-> c] # None
         /\ [child |-> a, lesson |-> b, status |-> c, transfer |-> d] # None
         /\ IsTx(x) => x # None
         /\ x \in BookingRows => x # None
  BY DEF None, IsTx, BookingRows

\* The statements of each command, in the order of the code, written out.
LEMMA Plans ==
  /\ Plan("web") = <<"key", "snapshot", "lesson", "count">>
  /\ Plan("chat") = <<"key", "child", "lesson", "group", "count">>
  /\ Plan("add") = <<"key", "child", "lesson", "booking", "count">>
  /\ Plan("cancel") = <<"key", "group", "lesson", "lessons", "bookings">>
  /\ Plan("override") = <<"key", "group", "lesson", "lessons">>
  /\ Plan("restore") = <<"key", "group", "lesson", "lessons">>
  /\ Plan("enroll") = <<"key", "child", "group", "enrollment">>
  /\ Plan("trial") = <<"key", "lesson", "booking", "child", "group", "enrollment">>
  /\ Plan("group") = <<"key", "group", "protect", "lessons">>
  /\ Plan("decide") = <<"key", "booking">>
  /\ Plan("online") = <<"booking", "key", "snapshot", "lesson", "recheck">>
  /\ Plan("leave") = <<"booking", "key">>
  /\ Plan("transfer") = <<"booking", "key">>
<1>1. Plan("web") = <<"key", "snapshot", "lesson", "count">>
  BY DEF Plan, ReservePlan
<1>2. Plan("chat") = <<"key", "child", "lesson", "group", "count">>
  BY DEF Plan, ReservePlan
<1>3. Plan("add") = <<"key", "child", "lesson", "booking", "count">>
  BY DEF Plan, ReservePlan
<1>4. Plan("cancel") = <<"key", "group", "lesson", "lessons", "bookings">>
  <2> DEFINE four == <<"key", "group", "lesson", "lessons">>
  <2>1. Plan("cancel") = four \o <<"bookings">>
    BY DEF Plan, LessonPlan
  <2> DEFINE S == {"key", "group", "lesson", "lessons", "bookings"}
  <2>2. four \in Seq(S) /\ "bookings" \in S
    OBVIOUS
  <2> HIDE DEF four, S
  <2>3. four \o <<"bookings">> = Append(four, "bookings")
    BY <2>2, AppendIsConcat
  <2> USE DEF four
  <2> QED BY <2>1, <2>3
<1>5. Plan("override") = <<"key", "group", "lesson", "lessons">>
  BY DEF Plan, LessonPlan
<1>6. Plan("restore") = <<"key", "group", "lesson", "lessons">>
  BY DEF Plan, LessonPlan
<1>7. Plan("enroll") = <<"key", "child", "group", "enrollment">>
  BY DEF Plan, EnrollPlan
<1>8. Plan("trial") = <<"key", "lesson", "booking", "child", "group", "enrollment">>
  BY DEF Plan, EnrollPlan
<1>9. Plan("group") = <<"key", "group", "protect", "lessons">>
  BY DEF Plan
<1>10. Plan("decide") = <<"key", "booking">>
  BY DEF Plan
<1>11. Plan("online") = <<"booking", "key", "snapshot", "lesson", "recheck">>
  BY DEF Plan
<1>12. Plan("leave") = <<"booking", "key">> /\ Plan("transfer") = <<"booking", "key">>
  BY DEF Plan
<1> QED BY <1>1, <1>2, <1>3, <1>4, <1>5, <1>6, <1>7, <1>8, <1>9, <1>10, <1>11, <1>12

\* The order of the statements in every command: what each one comes after, and
\* which commands have it (a seat is counted under the lock of the lesson, an
\* enrollment is made under those of the child and the group).
LEMMA PlanOrder ==
  ASSUME NEW kind \in Kinds \ {"none"}, NEW n \in 1..(Len(Plan(kind)) + 1)
  PROVE  /\ Reached(kind, n, "count") =>
                /\ kind \in {"web", "chat", "add"}
                /\ Before(kind, n, "key") /\ Before(kind, n, "lesson")
                /\ kind = "chat" => Before(kind, n, "group")
                /\ kind = "add" => Before(kind, n, "booking")
         /\ Reached(kind, n, "group") /\ kind = "chat" => Before(kind, n, "lesson")
         /\ Reached(kind, n, "booking") => kind \in OnBooking \cup {"add", "trial"}
         /\ Reached(kind, n, "booking") /\ kind = "add" => Before(kind, n, "lesson")
         /\ Reached(kind, n, "key") /\ kind \in {"online", "leave", "transfer"} =>
                Before(kind, n, "booking")
         /\ Reached(kind, n, "enrollment") =>
                kind \in {"enroll", "trial"} /\ Before(kind, n, "child") /\ Before(kind, n, "group")
         /\ Reached(kind, n, "protect") => kind = "group" /\ Before(kind, n, "group")
         /\ Reached(kind, n, "lesson") => kind \in OnLesson \cup {"online"}
         /\ Reached(kind, n, "child") => kind \in {"chat", "add", "enroll", "trial"}
         /\ Reached(kind, n, "bookings") => kind = "cancel" /\ Before(kind, n, "lesson")
         /\ Full(kind, n) =>
                /\ Before(kind, n, "key")
                /\ kind \in {"web", "chat", "add"} => Before(kind, n, "count")
                /\ kind \in {"cancel", "override", "restore", "group"} =>
                       Before(kind, n, "group") /\ Before(kind, n, "lessons")
                /\ kind = "cancel" => Before(kind, n, "bookings")
                /\ kind = "group" => Before(kind, n, "protect")
                /\ kind \in {"enroll", "trial"} => Before(kind, n, "enrollment")
                /\ kind \in OnBooking => Before(kind, n, "booking")
<1> USE DEF Reached, OnBooking, OnLesson
<1>1. CASE kind = "web"
  <2>1. Plan(kind) = <<"key", "snapshot", "lesson", "count">>
    BY <1>1, Plans
  <2>2. Len(Plan(kind)) = 4 /\ n \in 1..5
    BY <2>1
  <2>3. Plan(kind)[1] = "key" /\ Plan(kind)[2] = "snapshot" /\ Plan(kind)[3] = "lesson" /\ Plan(kind)[4] = "count"
    BY <2>1
  <2> QED BY ONLY <1>1, <2>2, <2>3 DEF Before, At, Full
<1>2. CASE kind = "chat"
  <2>1. Plan(kind) = <<"key", "child", "lesson", "group", "count">>
    BY <1>2, Plans
  <2>2. Len(Plan(kind)) = 5 /\ n \in 1..6
    BY <2>1
  <2>3. Plan(kind)[1] = "key" /\ Plan(kind)[2] = "child" /\ Plan(kind)[3] = "lesson" /\ Plan(kind)[4] = "group" /\ Plan(kind)[5] = "count"
    BY <2>1
  <2> QED BY ONLY <1>2, <2>2, <2>3 DEF Before, At, Full
<1>3. CASE kind = "add"
  <2>1. Plan(kind) = <<"key", "child", "lesson", "booking", "count">>
    BY <1>3, Plans
  <2>2. Len(Plan(kind)) = 5 /\ n \in 1..6
    BY <2>1
  <2>3. Plan(kind)[1] = "key" /\ Plan(kind)[2] = "child" /\ Plan(kind)[3] = "lesson" /\ Plan(kind)[4] = "booking" /\ Plan(kind)[5] = "count"
    BY <2>1
  <2> QED BY ONLY <1>3, <2>2, <2>3 DEF Before, At, Full
<1>4. CASE kind = "cancel"
  <2>1. Plan(kind) = <<"key", "group", "lesson", "lessons", "bookings">>
    BY <1>4, Plans
  <2>2. Len(Plan(kind)) = 5 /\ n \in 1..6
    BY <2>1
  <2>3. Plan(kind)[1] = "key" /\ Plan(kind)[2] = "group" /\ Plan(kind)[3] = "lesson" /\ Plan(kind)[4] = "lessons" /\ Plan(kind)[5] = "bookings"
    BY <2>1
  <2> QED BY ONLY <1>4, <2>2, <2>3 DEF Before, At, Full
<1>5. CASE kind = "override"
  <2>1. Plan(kind) = <<"key", "group", "lesson", "lessons">>
    BY <1>5, Plans
  <2>2. Len(Plan(kind)) = 4 /\ n \in 1..5
    BY <2>1
  <2>3. Plan(kind)[1] = "key" /\ Plan(kind)[2] = "group" /\ Plan(kind)[3] = "lesson" /\ Plan(kind)[4] = "lessons"
    BY <2>1
  <2> QED BY ONLY <1>5, <2>2, <2>3 DEF Before, At, Full
<1>6. CASE kind = "restore"
  <2>1. Plan(kind) = <<"key", "group", "lesson", "lessons">>
    BY <1>6, Plans
  <2>2. Len(Plan(kind)) = 4 /\ n \in 1..5
    BY <2>1
  <2>3. Plan(kind)[1] = "key" /\ Plan(kind)[2] = "group" /\ Plan(kind)[3] = "lesson" /\ Plan(kind)[4] = "lessons"
    BY <2>1
  <2> QED BY ONLY <1>6, <2>2, <2>3 DEF Before, At, Full
<1>7. CASE kind = "enroll"
  <2>1. Plan(kind) = <<"key", "child", "group", "enrollment">>
    BY <1>7, Plans
  <2>2. Len(Plan(kind)) = 4 /\ n \in 1..5
    BY <2>1
  <2>3. Plan(kind)[1] = "key" /\ Plan(kind)[2] = "child" /\ Plan(kind)[3] = "group" /\ Plan(kind)[4] = "enrollment"
    BY <2>1
  <2> QED BY ONLY <1>7, <2>2, <2>3 DEF Before, At, Full
<1>8. CASE kind = "trial"
  <2>1. Plan(kind) = <<"key", "lesson", "booking", "child", "group", "enrollment">>
    BY <1>8, Plans
  <2>2. Len(Plan(kind)) = 6 /\ n \in 1..7
    BY <2>1
  <2>3. Plan(kind)[1] = "key" /\ Plan(kind)[2] = "lesson" /\ Plan(kind)[3] = "booking" /\ Plan(kind)[4] = "child" /\ Plan(kind)[5] = "group" /\ Plan(kind)[6] = "enrollment"
    BY <2>1
  <2> QED BY ONLY <1>8, <2>2, <2>3 DEF Before, At, Full
<1>9. CASE kind = "group"
  <2>1. Plan(kind) = <<"key", "group", "protect", "lessons">>
    BY <1>9, Plans
  <2>2. Len(Plan(kind)) = 4 /\ n \in 1..5
    BY <2>1
  <2>3. Plan(kind)[1] = "key" /\ Plan(kind)[2] = "group" /\ Plan(kind)[3] = "protect" /\ Plan(kind)[4] = "lessons"
    BY <2>1
  <2> QED BY ONLY <1>9, <2>2, <2>3 DEF Before, At, Full
<1>10. CASE kind = "decide"
  <2>1. Plan(kind) = <<"key", "booking">>
    BY <1>10, Plans
  <2>2. Len(Plan(kind)) = 2 /\ n \in 1..3
    BY <2>1
  <2>3. Plan(kind)[1] = "key" /\ Plan(kind)[2] = "booking"
    BY <2>1
  <2> QED BY ONLY <1>10, <2>2, <2>3 DEF Before, At, Full
<1>11. CASE kind = "online"
  <2>1. Plan(kind) = <<"booking", "key", "snapshot", "lesson", "recheck">>
    BY <1>11, Plans
  <2>2. Len(Plan(kind)) = 5 /\ n \in 1..6
    BY <2>1
  <2>3. Plan(kind)[1] = "booking" /\ Plan(kind)[2] = "key" /\ Plan(kind)[3] = "snapshot" /\ Plan(kind)[4] = "lesson" /\ Plan(kind)[5] = "recheck"
    BY <2>1
  <2> QED BY ONLY <1>11, <2>2, <2>3 DEF Before, At, Full
<1>12. CASE kind = "leave"
  <2>1. Plan(kind) = <<"booking", "key">>
    BY <1>12, Plans
  <2>2. Len(Plan(kind)) = 2 /\ n \in 1..3
    BY <2>1
  <2>3. Plan(kind)[1] = "booking" /\ Plan(kind)[2] = "key"
    BY <2>1
  <2> QED BY ONLY <1>12, <2>2, <2>3 DEF Before, At, Full
<1>13. CASE kind = "transfer"
  <2>1. Plan(kind) = <<"booking", "key">>
    BY <1>13, Plans
  <2>2. Len(Plan(kind)) = 2 /\ n \in 1..3
    BY <2>1
  <2>3. Plan(kind)[1] = "booking" /\ Plan(kind)[2] = "key"
    BY <2>1
  <2> QED BY ONLY <1>13, <2>2, <2>3 DEF Before, At, Full
<1> HIDE DEF Reached, OnBooking, OnLesson
<1> QED BY <1>1, <1>2, <1>3, <1>4, <1>5, <1>6, <1>7, <1>8, <1>9, <1>10, <1>11, <1>12, <1>13 DEF Kinds

\* One statement further, a command has executed that statement and those before.
LEMMA PlanStep ==
  ASSUME NEW kind, NEW n \in Nat \ {0}, NEW item
  PROVE  Before(kind, n + 1, item) <=> Before(kind, n, item) \/ Plan(kind)[n] = item
<1>1. \A i : i \in 1..((n + 1) - 1) <=> i \in 1..(n - 1) \/ i = n
  OBVIOUS
<1> QED BY <1>1 DEF Before

\* A command that begins has executed no statement.
LEMMA PlanStart ==
  ASSUME NEW kind, NEW item
  PROVE  ~ Before(kind, 1, item)
  BY DEF Before

\* A transaction is of a known request, carries out a known command, and a decision
\* of the staff confirms or rejects.
LEMMA OpType ==
  ASSUME config \in Configs, NEW t \in Tries
  PROVE  /\ Op(t) \in Ops /\ t[1] \in Requests /\ t[2] \in 1..MaxTries
         /\ Op(t).kind = "decide" => Op(t).answer # "pending"
         /\ t \in Ids /\ t \in Applicants
<1>1. t[1] \in Requests /\ t[2] \in 1..MaxTries
  BY DEF Tries
<1> QED BY <1>1, BookingsAssumption DEF Op, Ids, Applicants

\* A transaction under way is at a statement of its plan, or at its end.
LEMMA Order ==
  ASSUME Typed, NEW t \in Tries, Running(t), Op(t).kind # "none"
  PROVE  /\ Op(t).kind \in Kinds \ {"none"}
         /\ tx[t].pc \in 1..(Len(Plan(Op(t).kind)) + 1)
         /\ \A item : AtItem(t) /\ Item(t) = item <=> At(Op(t).kind, tx[t].pc, item)
  BY OpType DEF Typed, TypeOK, AtItem, Item, At, Ops

-----------------------------------------------------------------------------
(* What a commit changes, and under which locks *)

\* u holds a row, and does not share it.
Owns(u, row) == row \in tx[u].held /\ ~ Shares(u, row)

\* The commit of u inserts its booking b, under the lock of the lesson.
BookingInserted(u, b) ==
  /\ b = u /\ booking[b] = None /\ booking'[b] # None
  /\ booking'[b].child = Child(u) /\ booking'[b].lesson = LessonOf(u)
  /\ Owns(u, <<"lesson", LessonOf(u)>>)

\* The commit of u changes the booking b under its lock, and gives it no seat.
BookingChanged(u, b) ==
  /\ booking[b] # None /\ booking'[b] # None
  /\ booking'[b].child = booking[b].child /\ booking'[b].lesson = booking[b].lesson
  /\ Owns(u, <<"booking", b>>)
  /\ Live(b)' => Live(b)
  /\ booking'[b].status = "pending" => booking[b].status = "pending"

\* What the commit of u may change, and the locks it owns for that.
Guarantee(u) ==
  /\ config' = config
  /\ done' = done \cup {u} /\ Owns(u, <<"key", u[1]>>)
  /\ \A b \in Ids : booking'[b] = booking[b] \/ BookingInserted(u, b) \/ BookingChanged(u, b)
  /\ \/ UNCHANGED sourceVars
     \/ Owns(u, <<"group", "g">>) /\ \A l \in Lessons : Owns(u, <<"lesson", l>>)
  /\ \/ UNCHANGED enrolled
     \/ \E c \in Children :
            /\ enrolled[c] = {} /\ Owns(u, <<"child", c>>) /\ Owns(u, <<"group", "g">>)
            /\ \A x \in Children : x # c => enrolled'[x] = enrolled[x]
            /\ enrolled'[c] = {LessonOf(u)} /\ rule[LessonOf(u)] = "kept"

\* A row that a transaction holds is not owned by another one: row locks exclude.
LEMMA OthersLock ==
  ASSUME Exclusive, NEW t \in Tries, NEW u \in Tries, t # u, Running(t), Running(u), NEW row,
         row \in tx[t].held
  PROVE  ~ Owns(u, row)
  BY DEF Exclusive, Owns

\* A lesson has finitely many participants, so their count is a number.
LEMMA BookedFinite ==
  ASSUME Typed, NEW l \in Lessons, NEW S \in SUBSET Children
  PROVE  /\ Booked(l) \subseteq Applicants
         /\ IsFiniteSet(Applicants)
         /\ IsFiniteSet(Booked(l) \cup S)
         /\ Cardinality(Booked(l) \cup S) \in Nat
<1>1. IsFiniteSet(1..MaxTries)
  BY FS_Interval, BookingsAssumption
<1>2. IsFiniteSet(Tries)
  BY <1>1, FS_Product, BookingsAssumption DEF Tries
<1>3. IsFiniteSet(Applicants)
  BY <1>2, FS_Union, BookingsAssumption DEF Applicants
<1>4. \A b \in Ids : Live(b) => booking[b].child \in Applicants
  BY DEF Typed, TypeOK, Live, BookingRows
<1>5. Booked(l) \subseteq Applicants
  BY <1>4 DEF Booked
<1>6. (Booked(l) \cup S) \in SUBSET Applicants
  BY <1>5 DEF Applicants
<1>7. IsFiniteSet(Booked(l) \cup S)
  BY <1>3, <1>6, FS_Subset
<1> QED BY <1>3, <1>5, <1>7, FS_CardinalityType

\* With fewer bookings there are no more participants to count.
LEMMA FewerBooked ==
  ASSUME Typed, NEW l \in Lessons, NEW S \in SUBSET Children, NEW B, B \subseteq Booked(l)
  PROVE  IsFiniteSet(B \cup S) /\ Cardinality(B \cup S) <= Cardinality(Booked(l) \cup S)
<1>1. (B \cup S) \in SUBSET (Booked(l) \cup S)
  OBVIOUS
<1> QED BY <1>1, BookedFinite, FS_Subset

\* What another transaction has locked and checked stays so when u commits.
LEMMA Stable ==
  ASSUME Typed, Exclusive, TxInv, NEW u \in Tries, Running(u), Guarantee(u),
         tx' = [tx EXCEPT ![u] = None],
         NEW t \in Tries, t # u, Running(t)
  PROVE  Op(t)'.kind # "none" /\ Locked(t)' /\ Checked(t)'
<1> DEFINE kind == Op(t).kind
           held == tx[t].held
<1>1. /\ Op(t)' = Op(t) /\ Child(t)' = Child(t) /\ tx'[t] = tx[t]
      /\ \A item : Past(t, item)' <=> Past(t, item)
  BY DEF Op, Child, Guarantee, Past, Typed
<1>2. Op(t) \in Ops /\ kind # "none" /\ Locked(t) /\ Checked(t)
  BY OpType DEF TxInv, Typed
<1>3. /\ Past(t, "count") =>
             /\ kind \in {"web", "chat", "add"}
             /\ Past(t, "key") /\ Past(t, "lesson")
             /\ kind = "add" => Past(t, "booking")
      /\ Past(t, "group") /\ kind = "chat" => Past(t, "lesson")
      /\ Past(t, "booking") => kind \in OnBooking \cup {"add", "trial"}
      /\ Past(t, "booking") /\ kind = "add" => Past(t, "lesson")
      /\ Past(t, "key") /\ kind \in {"online", "leave", "transfer"} => Past(t, "booking")
      /\ Past(t, "enrollment") =>
             kind \in {"enroll", "trial"} /\ Past(t, "child") /\ Past(t, "group")
      /\ Past(t, "protect") => kind = "group" /\ Past(t, "group")
      /\ Past(t, "lesson") => kind \in OnLesson \cup {"online"}
      /\ Past(t, "bookings") => kind = "cancel" /\ Past(t, "lesson")
  BY <1>2, Order, PlanOrder DEF Past, Reached
<1>4. \A row \in held : ~ Owns(u, row)
  BY OthersLock
<1>5. \A b \in Ids : booking[b] # None => booking'[b] # None /\ booking'[b].lesson = booking[b].lesson
  BY DEF Guarantee, BookingInserted, BookingChanged
<1>6. kind \in OnBooking => Op(t).booking \in Ids /\ booking[Op(t).booking] # None
  BY <1>2 DEF Checked, Ops
<1>7. kind # "group" => LessonOf(t)' = LessonOf(t)
  <2>1. kind \in OnLesson => LessonOf(t)' = LessonOf(t)
    BY <1>1 DEF LessonOf
  <2>2. kind \in OnBooking => LessonOf(t)' = LessonOf(t)
    BY <1>1, <1>5, <1>6 DEF LessonOf, OnBooking, OnLesson
  <2>3. kind \in Kinds
    BY <1>2 DEF Ops
  <2> QED BY <1>2, <2>1, <2>2, <2>3 DEF Kinds, OnBooking, OnLesson
<1>8. kind \in OnLesson => LessonOf(t) \in Lessons
  BY <1>2 DEF Ops, LessonOf
<1>9. kind \in OnLesson /\ Past(t, "lesson") =>
          /\ lesson'[LessonOf(t)] = lesson[LessonOf(t)]
          /\ \A b \in Ids : Live(b)' /\ booking'[b].lesson = LessonOf(t) =>
                 Live(b) /\ booking[b].lesson = LessonOf(t) /\ booking'[b].child = booking[b].child
  <2> SUFFICES ASSUME kind \in OnLesson, Past(t, "lesson")
               PROVE  /\ lesson'[LessonOf(t)] = lesson[LessonOf(t)]
                      /\ \A b \in Ids : Live(b)' /\ booking'[b].lesson = LessonOf(t) =>
                             Live(b) /\ booking[b].lesson = LessonOf(t) /\ booking'[b].child = booking[b].child
    OBVIOUS
  <2>1. <<"lesson", LessonOf(t)>> \in held
    BY <1>2 DEF Locked, OnLesson
  <2>2. ~ Owns(u, <<"lesson", LessonOf(t)>>)
    BY <2>1, <1>4
  <2>3. lesson'[LessonOf(t)] = lesson[LessonOf(t)]
    BY <2>2, <1>8 DEF Guarantee, sourceVars
  <2>4. ASSUME NEW b \in Ids, Live(b)', booking'[b].lesson = LessonOf(t)
        PROVE  Live(b) /\ booking[b].lesson = LessonOf(t) /\ booking'[b].child = booking[b].child
    BY <2>2, <2>4 DEF Guarantee, BookingInserted, BookingChanged, Live
  <2> QED BY <2>3, <2>4
<1>10. Locked(t)'
  <2>1. Past(t, "booking") /\ kind = "add" =>
            \A b \in Existing(Child(t), LessonOf(t))' : <<"booking", b>> \in held
    BY <1>1, <1>2, <1>3, <1>7, <1>9 DEF Locked, Existing, OnLesson
  <2>2. Past(t, "bookings") => \A b \in CancelledWith(LessonOf(t))' : <<"booking", b>> \in held
    BY <1>1, <1>2, <1>3, <1>7, <1>9 DEF Locked, CancelledWith, OnLesson
  <2>3. Past(t, "lesson") => kind # "group"
    BY <1>3 DEF OnLesson
  <2> HIDE DEF kind, held
  <2> QED BY <1>1, <1>2, <1>7, <2>1, <2>2, <2>3 DEF Locked, kind, held
<1>11. Checked(t)'
  <2>1. kind \in OnBooking => booking'[Op(t).booking] # None
    BY <1>5, <1>6
  <2>2. Past(t, "key") => \A x \in done' : x[1] # t[1]
    BY <1>2, <1>4 DEF Locked, Checked, Guarantee
  <2>3. Past(t, "lesson") /\ kind \in {"web", "add", "chat"} =>
            lesson'[LessonOf(t)] = lesson[LessonOf(t)] /\ LessonOf(t)' = LessonOf(t)
    BY <1>7, <1>9 DEF OnLesson
  <2>4. Past(t, "booking") /\ kind \in OnBooking => booking'[Op(t).booking] = booking[Op(t).booking]
    BY <1>2, <1>4, <1>6 DEF Locked, Guarantee, BookingInserted, BookingChanged
  <2>5. Past(t, "count") => Counted(t)'
    <3> SUFFICES ASSUME Past(t, "count") PROVE Counted(t)'
      OBVIOUS
    <3>1. Counted(t) /\ kind \in OnLesson /\ Past(t, "lesson") /\ LessonOf(t)' = LessonOf(t)
      BY <1>2, <1>3, <1>7 DEF Checked, OnLesson
    <3>2. LessonOf(t) \in Lessons /\ IsTx(tx[t]) /\ tx[t].seen \in Seens
      BY <1>8, <3>1 DEF Typed, IsTx
    <3>3. Enrolled(LessonOf(t)) \subseteq Enrolled(LessonOf(t))'
      <4>1. \A c \in Children : enrolled[c] \subseteq enrolled'[c]
        BY DEF Guarantee
      <4> QED BY <3>1, <4>1 DEF Enrolled
    <3>4. Booked(LessonOf(t))' \subseteq Booked(LessonOf(t))
      BY <1>9, <3>1 DEF Booked
    <3>5. SeatFree(t) => SeatFree(t)'
      <4> DEFINE S == tx[t].seen.enrolled
                 B == Booked(LessonOf(t))'
                 C == Booked(LessonOf(t))
                 cap == lesson[LessonOf(t)].capacity
      <4>1. S \in SUBSET Children
        BY <3>2 DEF Seens
      <4>2. /\ Cardinality(B \cup S) <= Cardinality(C \cup S)
            /\ IsFiniteSet(B \cup S) /\ IsFiniteSet(C \cup S)
        BY <3>2, <3>4, <4>1, FewerBooked, BookedFinite
      <4>3. Cardinality(B \cup S) \in Nat /\ Cardinality(C \cup S) \in Nat
        BY <4>2, FS_CardinalityType
      <4>4. cap \in Nat \cup {NoLimit}
        BY <3>2, BookingsAssumption DEF Typed, TypeOK
      <4>5. lesson'[LessonOf(t)].capacity = cap
        BY <1>9, <3>1
      <4> HIDE DEF S, B, C, cap
      <4>6. Cardinality(C \cup S) < cap => Cardinality(B \cup S) < cap
        BY <4>2, <4>3, <4>4 DEF NoLimit
      <4> USE DEF S, B, C, cap
      <4> QED BY <1>1, <3>1, <4>5, <4>6 DEF SeatFree
    <3>6. tx[t].seen.mine \subseteq Ids
      BY <3>2 DEF Seens
    <3> QED BY <1>1, <1>5, <3>1, <3>3, <3>5, <3>6 DEF Counted
  <2>6. Past(t, "enrollment") => enrolled'[Child(t)] = {} /\ rule'[LessonOf(t)] = "kept" /\ LessonOf(t)' = LessonOf(t)
    <3> SUFFICES ASSUME Past(t, "enrollment")
                 PROVE  enrolled'[Child(t)] = {} /\ rule'[LessonOf(t)] = "kept" /\ LessonOf(t)' = LessonOf(t)
      OBVIOUS
    <3>1. kind \in {"enroll", "trial"} /\ Child(t) = Op(t).child /\ Op(t).child \in Children
      BY <1>2, <1>3 DEF Child, Ops
    <3>2. ~ Owns(u, <<"child", Op(t).child>>) /\ ~ Owns(u, <<"group", "g">>)
      BY <1>2, <1>3, <1>4 DEF Locked
    <3>3. enrolled[Child(t)] = {} /\ rule[LessonOf(t)] = "kept"
      BY <1>2 DEF Checked
    <3> QED BY <1>7, <3>1, <3>2, <3>3 DEF Guarantee, sourceVars
  <2>7. Past(t, "protect") => \A l \in Lessons : Op(t).rule[l] # "kept" => Enrolled(l)' = {}
    <3> SUFFICES ASSUME Past(t, "protect")
                 PROVE  \A l \in Lessons : Op(t).rule[l] # "kept" => Enrolled(l)' = {}
      OBVIOUS
    <3>1. ~ Owns(u, <<"group", "g">>)
      BY <1>2, <1>3, <1>4 DEF Locked
    <3>2. UNCHANGED enrolled
      BY <3>1 DEF Guarantee
    <3> QED BY <1>2, <3>2 DEF Checked, Enrolled
  <2>8. (kind = "chat" /\ Past(t, "group")) => lesson'[LessonOf(t)].open /\ LessonOf(t)' = LessonOf(t)
    BY <1>2, <1>3, <2>3 DEF Checked
  <2>9. kind \in {"web", "add"} /\ Past(t, "lesson") => lesson'[LessonOf(t)].open /\ LessonOf(t)' = LessonOf(t)
    BY <1>2, <2>3 DEF Checked
  <2>10. kind = "decide" /\ Past(t, "booking") => booking'[Op(t).booking].status = "pending"
    BY <1>2, <2>4 DEF Checked, OnBooking
  <2>11. kind \in {"online", "transfer"} /\ Past(t, "key") => Live(Op(t).booking)'
    BY <1>1, <1>2, <1>3, <2>4 DEF Checked, OnBooking, Live
  <2> HIDE DEF kind, held
  <2> QED BY <1>1, <2>1, <2>2, <2>5, <2>6, <2>7, <2>8, <2>9, <2>10, <2>11 DEF Checked, kind
<1> QED BY <1>1, <1>2, <1>10, <1>11

-----------------------------------------------------------------------------
(* Steps before the commit *)

\* The rows of the database that transactions read stay as they are.
Unmoved == UNCHANGED <<config, sourceVars, booking, enrolled, done>>

\* What depends on the rows of the database alone stays as it is while they do.
LEMMA Frame ==
  ASSUME Unmoved
  PROVE  /\ \A t : Op(t)' = Op(t) /\ Child(t)' = Child(t) /\ LessonOf(t)' = LessonOf(t)
         /\ \A b : Live(b)' <=> Live(b)
         /\ \A c, l : Existing(c, l)' = Existing(c, l)
         /\ \A l : Booked(l)' = Booked(l) /\ Enrolled(l)' = Enrolled(l) /\ CancelledWith(l)' = CancelledWith(l)
<1>1. \A t : Op(t)' = Op(t) /\ Child(t)' = Child(t) /\ LessonOf(t)' = LessonOf(t)
  BY DEF Unmoved, Op, Child, LessonOf
<1>2. \A b : Live(b)' <=> Live(b)
  BY DEF Unmoved, Live
<1>3. \A c, l : Existing(c, l)' = Existing(c, l)
  BY DEF Unmoved, Existing, Live
<1>4. \A l : Booked(l)' = Booked(l) /\ Enrolled(l)' = Enrolled(l) /\ CancelledWith(l)' = CancelledWith(l)
  BY DEF Unmoved, Booked, Enrolled, CancelledWith, Live
<1> QED BY <1>1, <1>2, <1>3, <1>4

\* A transaction that does not move keeps its locks and checks while the rows stay
\* as they are.
LEMMA FrameTx ==
  ASSUME Unmoved, NEW t \in Tries, tx'[t] = tx[t]
  PROVE  /\ Running(t)' <=> Running(t)
         /\ (Op(t).kind # "none" /\ Locked(t) /\ Checked(t)) =>
                (Op(t)'.kind # "none" /\ Locked(t)' /\ Checked(t)')
<1>1. Running(t)' <=> Running(t)
  BY DEF Running
<1>2. \A item : Past(t, item)' <=> Past(t, item)
  BY Frame DEF Past
<1>3. Locked(t) => Locked(t)'
  BY Frame, <1>2 DEF Locked
<1>4. SeatFree(t) => SeatFree(t)'
  BY Frame DEF SeatFree, Unmoved, sourceVars
<1>5. Counted(t) => Counted(t)'
  BY Frame, <1>4 DEF Counted, Unmoved
<1>6. Checked(t) => Checked(t)'
  BY Frame, <1>2, <1>5 DEF Checked, Unmoved, sourceVars
<1> QED BY <1>1, <1>3, <1>6, Frame

\* t alone goes on.
LEMMA OwnStep ==
  ASSUME TxInv, Typed, Unmoved, NEW t \in Tries, NEW x, tx' = [tx EXCEPT ![t] = x],
         x # None => Op(t)'.kind # "none" /\ Locked(t)' /\ Checked(t)'
  PROVE  TxInv'
<1> SUFFICES ASSUME NEW s \in Tries, Running(s)' PROVE Op(s)'.kind # "none" /\ Locked(s)' /\ Checked(s)'
  BY DEF TxInv
<1>1. CASE s = t
  BY <1>1 DEF Running, Typed
<1>2. CASE s # t
  <2>1. tx'[s] = tx[s]
    BY <1>2 DEF Typed
  <2> QED BY <2>1, FrameTx DEF TxInv
<1> QED BY <1>1, <1>2

\* A lock taken by a statement that still waits for others leaves what the
\* transaction has locked and checked as it was.
LEMMA GrowsHeld ==
  ASSUME Unmoved, Typed, NEW t \in Tries, Running(t), Op(t).kind # "none", Locked(t), Checked(t), NEW held,
         tx[t].held \subseteq held, tx' = [tx EXCEPT ![t] = [@ EXCEPT !.held = held]]
  PROVE  Op(t)'.kind # "none" /\ Locked(t)' /\ Checked(t)'
<1>1. tx'[t].pc = tx[t].pc /\ tx'[t].seen = tx[t].seen /\ tx'[t].held = held
  BY DEF Typed, IsTx
<1>2. \A item : Past(t, item)' <=> Past(t, item)
  BY Frame, <1>1 DEF Past
<1>3. Locked(t)'
  BY Frame, <1>1, <1>2 DEF Locked
<1>4. SeatFree(t) => SeatFree(t)'
  BY Frame, <1>1 DEF SeatFree, Unmoved, sourceVars
<1>5. Counted(t) => Counted(t)'
  BY Frame, <1>1, <1>4 DEF Counted, Unmoved
<1>6. Checked(t)'
  BY Frame, <1>1, <1>2, <1>5 DEF Checked, Unmoved, sourceVars
<1> QED BY <1>3, <1>6, Frame

\* A statement that has its locks and is neither refused nor a replay adds what it
\* has locked and read to what the transaction has locked and checked.
LEMMA Advance ==
  ASSUME Unmoved, Typed, NEW t \in Tries, AtItem(t), Op(t).kind # "none", Locked(t), Checked(t),
         NEW held, tx[t].held \subseteq held, Needs(t) \subseteq held, ~ Replayed(t), ~ Refused(t),
         tx' = [tx EXCEPT ![t] = [pc |-> @.pc + 1, held |-> held, seen |-> Seen(t)]]
  PROVE  Op(t)'.kind # "none" /\ Locked(t)' /\ Checked(t)'
<1> DEFINE kind == Op(t).kind
<1>1. tx'[t].pc = tx[t].pc + 1 /\ tx'[t].seen = Seen(t) /\ tx'[t].held = held
  BY DEF Typed
<1>2. Running(t) /\ tx[t].pc \in Nat \ {0} /\ tx[t].seen \in Seens
  BY DEF AtItem, Typed, TypeOK, IsTx
<1>3. \A item : Past(t, item)' <=> Past(t, item) \/ Item(t) = item
  <2> TAKE item
  <2>1. Past(t, item)' <=> Before(Op(t).kind, tx[t].pc + 1, item)
    BY Frame, <1>1 DEF Past
  <2> QED BY <1>2, <2>1, PlanStep DEF Past, Item
<1>4. Op(t) \in Ops /\ kind \in Kinds \ {"none"}
  BY OpType DEF Typed, Ops
<1>5. /\ Item(t) = "count" =>
             /\ kind \in {"web", "chat", "add"}
             /\ kind = "add" => Past(t, "booking")
      /\ Item(t) = "group" /\ kind = "chat" => Past(t, "lesson")
      /\ Item(t) = "booking" => kind \in OnBooking \cup {"add", "trial"}
      /\ Item(t) = "protect" => kind = "group"
      /\ Item(t) = "lesson" => kind \in OnLesson \cup {"online"}
  BY <1>2, <1>4, Order, PlanOrder DEF Past, Reached
<1>6. Locked(t)'
  <2>1. /\ Item(t) = "key" => <<"key", t[1]>> \in held
        /\ Item(t) = "child" => <<"child", Op(t).child>> \in held
        /\ Item(t) = "group" => <<"group", "g">> \in held
        /\ Item(t) = "lesson" /\ kind # "online" => <<"lesson", LessonOf(t)>> \in held
    BY DEF Needs, Skips
  <2>2. Item(t) = "lessons" => \A l \in Lessons : <<"lesson", l>> \in held
    BY DEF Needs
  <2>3. /\ Item(t) = "booking" /\ kind \in OnBooking => <<"booking", Op(t).booking>> \in held
        /\ Item(t) = "booking" /\ kind = "add" =>
               \A b \in Existing(Child(t), LessonOf(t)) : <<"booking", b>> \in held
    BY DEF Needs, OnBooking
  <2>4. Item(t) = "bookings" => \A b \in CancelledWith(LessonOf(t)) : <<"booking", b>> \in held
    BY DEF Needs, CancelledWith
  <2> HIDE DEF kind
  <2> QED BY Frame, <1>1, <1>3, <2>1, <2>2, <2>3, <2>4 DEF Locked, kind
<1>7. Checked(t)'
  <2>1. Item(t) = "key" => \A u \in done : u[1] # t[1]
    BY DEF Replayed
  <2>2. Item(t) = "lesson" /\ kind \in {"web", "add"} => lesson[LessonOf(t)].open
    BY DEF Refused, BookingItem, LessonRefused, Skips
  <2>3. Item(t) = "group" /\ kind = "chat" => lesson[LessonOf(t)].open
    BY DEF Refused, BookingItem, GroupRefused
  <2>4. Item(t) = "booking" /\ kind = "decide" => booking[Op(t).booking].status = "pending"
    BY DEF Refused, BookingItem, BookingRefused
  <2>5. Item(t) = "key" /\ kind \in {"online", "transfer"} => Live(Op(t).booking)
    BY DEF Refused, BookingItem, BookingRefused
  <2>6. Item(t) = "enrollment" => enrolled[Child(t)] = {} /\ rule[LessonOf(t)] = "kept"
    BY DEF Refused, BookingItem, EnrollmentRefused
  <2>7. Item(t) = "protect" => \A l \in Lessons : Op(t).rule[l] # "kept" => Enrolled(l) = {}
    BY DEF Refused, BookingItem, Protected
  <2>8. Item(t) = "count" => Counted(t)'
    <3> SUFFICES ASSUME Item(t) = "count" PROVE Counted(t)'
      OBVIOUS
    <3> DEFINE l == LessonOf(t)
    <3>1. tx'[t].seen.enrolled = Enrolled(l) /\ tx'[t].seen.mine = Existing(Child(t), l)
      BY <1>1, <1>2 DEF Seen, Seens
    <3>2. ~ CountRefused(t)
      BY DEF Refused, BookingItem
    <3>3. Child(t) \in Booked(l) => Existing(Child(t), l) # {}
      BY DEF Booked, Existing
    <3>4. Existing(Child(t), l) = {} =>
              \/ kind = "add" /\ Child(t) \in Enrolled(l)
              \/ lesson[l].capacity = NoLimit
              \/ Child(t) \in Enrolled(l)
              \/ Cardinality(Booked(l) \cup Enrolled(l)) < lesson[l].capacity
      BY <3>2, <3>3 DEF CountRefused, HasCapacity
    <3>5. Existing(Child(t), l) = {} =>
              SeatFree(t)' \/ (kind = "add" /\ Child(t) \in Enrolled(l))
      BY Frame, <3>1, <3>4 DEF SeatFree, Unmoved, sourceVars
    <3>6. \A b \in Existing(Child(t), l) : booking[b] # None
      BY DEF Existing, Live
    <3>7. kind = "add" => \A b \in Existing(Child(t), l) : <<"booking", b>> \in held
      BY <1>5 DEF Locked
    <3> HIDE DEF l, kind
    <3> QED BY Frame, <1>1, <3>1, <3>5, <3>6, <3>7 DEF Counted, l, kind, Unmoved
  <2>9. Item(t) # "count" /\ Past(t, "count") => Counted(t)'
    <3> SUFFICES ASSUME Item(t) # "count", Past(t, "count") PROVE Counted(t)'
      OBVIOUS
    <3>1. tx'[t].seen.enrolled = tx[t].seen.enrolled /\ tx'[t].seen.mine = tx[t].seen.mine
      BY <1>1, <1>2 DEF Seen, Seens
    <3>2. Counted(t)
      BY DEF Checked
    <3>3. SeatFree(t) => SeatFree(t)'
      BY Frame, <3>1 DEF SeatFree, Unmoved, sourceVars
    <3> QED BY Frame, <1>1, <3>1, <3>2, <3>3 DEF Counted, Unmoved
  <2> HIDE DEF kind
  <2> QED BY Frame, <1>1, <1>3, <2>1, <2>2, <2>3, <2>4, <2>5, <2>6, <2>7, <2>8, <2>9
          DEF Checked, Unmoved, sourceVars, kind
<1> QED BY <1>6, <1>7, Frame

\* A step that only changes one transaction keeps the types.
LEMMA TypedTx ==
  ASSUME Typed, Unmoved, UNCHANGED noticeVars,
         expect' \in [Requests -> Nat], tries' \in [Requests -> 0..MaxTries], faults' \in Nat,
         NEW t \in Tries, NEW x, tx' = [tx EXCEPT ![t] = x],
         x # None => /\ IsTx(x) /\ x.pc \in 1..(Len(Plan(Op(t).kind)) + 1)
                     /\ \A row \in x.held : row[1] \in Rows
  PROVE  Typed'
<1>1. \A s \in Tries : Running(s)' =>
          /\ IsTx(tx'[s])
          /\ tx'[s].pc \in 1..(Len(Plan(Op(s)'.kind)) + 1)
          /\ \A row \in tx'[s].held : row[1] \in Rows
  <2> SUFFICES ASSUME NEW s \in Tries, Running(s)'
               PROVE  /\ IsTx(tx'[s])
                      /\ tx'[s].pc \in 1..(Len(Plan(Op(s)'.kind)) + 1)
                      /\ \A row \in tx'[s].held : row[1] \in Rows
    OBVIOUS
  <2>1. CASE s = t
    BY <2>1, Frame DEF Running, Typed
  <2>2. CASE s # t
    <3>1. tx'[s] = tx[s] /\ Running(s)
      BY <2>2 DEF Running, Typed
    <3> QED BY <3>1, Frame DEF Typed, TypeOK
  <2> QED BY <2>1, <2>2
<1>2. tx' = [s \in Tries |-> tx'[s]]
  BY DEF Typed
<1>3. TypeOK'
  BY <1>1 DEF TypeOK, Typed, Unmoved, noticeVars, sourceVars
<1> QED BY <1>1, <1>2, <1>3 DEF Typed, Unmoved, noticeVars

\* What holds of committed rows holds while they stay as they are.
LEMMA FrameRows ==
  ASSUME RowsInv, Unmoved, UNCHANGED noticeVars
  PROVE  RowsInv'
<1> USE DEF Unmoved, noticeVars, sourceVars, RowsInv
<1>1. DoneInv' /\ ScheduleInv'
  BY DEF DoneInv, ScheduleInv
<1>2. CancelledEmpty' /\ SelectionKept'
  BY Frame DEF CancelledEmpty, SelectionKept
<1>3. LeaseInv'
  BY DEF LeaseInv, CallbackOk
<1>4. \A b : Failures(b)' = Failures(b) /\ Deliveries(b)' = Deliveries(b)
  BY DEF Failures, Deliveries, Receipts
<1>5. NoticeInv'
  BY <1>4 DEF NoticeInv, NoticeOk
<1> QED BY <1>1, <1>2, <1>3, <1>5

\* Locks stay exclusive when those of one transaction change, if what it has
\* conflicts with nobody.
LEMMA ExclusiveTx ==
  ASSUME Exclusive, Typed, Unmoved, NEW t \in Tries, NEW x, tx' = [tx EXCEPT ![t] = x],
         x # None => \A row \in x.held, u \in Tries \ {t} :
                         Running(u) /\ row \in tx[u].held => Shares(t, row) /\ Shares(u, row)
  PROVE  Exclusive'
<1>1. \A s \in Tries : \A row : Shares(s, row)' <=> Shares(s, row)
  BY Frame DEF Shares
<1>2. \A s \in Tries : s # t => tx'[s] = tx[s] /\ (Running(s)' <=> Running(s))
  BY DEF Running, Typed
<1>3. tx'[t] = x /\ (Running(t)' <=> x # None)
  BY DEF Running, Typed
<1> SUFFICES ASSUME NEW a \in Tries, NEW u \in Tries, a # u, Running(a)', Running(u)',
                    NEW row \in tx'[a].held \cap tx'[u].held
             PROVE  Shares(a, row)' /\ Shares(u, row)'
  BY DEF Exclusive
<1>4. CASE a = t
  BY <1>1, <1>2, <1>3, <1>4
<1>5. CASE u = t
  BY <1>1, <1>2, <1>3, <1>5
<1>6. CASE a # t /\ u # t
  BY <1>1, <1>2, <1>6 DEF Exclusive
<1> QED BY <1>4, <1>5, <1>6

\* Commands lock rows of five kinds.
LEMMA RowKinds ==
  ASSUME NEW t \in Tries, NEW row \in Needs(t)
  PROVE  row[1] \in Rows
  BY DEF Needs, Rows

\* What a statement reads has its type.
LEMMA SeenType ==
  ASSUME Typed, NEW t \in Tries, Running(t)
  PROVE  Seen(t) \in Seens
<1>1. tx[t].seen \in Seens
  BY DEF Typed, IsTx
<1>2. group.status \in {"active", "archived"}
  BY DEF Typed, TypeOK
<1>3. Enrolled(LessonOf(t)) \subseteq Children /\ Existing(Child(t), LessonOf(t)) \subseteq Ids
  BY DEF Enrolled, Existing
<1> QED BY <1>1, <1>2, <1>3 DEF Seen, Seens

\* A transaction that ends without a commit leaves the invariant: its locks go, the
\* rows stay.
LEMMA Ends ==
  ASSUME IInv, Unmoved, UNCHANGED <<noticeVars, expect, tries>>, faults' \in Nat,
         NEW t \in Tries, tx' = [tx EXCEPT ![t] = None]
  PROVE  IInv'
<1>1. Typed'
  BY TypedTx DEF IInv, Typed, TypeOK
<1>2. Exclusive'
  BY ExclusiveTx DEF IInv
<1>3. TxInv'
  BY OwnStep DEF IInv
<1> QED BY <1>1, <1>2, <1>3, FrameRows DEF IInv

\* A request that is sent, or sent again, keeps the invariant.
LEMMA BeginInv ==
  ASSUME IInv, NEW t \in Tries, Begin(t)
  PROVE  IInv'
<1> DEFINE x == [pc |-> 1, held |-> {}, seen |-> Nothing]
<1>1. Unmoved /\ UNCHANGED noticeVars /\ faults' \in Nat /\ tx' = [tx EXCEPT ![t] = x]
  BY DEF Begin, Unmoved, IInv, Typed
<1>2. Op(t) \in Ops /\ t[1] \in Requests /\ t[2] \in 1..MaxTries
  BY OpType DEF IInv, Typed
<1>3. tries' \in [Requests -> 0..MaxTries]
  BY <1>2 DEF Begin, IInv, Typed, TypeOK
<1>4. expect' \in [Requests -> Nat]
  <2>1. group.version \in Nat /\ \A l \in Lessons : exception[l].version \in Nat
    BY DEF IInv, Typed, TypeOK
  <2>2. Op(t).kind \in {"cancel", "override", "restore"} => LessonOf(t) \in Lessons
    BY <1>2 DEF LessonOf, Ops, OnLesson
  <2>3. expect \in [Requests -> Nat]
    BY DEF IInv, Typed, TypeOK
  <2> QED BY <1>2, <2>1, <2>2, <2>3 DEF Begin
<1>5. IsTx(x) /\ x.pc = 1 /\ x.held = {}
  BY DEF IsTx, Seens, Nothing
<1>6. 1 \in 1..(Len(Plan(Op(t).kind)) + 1)
  BY <1>2, Plans DEF Begin, Ops, Kinds
<1>7. Typed'
  BY <1>1, <1>3, <1>4, <1>5, <1>6, TypedTx DEF IInv
<1>8. Exclusive'
  BY <1>1, <1>5, ExclusiveTx DEF IInv
<1>9. Op(t)'.kind # "none" /\ Locked(t)' /\ Checked(t)'
  <2>1. Op(t)'.kind # "none" /\ Op(t)' = Op(t)
    BY <1>1, Frame DEF Begin
  <2>2. tx'[t] = x
    BY <1>1 DEF IInv, Typed
  <2>3. \A item : ~ Past(t, item)'
    BY <2>2, PlanStart DEF Past
  <2>4. Locked(t)'
    BY <2>3 DEF Locked
  <2>5. Op(t).kind \in OnBooking => booking'[Op(t).booking] # None
    BY <1>1 DEF Begin, OnBooking, Unmoved
  <2>6. Checked(t)'
    BY <2>1, <2>3, <2>5 DEF Checked
  <2> QED BY <2>1, <2>4, <2>6
<1>10. TxInv'
  BY <1>1, <1>9, OwnStep DEF IInv
<1> QED BY <1>1, <1>7, <1>8, <1>10, FrameRows DEF IInv

\* A statement of a command, the lock it takes and the check after it, keeps the
\* invariant.
LEMMA StepInv ==
  ASSUME IInv, NEW t \in Tries, Step(t)
  PROVE  IInv'
<1>1. Unmoved /\ UNCHANGED <<noticeVars, expect, tries, faults>> /\ faults' \in Nat
  BY DEF Step, Unmoved, IInv, Typed
<1>2. PICK rows \in {{row} : row \in Missing(t)} \cup (IF Missing(t) = {} THEN {{}} ELSE {}) :
          /\ \A row \in rows, u \in Tries : ~ Conflict(t, u, row)
          /\ tx' = [tx EXCEPT ![t] =
                       IF ~ Needs(t) \subseteq tx[t].held \cup rows THEN [@ EXCEPT !.held = tx[t].held \cup rows]
                       ELSE IF Replayed(t) \/ Refused(t) THEN None
                       ELSE [pc |-> @.pc + 1, held |-> tx[t].held \cup rows, seen |-> Seen(t)]]
  BY DEF Step
<1> DEFINE held == tx[t].held \cup rows
           grown == [tx[t] EXCEPT !.held = held]
           next == [pc |-> tx[t].pc + 1, held |-> held, seen |-> Seen(t)]
<1>3. AtItem(t) /\ Running(t) /\ IsTx(tx[t])
  BY DEF Step, AtItem, IInv, Typed
<1>4. Op(t).kind # "none" /\ Locked(t) /\ Checked(t)
  BY <1>3 DEF IInv, TxInv
<1>5. rows \subseteq Needs(t)
  BY <1>2 DEF Missing
<1>6. \A row \in held : row[1] \in Rows
  BY <1>3, <1>5, RowKinds DEF IInv, Typed, TypeOK
<1>7. \A row \in held, u \in Tries \ {t} : Running(u) /\ row \in tx[u].held => Shares(t, row) /\ Shares(u, row)
  BY <1>2, <1>3 DEF Conflict, IInv, Exclusive
<1>8. tx[t].pc \in 1..Len(Plan(Op(t).kind)) /\ Len(Plan(Op(t).kind)) \in Nat
  <2>1. Op(t).kind \in Kinds \ {"none"}
    BY <1>3, <1>4, Order DEF IInv
  <2>2. Len(Plan(Op(t).kind)) \in Nat
    BY <2>1, Plans DEF Kinds
  <2> QED BY <1>3, <2>2 DEF IInv, Typed, TypeOK, AtItem
<1>9. expect' \in [Requests -> Nat] /\ tries' \in [Requests -> 0..MaxTries]
  BY <1>1 DEF IInv, Typed, TypeOK
<1>10. CASE ~ Needs(t) \subseteq held
  <2>1. tx' = [tx EXCEPT ![t] = grown]
    BY <1>2, <1>10
  <2>2. IsTx(grown) /\ grown.held = held /\ grown.pc = tx[t].pc
    BY <1>3 DEF IsTx
  <2>3. Typed'
    <3>1. tx[t].pc \in 1..(Len(Plan(Op(t).kind)) + 1)
      BY <1>8
    <3> HIDE DEF grown, held
    <3> QED BY <1>1, <1>6, <1>9, <2>1, <2>2, <3>1, TypedTx DEF IInv
  <2>4. Exclusive'
    BY <1>1, <1>7, <2>1, <2>2, ExclusiveTx DEF IInv
  <2>5. Op(t)'.kind # "none" /\ Locked(t)' /\ Checked(t)'
    <3>1. tx' = [tx EXCEPT ![t] = [@ EXCEPT !.held = held]] /\ tx[t].held \subseteq held
      BY <2>1
    <3> HIDE DEF held
    <3> QED BY <1>1, <1>3, <1>4, <3>1, GrowsHeld DEF IInv
  <2>6. TxInv'
    BY <1>1, <2>1, <2>5, OwnStep DEF IInv
  <2> QED BY <1>1, <2>3, <2>4, <2>6, FrameRows DEF IInv
<1>11. CASE Needs(t) \subseteq held /\ (Replayed(t) \/ Refused(t))
  <2>1. tx' = [tx EXCEPT ![t] = None]
    BY <1>2, <1>11
  <2> QED BY <1>1, <2>1, Ends
<1>12. CASE Needs(t) \subseteq held /\ ~ Replayed(t) /\ ~ Refused(t)
  <2>1. tx' = [tx EXCEPT ![t] = next]
    BY <1>2, <1>12
  <2>2. Seen(t) \in Seens /\ tx[t].pc + 1 \in Nat
    BY <1>3, <1>8, SeenType DEF IInv
  <2>3. IsTx(next) /\ next.held = held /\ next.pc = tx[t].pc + 1
    BY <2>2 DEF IsTx
  <2>4. Typed'
    <3>1. tx[t].pc + 1 \in 1..(Len(Plan(Op(t).kind)) + 1)
      BY <1>8
    <3> HIDE DEF next, held
    <3> QED BY <1>1, <1>6, <1>9, <2>1, <2>3, <3>1, TypedTx DEF IInv
  <2>5. Exclusive'
    BY <1>1, <1>7, <2>1, <2>3, ExclusiveTx DEF IInv
  <2>6. Op(t)'.kind # "none" /\ Locked(t)' /\ Checked(t)'
    <3>1. /\ tx' = [tx EXCEPT ![t] = [pc |-> @.pc + 1, held |-> held, seen |-> Seen(t)]]
          /\ tx[t].held \subseteq held
      BY <2>1
    <3> HIDE DEF held
    <3> QED BY <1>1, <1>3, <1>4, <1>12, <3>1, Advance DEF IInv
  <2>7. TxInv'
    BY <1>1, <2>1, <2>6, OwnStep DEF IInv
  <2> QED BY <1>1, <2>4, <2>5, <2>7, FrameRows DEF IInv
<1> QED BY <1>10, <1>11, <1>12

-----------------------------------------------------------------------------
(* Commits *)

\* What a transaction at the end of its plan holds and has checked.
Ready(t) ==
  /\ Op(t) \in Ops /\ Locked(t) /\ Checked(t) /\ IsTx(tx[t])
  /\ Owns(t, <<"key", t[1]>>) /\ booking[t] = None
  /\ \A u \in done : u[1] # t[1]
  /\ Op(t).kind \in {"web", "chat", "add"} =>
         /\ Past(t, "count") /\ Counted(t) /\ lesson[LessonOf(t)].open
         /\ Owns(t, <<"lesson", LessonOf(t)>>)
  /\ Op(t).kind \in {"cancel", "override", "restore", "group"} =>
         Owns(t, <<"group", "g">>) /\ \A l \in Lessons : Owns(t, <<"lesson", l>>)
  /\ Op(t).kind = "cancel" => \A b \in CancelledWith(LessonOf(t)) : Owns(t, <<"booking", b>>)
  /\ Op(t).kind = "group" => \A l \in Lessons : Op(t).rule[l] # "kept" => Enrolled(l) = {}
  /\ Op(t).kind \in {"enroll", "trial"} =>
         /\ enrolled[Child(t)] = {} /\ rule[LessonOf(t)] = "kept"
         /\ Owns(t, <<"child", Child(t)>>) /\ Owns(t, <<"group", "g">>)
  /\ Op(t).kind \in OnBooking => Owns(t, <<"booking", Op(t).booking>>)
  /\ Op(t).kind = "decide" => booking[Op(t).booking].status = "pending"
  /\ Op(t).kind \in {"online", "transfer"} => Live(Op(t).booking)

\* A transaction at the end of its plan owns the locks, and has checked what its
\* commit relies on.
LEMMA Finished ==
  ASSUME IInv, NEW t \in Tries, Running(t), tx[t].pc > Len(Plan(Op(t).kind))
  PROVE  Ready(t)
<1> DEFINE kind == Op(t).kind
<1>1. Full(kind, tx[t].pc)
  BY DEF Full
<1>2. Op(t) \in Ops /\ t \in Ids /\ t[1] \in Requests
  BY OpType DEF IInv, Typed
<1>3. kind # "none" /\ Locked(t) /\ Checked(t) /\ IsTx(tx[t])
  BY <1>1 DEF IInv, TxInv, Typed
<1>4. /\ Past(t, "key")
      /\ kind \in {"web", "chat", "add"} => Past(t, "count") /\ Past(t, "lesson")
      /\ kind = "chat" => Past(t, "group")
      /\ kind \in {"cancel", "override", "restore", "group"} => Past(t, "group") /\ Past(t, "lessons")
      /\ kind = "cancel" => Past(t, "bookings")
      /\ kind = "group" => Past(t, "protect")
      /\ kind \in {"enroll", "trial"} => Past(t, "enrollment") /\ Past(t, "child") /\ Past(t, "group")
      /\ kind \in OnBooking => Past(t, "booking")
  BY <1>1, <1>3, Order, PlanOrder DEF IInv, Past, Reached
<1>5. \A u \in done : u[1] # t[1]
  BY <1>3, <1>4 DEF Checked
<1>6. booking[t] = None
  BY <1>5 DEF IInv, RowsInv, DoneInv
<1>7. Owns(t, <<"key", t[1]>>)
  BY <1>3, <1>4 DEF Locked, Owns, Shares
<1>8. kind \in {"web", "chat", "add"} =>
          /\ Past(t, "count") /\ Counted(t) /\ lesson[LessonOf(t)].open
          /\ Owns(t, <<"lesson", LessonOf(t)>>)
  BY <1>3, <1>4 DEF Locked, Checked, Owns, Shares
<1>9. kind \in {"cancel", "override", "restore", "group"} =>
          Owns(t, <<"group", "g">>) /\ \A l \in Lessons : Owns(t, <<"lesson", l>>)
  BY <1>3, <1>4 DEF Locked, Owns, Shares
<1>10. kind = "cancel" => \A b \in CancelledWith(LessonOf(t)) : Owns(t, <<"booking", b>>)
  BY <1>3, <1>4 DEF Locked, Owns, Shares
<1>11. kind = "group" => \A l \in Lessons : Op(t).rule[l] # "kept" => Enrolled(l) = {}
  BY <1>3, <1>4 DEF Checked
<1>12. kind \in {"enroll", "trial"} =>
           /\ enrolled[Child(t)] = {} /\ rule[LessonOf(t)] = "kept"
           /\ Owns(t, <<"child", Child(t)>>) /\ Owns(t, <<"group", "g">>)
  BY <1>3, <1>4 DEF Locked, Checked, Owns, Shares, Child
<1>13. kind \in OnBooking => Owns(t, <<"booking", Op(t).booking>>)
  BY <1>3, <1>4 DEF Locked, Owns, Shares
<1>14. kind \in {"online", "transfer"} => Live(Op(t).booking)
  BY <1>3, <1>4 DEF Checked
<1>15. kind = "decide" => booking[Op(t).booking].status = "pending"
  BY <1>3, <1>4 DEF Checked, OnBooking
<1> HIDE DEF kind
<1> QED BY <1>2, <1>3, <1>4, <1>5, <1>6, <1>7, <1>8, <1>9, <1>10, <1>11, <1>12, <1>13, <1>14,
       <1>15 DEF Ready, kind

\* A commit that keeps to the guarantee leaves all other transactions with what they
\* have locked and checked.
LEMMA Commit ==
  ASSUME IInv, NEW t \in Tries, Running(t), Guarantee(t), tx' = [tx EXCEPT ![t] = None],
         Typed', RowsInv'
  PROVE  IInv'
<1>1. \A s \in Tries : s # t => tx'[s] = tx[s] /\ (Running(s)' <=> Running(s))
  BY DEF Running, IInv, Typed
<1>2. ~ Running(t)'
  BY DEF Running, IInv, Typed
<1>3. \A s \in Tries : \A row : Shares(s, row)' <=> Shares(s, row)
  BY DEF Shares, Op, Guarantee
<1>4. Exclusive'
  BY <1>1, <1>2, <1>3 DEF IInv, Exclusive
<1>5. TxInv'
  BY <1>1, <1>2, Stable DEF IInv, TxInv
<1> QED BY <1>4, <1>5 DEF IInv

\* A commit keeps the types if what it writes has them.
LEMMA TypedCommit ==
  ASSUME Typed, NEW t \in Tries, tx' = [tx EXCEPT ![t] = None], done' = done \cup {t},
         UNCHANGED <<config, expect, tries, faults, lease, receipt, callback>>,
         group' \in [status : {"active", "archived"}, capacity : Capacities, version : Nat],
         rule' \in [Lessons -> {"kept", "narrowed", "archived"}],
         exception' \in [Lessons -> [kind : {"none", "cancelled", "override"}, capacity : Capacities, version : Nat]],
         lesson' \in [Lessons -> [open : BOOLEAN, capacity : Capacities]],
         booking' \in [Ids -> BookingRows \cup {None}],
         enrolled' \in [Children -> SUBSET Lessons],
         notice' \in [Ids -> [state : {"none", "open", "published", "failed"}, attempts : 0..MaxAttempts,
                              lease : 0..MaxLeases, expired : BOOLEAN, call : BOOLEAN]]
  PROVE  Typed'
<1>1. \A s \in Tries : Running(s)' => tx'[s] = tx[s] /\ Running(s)
  BY DEF Running, Typed
<1>2. \A s \in Tries : Op(s)' = Op(s)
  BY DEF Op
<1>3. tx' = [s \in Tries |-> tx'[s]]
  BY DEF Typed
<1>4. TypeOK'
  BY <1>1, <1>2 DEF Typed, TypeOK
<1> QED BY <1>1, <1>3, <1>4 DEF Typed

\* After a commit its request is still the only one under its key, and a booking
\* that was made belongs to a committed command.
LEMMA DoneCommit ==
  ASSUME IInv, NEW t \in Tries, Guarantee(t), \A u \in done : u[1] # t[1]
  PROVE  DoneInv'
<1>1. \A s, u \in done' : s[1] = u[1] => s = u
  BY DEF Guarantee, IInv, RowsInv, DoneInv
<1>2. ASSUME NEW s \in Tries, booking'[s] # None PROVE s \in done'
  <2>1. s \in Ids
    BY DEF Ids
  <2>2. CASE BookingInserted(t, s)
    BY <2>2 DEF BookingInserted, Guarantee
  <2>3. CASE ~ BookingInserted(t, s)
    <3>1. booking[s] # None
      BY <1>2, <2>1, <2>3 DEF Guarantee, BookingChanged
    <3> QED BY <3>1 DEF IInv, RowsInv, DoneInv, Guarantee
  <2> QED BY <2>2, <2>3
<1> QED BY <1>1, <1>2 DEF DoneInv

\* A commit that writes no notice keeps what holds of notices: no booking becomes
\* pending again.
LEMMA NoticeCommit ==
  ASSUME IInv, NEW t \in Tries, Guarantee(t), UNCHANGED noticeVars
  PROVE  LeaseInv' /\ NoticeInv'
<1>1. LeaseInv'
  BY DEF IInv, RowsInv, LeaseInv, CallbackOk, noticeVars
<1>2. NoticeInv'
  <2>1. \A b : Failures(b)' = Failures(b) /\ Deliveries(b)' = Deliveries(b)
    BY DEF Failures, Deliveries, Receipts, noticeVars
  <2>2. \A b \in Ids : booking[b] # None /\ booking[b].status # "pending" =>
                           booking'[b] # None /\ booking'[b].status # "pending"
    BY DEF Guarantee, BookingInserted, BookingChanged
  <2> QED BY <2>1, <2>2 DEF IInv, RowsInv, NoticeInv, NoticeOk, noticeVars
<1> QED BY <1>1, <1>2

\* A commit that leaves the schedule and the notices alone.
LEMMA RowsCommit ==
  ASSUME IInv, NEW t \in Tries, Guarantee(t), \A u \in done : u[1] # t[1],
         UNCHANGED sourceVars, UNCHANGED noticeVars,
         \A b \in Ids : BookingInserted(t, b) => lesson[LessonOf(t)].open
  PROVE  RowsInv'
<1>1. DoneInv'
  BY DoneCommit
<1>2. ScheduleInv'
  BY DEF IInv, RowsInv, ScheduleInv, sourceVars
<1>3. CancelledEmpty'
  <2> SUFFICES ASSUME NEW l \in Lessons, exception'[l].kind = "cancelled" PROVE Booked(l)' = {}
    BY DEF CancelledEmpty
  <2>1. exception[l].kind = "cancelled" /\ Booked(l) = {} /\ ~ lesson[l].open
    BY DEF IInv, RowsInv, CancelledEmpty, ScheduleInv, sourceVars
  <2>2. \A b \in Ids : ~ (Live(b) /\ booking[b].lesson = l)
    BY <2>1 DEF Booked
  <2>3. ASSUME NEW b \in Ids, Live(b)', booking'[b].lesson = l PROVE FALSE
    <3>1. CASE booking'[b] = booking[b]
      BY <2>2, <2>3, <3>1 DEF Live
    <3>2. CASE BookingInserted(t, b)
      BY <2>1, <2>3, <3>2 DEF BookingInserted
    <3>3. CASE BookingChanged(t, b)
      BY <2>2, <2>3, <3>3 DEF BookingChanged
    <3> QED BY <3>1, <3>2, <3>3 DEF Guarantee
  <2> QED BY <2>3 DEF Booked
<1>4. SelectionKept'
  <2> SUFFICES ASSUME NEW l \in Lessons, NEW c \in Children, l \in enrolled'[c] PROVE rule'[l] = "kept"
    BY DEF SelectionKept, Enrolled
  <2>1. l \in enrolled[c] => rule[l] = "kept"
    BY DEF IInv, RowsInv, SelectionKept, Enrolled
  <2> QED BY <2>1 DEF Guarantee, sourceVars
<1>5. LeaseInv' /\ NoticeInv'
  BY NoticeCommit
<1> QED BY <1>1, <1>2, <1>3, <1>4, <1>5 DEF RowsInv

\* Inserting a booking changes that booking only.
LEMMA InsertedRow ==
  ASSUME IInv, NEW t \in Tries, NEW status \in Statuses, Op(t) \in Ops, Op(t).kind \in {"web", "chat", "add"},
         booking[t] = None, Owns(t, <<"lesson", LessonOf(t)>>),
         booking' = Inserted(t, status)
  PROVE  /\ booking' \in [Ids -> BookingRows \cup {None}]
         /\ \A b \in Ids : booking'[b] = booking[b] \/ BookingInserted(t, b)
<1> DEFINE row == [child |-> Child(t), lesson |-> LessonOf(t), status |-> status, transfer |-> FALSE]
<1>1. t \in Ids /\ t \in Applicants
  BY DEF Ids, Applicants
<1>2. Child(t) \in Applicants /\ LessonOf(t) \in Lessons
  BY <1>1 DEF Child, LessonOf, Ops, OnLesson, Applicants
<1>3. row \in BookingRows /\ row # None /\ row.child = Child(t) /\ row.lesson = LessonOf(t)
  BY <1>2, NotNone DEF BookingRows
<1>4. booking \in [Ids -> BookingRows \cup {None}]
  BY DEF IInv, Typed, TypeOK
<1>5. booking' = [booking EXCEPT ![t] = row]
  BY DEF Inserted
<1> HIDE DEF row
<1>6. booking' \in [Ids -> BookingRows \cup {None}]
  BY <1>1, <1>3, <1>4, <1>5
<1>7. booking'[t] = row /\ \A b \in Ids : b # t => booking'[b] = booking[b]
  BY <1>1, <1>4, <1>5
<1> QED BY <1>3, <1>6, <1>7 DEF BookingInserted

\* new differs from the bookings in the status and the transfer of bs.
Restated(new, bs, status) ==
  /\ new \in [Ids -> BookingRows \cup {None}]
  /\ \A b \in bs : /\ new[b] \in BookingRows /\ new[b] # None
                   /\ new[b].child = booking[b].child /\ new[b].lesson = booking[b].lesson
                   /\ new[b].status = status
  /\ \A b \in Ids \ bs : new[b] = booking[b]

\* Setting the status of bookings keeps their children and lessons.
LEMMA StatusSet ==
  ASSUME IInv, NEW bs \in SUBSET Ids, NEW status \in Statuses, \A b \in bs : booking[b] # None
  PROVE  Restated(SetStatus(bs, status), bs, status)
<1>1. booking \in [Ids -> BookingRows \cup {None}]
  BY DEF IInv, Typed, TypeOK
<1>2. ASSUME NEW b \in bs
      PROVE  /\ SetStatus(bs, status)[b] \in BookingRows
             /\ SetStatus(bs, status)[b].child = booking[b].child
             /\ SetStatus(bs, status)[b].lesson = booking[b].lesson
             /\ SetStatus(bs, status)[b].status = status
  <2>1. booking[b] \in BookingRows
    BY <1>1
  <2>2. SetStatus(bs, status)[b] = [booking[b] EXCEPT !.status = status, !.transfer = FALSE]
    BY DEF SetStatus
  <2> QED BY <2>1, <2>2 DEF BookingRows
<1>3. \A b \in Ids \ bs : SetStatus(bs, status)[b] = booking[b]
  BY DEF SetStatus
<1>4. SetStatus(bs, status) = [b \in Ids |-> SetStatus(bs, status)[b]]
  BY DEF SetStatus
<1>5. SetStatus(bs, status) \in [Ids -> BookingRows \cup {None}]
  BY <1>1, <1>2, <1>3, <1>4
<1> QED BY <1>2, <1>3, <1>5, NotNone DEF Restated

\* create_public_booking and commit_airhop_booking_draft keep the invariant and the
\* guarantee.
LEMMA ReserveInv ==
  ASSUME IInv, NEW t \in Tries, Reserve(t)
  PROVE  IInv' /\ Guarantee(t)
<1> DEFINE status == IF Op(t).kind = "chat" THEN Op(t).answer ELSE "pending"
<1>1. /\ Finish(t, {"web", "chat"}) /\ UNCHANGED <<sourceVars, enrolled, noticeVars>>
      /\ booking' = IF tx[t].seen.mine # {} THEN booking ELSE Inserted(t, status)
  BY DEF Reserve
<1>2. /\ Running(t) /\ Op(t).kind \in {"web", "chat"} /\ Op(t) \in Ops
      /\ tx' = [tx EXCEPT ![t] = None] /\ done' = done \cup {t}
      /\ UNCHANGED <<config, expect, tries, faults>>
      /\ Owns(t, <<"key", t[1]>>) /\ booking[t] = None /\ \A u \in done : u[1] # t[1]
      /\ lesson[LessonOf(t)].open /\ Owns(t, <<"lesson", LessonOf(t)>>)
  BY <1>1, Finished DEF Finish, Ready
<1>3. status \in Statuses
  BY <1>2 DEF Ops, Statuses
<1>4. /\ booking' \in [Ids -> BookingRows \cup {None}]
      /\ \A b \in Ids : booking'[b] = booking[b] \/ BookingInserted(t, b)
  <2>1. CASE tx[t].seen.mine # {}
    BY <1>1, <2>1 DEF IInv, Typed, TypeOK
  <2>2. CASE tx[t].seen.mine = {}
    <3>1. booking' = Inserted(t, status)
      BY <1>1, <2>2
    <3> HIDE DEF status
    <3> QED BY <1>2, <1>3, <3>1, InsertedRow
  <2> QED BY <2>1, <2>2
<1>5. Guarantee(t)
  BY <1>1, <1>2, <1>4 DEF Guarantee
<1>6. Typed'
  BY <1>1, <1>2, <1>4, TypedCommit DEF IInv, Typed, TypeOK, sourceVars, noticeVars
<1>7. RowsInv'
  BY <1>1, <1>2, <1>5, RowsCommit
<1> QED BY <1>2, <1>5, <1>6, <1>7, Commit

\* add_airhop_staff_lesson_participant keeps the invariant and the guarantee.
LEMMA AddParticipantInv ==
  ASSUME IInv, NEW t \in Tries, AddParticipant(t)
  PROVE  IInv' /\ Guarantee(t)
<1> DEFINE bs == {b \in tx[t].seen.mine : booking[b].status = "pending"}
<1>1. /\ Finish(t, {"add"}) /\ UNCHANGED <<sourceVars, enrolled, noticeVars>>
      /\ \/ booking' = SetStatus(bs, "confirmed")
         \/ booking' = booking
         \/ booking' = Inserted(t, "confirmed")
  BY DEF AddParticipant
<1>2. /\ Running(t) /\ Op(t).kind = "add" /\ Op(t) \in Ops /\ Counted(t) /\ IsTx(tx[t])
      /\ tx' = [tx EXCEPT ![t] = None] /\ done' = done \cup {t}
      /\ UNCHANGED <<config, expect, tries, faults>>
      /\ Owns(t, <<"key", t[1]>>) /\ booking[t] = None /\ \A u \in done : u[1] # t[1]
      /\ lesson[LessonOf(t)].open /\ Owns(t, <<"lesson", LessonOf(t)>>)
  BY <1>1, Finished DEF Finish, Ready
<1>3. bs \in SUBSET Ids /\ \A b \in bs : booking[b] # None /\ Owns(t, <<"booking", b>>)
  BY <1>2 DEF Counted, IsTx, Seens, Owns, Shares
<1>4. /\ booking' \in [Ids -> BookingRows \cup {None}]
      /\ \A b \in Ids : booking'[b] = booking[b] \/ BookingInserted(t, b) \/ BookingChanged(t, b)
  <2>1. CASE booking' = SetStatus(bs, "confirmed")
    <3>1. "confirmed" \in Statuses /\ \A b \in bs : booking[b].status = "pending"
      BY DEF Statuses
    <3> DEFINE st == "confirmed"
    <3> HIDE DEF bs, st
    <3>2. booking' = SetStatus(bs, st) /\ st \in Statuses /\ \A b \in bs : booking[b] # None
      BY <1>3, <2>1, <3>1 DEF st
    <3>3. Restated(booking', bs, st)
      BY <1>3, <3>2, StatusSet
    <3> QED BY <1>3, <3>1, <3>3 DEF Restated, BookingChanged, Live, st
  <2>2. CASE booking' = booking
    BY <2>2 DEF IInv, Typed, TypeOK
  <2>3. CASE booking' = Inserted(t, "confirmed")
    BY <1>2, <2>3, InsertedRow DEF Statuses
  <2> QED BY <1>1, <2>1, <2>2, <2>3
<1>5. Guarantee(t)
  BY <1>1, <1>2, <1>4 DEF Guarantee
<1>6. Typed'
  BY <1>1, <1>2, <1>4, TypedCommit DEF IInv, Typed, TypeOK, sourceVars, noticeVars
<1>7. RowsInv'
  BY <1>1, <1>2, <1>5, RowsCommit
<1> QED BY <1>2, <1>5, <1>6, <1>7, Commit

\* apply_action, for Hermes and for the parent, keeps the invariant and the guarantee.
LEMMA ManageInv ==
  ASSUME IInv, NEW t \in Tries, Manage(t)
  PROVE  IInv' /\ Guarantee(t)
<1>0. PICK b : b = Op(t).booking
  OBVIOUS
<1>1. /\ Finish(t, {"online", "leave", "transfer"}) /\ UNCHANGED <<sourceVars, enrolled, noticeVars>>
      /\ Op(t).kind = "online" => booking' = [booking EXCEPT ![b].status = "confirmed"]
      /\ Op(t).kind = "leave" => booking' = SetStatus({b}, "left")
      /\ Op(t).kind = "transfer" => booking' = [booking EXCEPT ![b].transfer = TRUE]
  BY <1>0 DEF Manage, Finish
<1>2. /\ Running(t) /\ Op(t).kind \in {"online", "leave", "transfer"} /\ Op(t) \in Ops
      /\ Locked(t) /\ Checked(t)
      /\ tx' = [tx EXCEPT ![t] = None] /\ done' = done \cup {t}
      /\ UNCHANGED <<config, expect, tries, faults>>
      /\ Owns(t, <<"key", t[1]>>) /\ booking[t] = None /\ \A u \in done : u[1] # t[1]
      /\ Owns(t, <<"booking", b>>)
  BY <1>0, <1>1, Finished DEF Finish, Ready, OnBooking
<1>3. b \in Ids /\ booking[b] # None /\ booking \in [Ids -> BookingRows \cup {None}]
  BY <1>0, <1>2 DEF Ops, Checked, OnBooking, IInv, Typed, TypeOK
<1>4. booking[b] \in BookingRows
  BY <1>3
<1>5. Op(t).kind \in {"online", "transfer"} => Live(b)
  BY <1>0, <1>1, Finished DEF Finish, Ready
<1>6. /\ booking'[b] \in BookingRows
      /\ booking'[b].child = booking[b].child /\ booking'[b].lesson = booking[b].lesson
      /\ Live(b)' => Live(b)
      /\ booking'[b].status = "pending" => booking[b].status = "pending"
      /\ \A x \in Ids : x # b => booking'[x] = booking[x]
      /\ booking' = [x \in Ids |-> booking'[x]]
  <2>1. CASE Op(t).kind = "online"
    BY <1>1, <1>3, <1>4, <1>5, <2>1 DEF Live, BookingRows, Statuses
  <2>2. CASE Op(t).kind = "leave"
    <3> DEFINE st == "left"
               bs == {b}
    <3>1. st \in Statuses /\ st \notin {"pending", "confirmed"} /\ bs \in SUBSET Ids
      BY <1>3 DEF Statuses
    <3>2. booking' = SetStatus(bs, st) /\ \A x \in bs : booking[x] # None
      BY <1>1, <1>3, <2>2
    <3>3. b \in bs /\ \A x \in Ids : x # b => x \in Ids \ bs
      BY <1>3
    <3> HIDE DEF st, bs
    <3>4. Restated(booking', bs, st)
      BY <3>1, <3>2, StatusSet
    <3> QED BY <3>1, <3>3, <3>4 DEF Restated, Live
  <2>3. CASE Op(t).kind = "transfer"
    <3> DEFINE row == [booking[b] EXCEPT !.transfer = TRUE]
    <3>1. row \in BookingRows /\ row.child = booking[b].child /\ row.lesson = booking[b].lesson
          /\ row.status = booking[b].status
      BY <1>4 DEF BookingRows
    <3>2. booking' = [booking EXCEPT ![b] = row]
      BY <1>1, <2>3
    <3> HIDE DEF row
    <3>3. booking'[b] = row /\ \A x \in Ids : x # b => booking'[x] = booking[x]
      BY <1>3, <3>2
    <3>4. booking' = [x \in Ids |-> booking'[x]]
      BY <1>3, <3>2
    <3> QED BY <1>5, <2>3, <3>1, <3>3, <3>4 DEF Live
  <2> QED BY <1>2, <2>1, <2>2, <2>3
<1>7. booking' \in [Ids -> BookingRows \cup {None}] /\ booking'[b] # None
  BY <1>3, <1>6, NotNone
<1>8. \A x \in Ids : booking'[x] = booking[x] \/ BookingChanged(t, x)
  BY <1>2, <1>3, <1>6, <1>7 DEF BookingChanged
<1>9. Guarantee(t)
  BY <1>1, <1>2, <1>8 DEF Guarantee
<1>10. Typed'
  BY <1>1, <1>2, <1>7, TypedCommit DEF IInv, Typed, TypeOK, sourceVars, noticeVars
<1>11. \A x \in Ids : ~ BookingInserted(t, x)
  BY <1>3, <1>8 DEF BookingInserted, BookingChanged
<1>12. RowsInv'
  BY <1>1, <1>2, <1>9, <1>11, RowsCommit
<1> QED BY <1>2, <1>9, <1>10, <1>12, Commit

\* decide_airhop_booking keeps the invariant and the guarantee: the booking is still
\* pending, so it has no notice yet.
LEMMA DecideInv ==
  ASSUME IInv, NEW t \in Tries, Decide(t)
  PROVE  IInv' /\ Guarantee(t)
<1>0. PICK b : b = Op(t).booking
  OBVIOUS
<1> DEFINE n == IF config.messenger THEN [notice[b] EXCEPT !.state = "open"]
                ELSE [notice[b] EXCEPT !.call = TRUE]
<1>1. /\ Finish(t, {"decide"}) /\ UNCHANGED <<sourceVars, enrolled, lease, receipt, callback>>
      /\ booking' = [booking EXCEPT ![b].status = Op(t).answer]
      /\ notice' = [notice EXCEPT ![b] = n]
  BY <1>0 DEF Decide
<1>2. /\ Running(t) /\ Op(t).kind = "decide" /\ Op(t) \in Ops /\ Checked(t)
      /\ tx' = [tx EXCEPT ![t] = None] /\ done' = done \cup {t}
      /\ UNCHANGED <<config, expect, tries, faults>>
      /\ Owns(t, <<"key", t[1]>>) /\ booking[t] = None /\ \A u \in done : u[1] # t[1]
      /\ Owns(t, <<"booking", b>>) /\ booking[b].status = "pending"
  BY <1>0, <1>1, Finished DEF Finish, Ready, OnBooking
<1>3. b \in Ids /\ booking[b] # None /\ booking \in [Ids -> BookingRows \cup {None}]
  BY <1>0, <1>2 DEF Ops, Checked, OnBooking, IInv, Typed, TypeOK
<1>4. Op(t).answer \in {"confirmed", "rejected"}
  BY <1>2, OpType DEF Ops, IInv, Typed
<1>5. /\ booking'[b] \in BookingRows /\ booking'[b].status \in {"confirmed", "rejected"}
      /\ booking'[b].child = booking[b].child /\ booking'[b].lesson = booking[b].lesson
      /\ \A x \in Ids : x # b => booking'[x] = booking[x]
      /\ booking' = [x \in Ids |-> booking'[x]]
  <2>1. booking[b] \in BookingRows
    BY <1>3
  <2> QED BY <1>1, <1>3, <1>4, <2>1 DEF BookingRows, Statuses
<1>6. booking' \in [Ids -> BookingRows \cup {None}] /\ booking'[b] # None
  BY <1>3, <1>5, NotNone
<1>7. \A x \in Ids : booking'[x] = booking[x] \/ BookingChanged(t, x)
  <2>1. Live(b)
    BY <1>2, <1>3 DEF Live
  <2> QED BY <1>2, <1>3, <1>5, <1>6, <2>1 DEF BookingChanged
<1>8. Guarantee(t)
  BY <1>1, <1>2, <1>7 DEF Guarantee
<1> DEFINE NoticeRows == [state : {"none", "open", "published", "failed"}, attempts : 0..MaxAttempts,
                          lease : 0..MaxLeases, expired : BOOLEAN, call : BOOLEAN]
<1>9. notice \in [Ids -> NoticeRows] /\ notice[b] \in NoticeRows
  BY <1>3 DEF IInv, Typed, TypeOK
<1>10. /\ n \in NoticeRows /\ n.lease = notice[b].lease /\ n.attempts = notice[b].attempts
       /\ n.state = notice[b].state \/ n.state = "open"
  BY <1>9
<1>11. notice[b].state = "none"
  BY <1>2, <1>3 DEF IInv, RowsInv, NoticeInv, NoticeOk
<1> HIDE DEF n
<1>12. notice'[b] = n /\ \A x \in Ids : x # b => notice'[x] = notice[x]
  BY <1>1, <1>3, <1>9
<1>13. notice' \in [Ids -> NoticeRows]
  BY <1>1, <1>3, <1>9, <1>10
<1>14. Typed'
  BY <1>1, <1>2, <1>6, <1>13, TypedCommit DEF IInv, Typed, TypeOK, sourceVars
<1> HIDE DEF NoticeRows
<1>15. DoneInv'
  BY <1>2, <1>8, DoneCommit
<1>16. ScheduleInv' /\ SelectionKept'
  BY <1>1 DEF IInv, RowsInv, ScheduleInv, SelectionKept, Enrolled, sourceVars
<1>17. CancelledEmpty'
  <2> SUFFICES ASSUME NEW l \in Lessons, exception'[l].kind = "cancelled" PROVE Booked(l)' = {}
    BY DEF CancelledEmpty
  <2>1. Booked(l) = {}
    BY <1>1 DEF IInv, RowsInv, CancelledEmpty, sourceVars
  <2>2. \A x \in Ids : Live(x)' => Live(x) /\ booking'[x].lesson = booking[x].lesson
    BY <1>7 DEF BookingChanged, Live
  <2> QED BY <2>1, <2>2 DEF Booked
<1>18. LeaseInv'
  <2>1. \A x \in Ids : notice'[x].lease = notice[x].lease /\ (notice[x].state = "open" => notice'[x].state = "open")
    BY <1>10, <1>12
  <2>2. \A k \in DOMAIN lease : lease[k] \in Ids
    BY DEF IInv, Typed, TypeOK
  <2>3. LeaseInv /\ UNCHANGED <<lease, receipt, callback>>
    BY <1>1 DEF IInv, RowsInv
  <2> QED BY ONLY <2>1, <2>2, <2>3 DEF LeaseInv, CallbackOk
<1>19. NoticeInv'
  <2> SUFFICES ASSUME NEW x \in Ids
               PROVE  NoticeOk(x)'
    BY DEF NoticeInv
  <2>1. Failures(x)' = Failures(x) /\ Deliveries(x)' = Deliveries(x)
    BY <1>1 DEF Failures, Deliveries, Receipts
  <2>2. NoticeOk(x)
    BY DEF IInv, RowsInv, NoticeInv
  <2>3. CASE x = b
    BY <1>5, <1>6, <1>10, <1>11, <1>12, <2>1, <2>2, <2>3 DEF NoticeOk
  <2>4. CASE x # b
    BY <1>5, <1>12, <2>1, <2>2, <2>4 DEF NoticeOk
  <2> QED BY <2>3, <2>4
<1>20. RowsInv'
  BY <1>15, <1>16, <1>17, <1>18, <1>19 DEF RowsInv
<1> QED BY <1>2, <1>8, <1>14, <1>20, Commit

\* materialize_schedule opens a lesson only where its group is active, its rule
\* produces it and no exception cancels it.
LEMMA MaterializedLessons ==
  ASSUME Typed, NEW g, NEW r, NEW ex,
         g \in [status : {"active", "archived"}, capacity : Capacities, version : Nat],
         ex \in [Lessons -> [kind : {"none", "cancelled", "override"}, capacity : Capacities, version : Nat]]
  PROVE  /\ Materialized(g, r, ex) \in [Lessons -> [open : BOOLEAN, capacity : Capacities]]
         /\ \A l \in Lessons : Materialized(g, r, ex)[l].open =>
                g.status = "active" /\ r[l] = "kept" /\ ex[l].kind # "cancelled"
<1> DEFINE M(l) == IF g.status # "active" \/ r[l] # "kept" THEN [lesson[l] EXCEPT !.open = FALSE]
                   ELSE [open |-> ex[l].kind # "cancelled",
                         capacity |-> IF ex[l].kind = "none" THEN g.capacity ELSE ex[l].capacity]
<1>1. Materialized(g, r, ex) = [l \in Lessons |-> M(l)]
  BY DEF Materialized
<1>2. ASSUME NEW l \in Lessons
      PROVE  /\ M(l) \in [open : BOOLEAN, capacity : Capacities]
             /\ M(l).open => g.status = "active" /\ r[l] = "kept" /\ ex[l].kind # "cancelled"
  <2>1. lesson[l] \in [open : BOOLEAN, capacity : Capacities]
    BY DEF Typed, TypeOK
  <2>2. CASE g.status # "active" \/ r[l] # "kept"
    <3>1. M(l) = [lesson[l] EXCEPT !.open = FALSE]
      BY <2>2
    <3> HIDE DEF M
    <3>2. M(l) \in [open : BOOLEAN, capacity : Capacities] /\ M(l).open = FALSE
      BY <2>1, <3>1
    <3> QED BY <3>2
  <2>3. CASE g.status = "active" /\ r[l] = "kept"
    <3> DEFINE o == ex[l].kind # "cancelled"
               c == IF ex[l].kind = "none" THEN g.capacity ELSE ex[l].capacity
    <3>1. M(l) = [open |-> o, capacity |-> c]
      BY <2>3
    <3>2. c \in Capacities /\ o \in BOOLEAN
      OBVIOUS
    <3>3. o => ex[l].kind # "cancelled"
      OBVIOUS
    <3> HIDE DEF M, o, c
    <3>4. M(l) \in [open : BOOLEAN, capacity : Capacities] /\ M(l).open = o
      BY <3>1, <3>2
    <3> QED BY <2>3, <3>3, <3>4
  <2> QED BY <2>2, <2>3
<1> HIDE DEF M
<1> QED BY <1>1, <1>2

\* put_airhop_group keeps the invariant and the guarantee: the enrollments that
\* protect_enrollment_selections has seen are still all there are.
LEMMA PutGroupInv ==
  ASSUME IInv, NEW t \in Tries, PutGroup(t)
  PROVE  IInv' /\ Guarantee(t)
<1>1. /\ Finish(t, {"group"}) /\ UNCHANGED <<exception, booking, enrolled, noticeVars>>
      /\ group' = [status |-> Op(t).status, capacity |-> Op(t).capacity, version |-> group.version + 1]
      /\ rule' = Op(t).rule
      /\ lesson' = Materialized(group', rule', exception)
  BY DEF PutGroup
<1>2. /\ Running(t) /\ Op(t).kind = "group" /\ Op(t) \in Ops
      /\ tx' = [tx EXCEPT ![t] = None] /\ done' = done \cup {t}
      /\ UNCHANGED <<config, expect, tries, faults>>
      /\ Owns(t, <<"key", t[1]>>) /\ \A u \in done : u[1] # t[1]
      /\ Owns(t, <<"group", "g">>) /\ \A l \in Lessons : Owns(t, <<"lesson", l>>)
      /\ \A l \in Lessons : Op(t).rule[l] # "kept" => Enrolled(l) = {}
  BY <1>1, Finished DEF Finish, Ready
<1>3. Guarantee(t)
  BY <1>1, <1>2 DEF Guarantee
<1>4. group' \in [status : {"active", "archived"}, capacity : Capacities, version : Nat]
  <2>1. group.version + 1 \in Nat
    BY DEF IInv, Typed, TypeOK
  <2> QED BY <1>1, <1>2, <2>1 DEF Ops
<1>5. rule' \in [Lessons -> {"kept", "narrowed", "archived"}]
  BY <1>1, <1>2 DEF Ops
<1>6. exception \in [Lessons -> [kind : {"none", "cancelled", "override"}, capacity : Capacities, version : Nat]]
  BY DEF IInv, Typed, TypeOK
<1>7. /\ lesson' \in [Lessons -> [open : BOOLEAN, capacity : Capacities]]
      /\ \A l \in Lessons : lesson'[l].open =>
             group'.status = "active" /\ rule'[l] = "kept" /\ exception[l].kind # "cancelled"
  BY <1>1, <1>4, <1>6, MaterializedLessons DEF IInv
<1>8. Typed'
  BY <1>1, <1>2, <1>4, <1>5, <1>6, <1>7, TypedCommit DEF IInv, Typed, TypeOK, noticeVars
<1>9. DoneInv'
  BY <1>2, <1>3, DoneCommit
<1>10. ScheduleInv'
  BY <1>1, <1>7 DEF ScheduleInv
<1>11. CancelledEmpty'
  BY <1>1 DEF IInv, RowsInv, CancelledEmpty, Booked, Live
<1>12. SelectionKept'
  BY <1>1, <1>2 DEF SelectionKept, Enrolled
<1>13. RowsInv'
  BY <1>1, <1>3, <1>9, <1>10, <1>11, <1>12, NoticeCommit DEF RowsInv
<1> QED BY <1>2, <1>3, <1>8, <1>13, Commit

\* create_enrollment_and_first_payment keeps the invariant and the guarantee.
LEMMA EnrollInv ==
  ASSUME IInv, NEW t \in Tries, Enroll(t)
  PROVE  IInv' /\ Guarantee(t)
<1>1. /\ Finish(t, {"enroll", "trial"}) /\ UNCHANGED <<sourceVars, booking, noticeVars>>
      /\ enrolled' = [enrolled EXCEPT ![Child(t)] = {LessonOf(t)}]
  BY DEF Enroll
<1>2. /\ Running(t) /\ Op(t).kind \in {"enroll", "trial"} /\ Op(t) \in Ops
      /\ tx' = [tx EXCEPT ![t] = None] /\ done' = done \cup {t}
      /\ UNCHANGED <<config, expect, tries, faults>>
      /\ Owns(t, <<"key", t[1]>>) /\ \A u \in done : u[1] # t[1]
      /\ enrolled[Child(t)] = {} /\ rule[LessonOf(t)] = "kept"
      /\ Owns(t, <<"child", Child(t)>>) /\ Owns(t, <<"group", "g">>)
  BY <1>1, Finished DEF Finish, Ready
<1>3. Child(t) \in Children /\ LessonOf(t) \in Lessons
  BY <1>2 DEF Child, LessonOf, OnLesson, Ops
<1>4. enrolled \in [Children -> SUBSET Lessons]
  BY DEF IInv, Typed, TypeOK
<1>5. /\ enrolled' \in [Children -> SUBSET Lessons]
      /\ enrolled'[Child(t)] = {LessonOf(t)}
      /\ \A x \in Children : x # Child(t) => enrolled'[x] = enrolled[x]
  BY <1>1, <1>3, <1>4
<1>6. Guarantee(t)
  BY <1>1, <1>2, <1>3, <1>5 DEF Guarantee
<1>7. Typed'
  BY <1>1, <1>2, <1>5, TypedCommit DEF IInv, Typed, TypeOK, sourceVars, noticeVars
<1>8. \A b \in Ids : ~ BookingInserted(t, b)
  BY <1>1 DEF BookingInserted
<1>9. RowsInv'
  BY <1>1, <1>2, <1>6, <1>8, RowsCommit
<1> QED BY <1>2, <1>6, <1>7, <1>9, Commit

\* put_airhop_lesson_exception keeps the invariant and the guarantee: with the
\* lesson locked, the bookings it cancels are still all that are live.
LEMMA PutExceptionInv ==
  ASSUME IInv, NEW t \in Tries, PutException(t)
  PROVE  IInv' /\ Guarantee(t)
<1>0. PICK l : l = LessonOf(t)
  OBVIOUS
<1> DEFINE v == exception[l].version + 1
           row == CASE Op(t).kind = "cancel"   -> [kind |-> "cancelled", capacity |-> lesson[l].capacity, version |-> v]
                    [] Op(t).kind = "override" -> [kind |-> "override", capacity |-> Op(t).capacity, version |-> v]
                    [] Op(t).kind = "restore"  -> NoException
           ExRows == [kind : {"none", "cancelled", "override"}, capacity : Capacities, version : Nat]
           bs == CancelledWith(l)
<1>1. /\ Finish(t, {"cancel", "override", "restore"}) /\ UNCHANGED <<group, rule, enrolled, noticeVars>>
      /\ exception' = [exception EXCEPT ![l] = row]
      /\ lesson' = Materialized(group, rule, exception')
      /\ booking' = IF Op(t).kind = "cancel" THEN SetStatus(bs, "cancelled") ELSE booking
  BY <1>0 DEF PutException
<1>2. /\ Running(t) /\ Op(t).kind \in {"cancel", "override", "restore"} /\ Op(t) \in Ops
      /\ tx' = [tx EXCEPT ![t] = None] /\ done' = done \cup {t}
      /\ UNCHANGED <<config, expect, tries, faults>>
      /\ Owns(t, <<"key", t[1]>>) /\ \A u \in done : u[1] # t[1]
      /\ Owns(t, <<"group", "g">>) /\ \A x \in Lessons : Owns(t, <<"lesson", x>>)
      /\ Op(t).kind = "cancel" => \A b \in bs : Owns(t, <<"booking", b>>)
  <2>1. Ready(t)
    BY <1>1, Finished DEF Finish
  <2>2. Op(t).kind = "cancel" => \A b \in CancelledWith(LessonOf(t)) : Owns(t, <<"booking", b>>)
    BY <2>1 DEF Ready
  <2>3. Op(t).kind \in {"cancel", "override", "restore"}
    BY <1>1 DEF Finish
  <2>4. Owns(t, <<"group", "g">>) /\ \A x \in Lessons : Owns(t, <<"lesson", x>>)
    BY <2>1, <2>3 DEF Ready
  <2>5. Owns(t, <<"key", t[1]>>) /\ \A u \in done : u[1] # t[1]
    BY <2>1 DEF Ready
  <2> QED BY <1>0, <1>1, <2>1, <2>2, <2>3, <2>4, <2>5 DEF Finish, Ready
<1>3. l \in Lessons
  BY <1>0, <1>2 DEF LessonOf, OnLesson, Ops
<1>4. exception \in [Lessons -> ExRows] /\ exception[l] \in ExRows /\ lesson[l].capacity \in Capacities
  BY <1>3 DEF IInv, Typed, TypeOK
<1>5. v \in Nat
  BY <1>4
<1>6. row \in ExRows /\ (Op(t).kind # "cancel" => row.kind # "cancelled")
  <2> HIDE DEF v
  <2>1. CASE Op(t).kind = "cancel"
    BY <1>4, <1>5, <2>1
  <2>2. CASE Op(t).kind = "override"
    BY <1>2, <1>5, <2>2 DEF Ops
  <2>3. CASE Op(t).kind = "restore"
    <3>1. row = NoException
      BY <2>3
    <3> QED BY <2>3, <3>1, BookingsAssumption DEF NoException
  <2> QED BY <1>2, <2>1, <2>2, <2>3
<1> HIDE DEF row
<1>7. /\ exception' \in [Lessons -> ExRows] /\ exception'[l] = row
      /\ \A x \in Lessons : x # l => exception'[x] = exception[x]
  BY <1>1, <1>3, <1>4, <1>6
<1>8. group \in [status : {"active", "archived"}, capacity : Capacities, version : Nat]
  BY DEF IInv, Typed, TypeOK
<1>9. /\ lesson' \in [Lessons -> [open : BOOLEAN, capacity : Capacities]]
      /\ \A x \in Lessons : lesson'[x].open =>
             group.status = "active" /\ rule[x] = "kept" /\ exception'[x].kind # "cancelled"
  <2>1. PICK ex : ex = exception'
    OBVIOUS
  <2>2. lesson' = Materialized(group, rule, ex) /\ ex \in [Lessons -> ExRows] /\ Typed
    BY <1>1, <1>7, <2>1 DEF IInv
  <2> QED BY <1>8, <2>1, <2>2, MaterializedLessons
<1>10. /\ booking' \in [Ids -> BookingRows \cup {None}]
       /\ \A b \in Ids : booking'[b] = booking[b] \/ BookingChanged(t, b)
       /\ \A b \in Ids : Live(b)' => Live(b) /\ booking'[b].lesson = booking[b].lesson
       /\ Op(t).kind = "cancel" => \A b \in bs : ~ Live(b)'
  <2>1. CASE Op(t).kind # "cancel"
    BY <1>1, <2>1 DEF IInv, Typed, TypeOK, Live
  <2>2. CASE Op(t).kind = "cancel"
    <3> DEFINE st == "cancelled"
    <3>1. /\ bs \in SUBSET Ids /\ \A b \in bs : booking[b] # None
          /\ st \in Statuses /\ st \notin {"pending", "confirmed"}
          /\ booking' = SetStatus(bs, st)
      BY <1>1, <2>2 DEF CancelledWith, Live, Statuses
    <3>2. \A b \in bs : Owns(t, <<"booking", b>>)
      BY <1>2, <2>2
    <3> HIDE DEF bs, st
    <3>3. Restated(booking', bs, st)
      BY <3>1, StatusSet
    <3>4. \A b \in bs : ~ Live(b)'
      BY <3>1, <3>3 DEF Restated, Live
    <3>5. \A b \in Ids \ bs : Live(b)' => Live(b)
      BY <3>3 DEF Restated, Live
    <3>6. ASSUME NEW b \in Ids PROVE booking'[b] = booking[b] \/ BookingChanged(t, b)
      <4>1. CASE b \in bs
        BY <3>1, <3>2, <3>3, <3>4, <4>1 DEF Restated, BookingChanged
      <4>2. CASE b \notin bs
        BY <3>3, <4>2 DEF Restated
      <4> QED BY <4>1, <4>2
    <3> QED BY <3>3, <3>4, <3>5, <3>6 DEF Restated
  <2> QED BY <2>1, <2>2
<1>11. Guarantee(t)
  BY <1>1, <1>2, <1>10 DEF Guarantee
<1>12. Typed'
  BY <1>1, <1>2, <1>7, <1>9, <1>10, TypedCommit DEF IInv, Typed, TypeOK, noticeVars
<1>13. DoneInv'
  BY <1>2, <1>11, DoneCommit
<1>14. ScheduleInv'
  BY <1>1, <1>9 DEF ScheduleInv
<1>15. CancelledEmpty'
  <2> SUFFICES ASSUME NEW x \in Lessons, exception'[x].kind = "cancelled",
                      NEW b \in Ids, Live(b)', booking'[b].lesson = x
               PROVE  FALSE
    BY DEF CancelledEmpty, Booked
  <2>1. Live(b) /\ booking[b].lesson = x
    BY <1>10
  <2>2. CASE x = l
    <3>1. b \in bs
      BY <2>1, <2>2 DEF CancelledWith
    <3>2. Op(t).kind = "cancel"
      BY <1>6, <1>7, <2>2
    <3> QED BY <1>10, <3>1, <3>2
  <2>3. CASE x # l
    <3>1. Booked(x) = {}
      BY <1>7, <2>3 DEF IInv, RowsInv, CancelledEmpty
    <3> QED BY <2>1, <3>1 DEF Booked
  <2> QED BY <2>2, <2>3
<1>16. SelectionKept'
  BY <1>1 DEF IInv, RowsInv, SelectionKept, Enrolled
<1>17. RowsInv'
  BY <1>1, <1>11, <1>13, <1>14, <1>15, <1>16, NoticeCommit DEF RowsInv
<1> QED BY <1>2, <1>11, <1>12, <1>17, Commit

-----------------------------------------------------------------------------
(* Notices *)

NoticeRows == [state : {"none", "open", "published", "failed"}, attempts : 0..MaxAttempts,
               lease : 0..MaxLeases, expired : BOOLEAN, call : BOOLEAN]

CallbackRows == [pc : {"idle", "waiting", "answered", "lost"},
                 outcome : {"none", "delivered", "error"},
                 answer : {"none", "delivered", "retry", "failed", "denied"}]

\* A step of a connector changes notices, leases, receipts and callbacks only: it
\* keeps the invariant if it keeps the parts about those.
LEMMA ConnectorStep ==
  ASSUME IInv, Unmoved, UNCHANGED commandVars, faults' \in Nat,
         notice' \in [Ids -> NoticeRows], lease' \in Seq(Ids),
         receipt' \in [Leases -> {"none", "delivered", "retry", "failed"}],
         callback' \in [Leases -> [Callbacks -> CallbackRows]],
         LeaseInv', NoticeInv'
  PROVE  IInv'
<1> USE DEF commandVars
<1>1. \A t \in Tries : Running(t)' <=> Running(t)
  BY DEF Running
<1>2. Typed'
  <2>1. TypeOK'
    BY <1>1, Frame DEF IInv, Typed, TypeOK, Unmoved, sourceVars, NoticeRows
  <2> QED BY <1>1, <2>1 DEF IInv, Typed, Unmoved, CallbackRows
<1>3. Exclusive'
  <2>1. \A s \in Tries : \A row : Shares(s, row)' <=> Shares(s, row)
    BY Frame DEF Shares
  <2> QED BY <1>1, <2>1 DEF IInv, Exclusive
<1>4. TxInv'
  BY <1>1, FrameTx DEF IInv, TxInv
<1>5. DoneInv' /\ ScheduleInv'
  BY DEF IInv, RowsInv, DoneInv, ScheduleInv, Unmoved, sourceVars
<1>6. CancelledEmpty' /\ SelectionKept'
  BY Frame DEF IInv, RowsInv, CancelledEmpty, SelectionKept, Unmoved, sourceVars
<1> QED BY <1>2, <1>3, <1>4, <1>5, <1>6 DEF IInv, RowsInv

\* The types of the notices, leases, receipts and callbacks.
LEMMA NoticeTypes ==
  ASSUME IInv
  PROVE  /\ notice \in [Ids -> NoticeRows] /\ lease \in Seq(Ids) /\ faults \in Nat
         /\ receipt \in [Leases -> {"none", "delivered", "retry", "failed"}]
         /\ callback \in [Leases -> [Callbacks -> CallbackRows]]
         /\ DOMAIN lease = 1..Len(lease) /\ Len(lease) \in 0..MaxLeases /\ DOMAIN lease \subseteq Leases
         /\ MaxLeases \in Nat /\ MaxAttempts \in Nat \ {0}
<1>1. /\ notice \in [Ids -> NoticeRows] /\ lease \in Seq(Ids) /\ faults \in Nat
      /\ receipt \in [Leases -> {"none", "delivered", "retry", "failed"}]
      /\ callback \in [Leases -> [Callbacks -> CallbackRows]]
  BY DEF IInv, Typed, TypeOK, NoticeRows, CallbackRows
<1>2. Len(lease) <= MaxLeases /\ MaxLeases \in Nat /\ MaxAttempts \in Nat \ {0}
  BY BookingsAssumption DEF IInv, RowsInv, LeaseInv, CallbackOk
<1>3. DOMAIN lease = 1..Len(lease) /\ Len(lease) \in Nat
  BY <1>1
<1> QED BY <1>1, <1>2, <1>3 DEF Leases

\* claim_airhop_parent_notifications keeps the invariant: the new lease token ends
\* an older lease of the same notice.
LEMMA ClaimInv ==
  ASSUME IInv, NEW b \in Ids, Claim(b)
  PROVE  IInv'
<1> DEFINE k == Len(lease) + 1
           n == [notice[b] EXCEPT !.lease = k, !.expired = FALSE]
<1>1. /\ Claimable(b) /\ Len(lease) < MaxLeases
      /\ lease' = Append(lease, b)
      /\ notice' = [notice EXCEPT ![b].lease = Len(lease'), ![b].expired = FALSE]
      /\ Unmoved /\ UNCHANGED <<commandVars, receipt, callback, faults>>
  BY DEF Claim, Unmoved, commandVars
<1>2. /\ Len(lease') = k /\ lease' \in Seq(Ids) /\ k \in 1..MaxLeases /\ k \in Nat
      /\ DOMAIN lease' = 1..k /\ lease'[k] = b /\ \A j \in DOMAIN lease : lease'[j] = lease[j]
      /\ DOMAIN lease = 1..(k - 1)
  BY <1>1, NoticeTypes
<1>3. n \in NoticeRows /\ n.lease = k /\ n.state = notice[b].state /\ n.attempts = notice[b].attempts
      /\ n.call = notice[b].call
  <2>1. notice[b] \in NoticeRows /\ k \in 0..MaxLeases
    BY <1>2, NoticeTypes
  <2> HIDE DEF k
  <2> QED BY <2>1 DEF NoticeRows
<1>4. notice' = [notice EXCEPT ![b] = n]
  BY <1>1, <1>2, NoticeTypes DEF NoticeRows
<1> HIDE DEF n
<1>5. /\ notice' \in [Ids -> NoticeRows] /\ notice'[b] = n
      /\ \A x \in Ids : x # b => notice'[x] = notice[x]
  BY <1>3, <1>4, NoticeTypes
<1>6. k \in Leases /\ receipt[k] = "none"
  BY <1>2, NoticeTypes DEF IInv, RowsInv, LeaseInv, CallbackOk, Leases
<1>7. LeaseInv'
  <2>0. LeaseInv /\ n.state = "open"
    BY <1>1, <1>3 DEF IInv, RowsInv, Claimable
  <2>1. Len(lease') <= MaxLeases
    BY <1>2
  <2>2. \A x \in Ids : notice'[x].lease # 0 =>
            notice'[x].state = "open" /\ notice'[x].lease \in DOMAIN lease' /\ lease'[notice'[x].lease] = x
    BY <1>2, <1>3, <1>5, <2>0 DEF LeaseInv, CallbackOk
  <2>3. \A j \in DOMAIN lease : lease[j] \in Ids /\ lease'[j] = lease[j] /\ j \in DOMAIN lease' /\ j # k
    BY <1>2, NoticeTypes
  <2>4. \A j \in DOMAIN lease : notice[lease[j]].lease # j => notice'[lease'[j]].lease # j
    BY <1>3, <1>5, <2>3
  <2>5. \A j \in Leases : receipt'[j] # "none" => j \in DOMAIN lease' /\ notice'[lease'[j]].lease # j
    BY <1>1, <2>0, <2>3, <2>4 DEF LeaseInv, CallbackOk
  <2>6. \A j \in Leases, i \in Callbacks : CallbackOk(j, i)'
    <3> TAKE j \in Leases, i \in Callbacks
    <3>1. CallbackOk(j, i)
      BY <2>0 DEF LeaseInv
    <3> QED BY <1>1, <2>3, <2>4, <3>1 DEF CallbackOk
  <2> QED BY <2>1, <2>2, <2>5, <2>6 DEF LeaseInv
<1>8. NoticeInv'
  <2> SUFFICES ASSUME NEW x \in Ids PROVE NoticeOk(x)'
    BY DEF NoticeInv
  <2>1. Receipts(x)' = Receipts(x)
    BY <1>1, <1>2, <1>6 DEF Receipts
  <2>2. Failures(x)' = Failures(x) /\ Deliveries(x)' = Deliveries(x)
    BY <1>1, <2>1 DEF Failures, Deliveries
  <2>3. /\ notice'[x].state = notice[x].state /\ notice'[x].attempts = notice[x].attempts
        /\ notice'[x].call = notice[x].call
    BY <1>3, <1>5
  <2>4. NoticeOk(x) /\ booking'[x] = booking[x]
    BY <1>1 DEF IInv, RowsInv, NoticeInv, Unmoved
  <2> QED BY <2>2, <2>3, <2>4 DEF NoticeOk
<1> QED BY <1>1, <1>2, <1>5, <1>7, <1>8, ConnectorStep, NoticeTypes

\* A lease that runs out keeps the invariant.
LEMMA ExpireInv ==
  ASSUME IInv, NEW b \in Ids, Expire(b)
  PROVE  IInv'
<1> DEFINE n == [notice[b] EXCEPT !.expired = TRUE]
<1>1. /\ notice' = [notice EXCEPT ![b] = n]
      /\ Unmoved /\ UNCHANGED <<commandVars, lease, receipt, callback>> /\ faults' \in Nat
  BY NoticeTypes DEF Expire, Unmoved, commandVars
<1>2. /\ n \in NoticeRows /\ n.lease = notice[b].lease /\ n.state = notice[b].state
      /\ n.attempts = notice[b].attempts /\ n.call = notice[b].call
  BY NoticeTypes DEF NoticeRows
<1> HIDE DEF n
<1>3. /\ notice' \in [Ids -> NoticeRows]
      /\ \A x \in Ids : /\ notice'[x].lease = notice[x].lease /\ notice'[x].state = notice[x].state
                        /\ notice'[x].attempts = notice[x].attempts /\ notice'[x].call = notice[x].call
  BY <1>1, <1>2, NoticeTypes
<1>4. LeaseInv'
  <2>1. \A j \in DOMAIN lease : lease[j] \in Ids
    BY NoticeTypes
  <2>2. LeaseInv
    BY DEF IInv, RowsInv
  <2> QED BY ONLY <1>1, <1>3, <2>1, <2>2 DEF LeaseInv, CallbackOk
<1>5. NoticeInv'
  <2>1. \A x : Failures(x)' = Failures(x) /\ Deliveries(x)' = Deliveries(x)
    BY <1>1 DEF Failures, Deliveries, Receipts
  <2> QED BY <1>1, <1>3, <2>1 DEF IInv, RowsInv, NoticeInv, NoticeOk, Unmoved
<1> QED BY <1>1, <1>3, <1>4, <1>5, ConnectorStep, NoticeTypes

\* A step that only changes callbacks, and answers at most what is recorded.
LEMMA CallbackStep ==
  ASSUME IInv, Unmoved, UNCHANGED <<commandVars, notice, lease, receipt>>, faults' \in Nat,
         NEW k \in DOMAIN lease, NEW i \in Callbacks, NEW c \in CallbackRows,
         callback' = [callback EXCEPT ![k][i] = c],
         c.pc = "waiting" => c.outcome # "none",
         c.pc = "answered" =>
             \/ receipt[k] # "none" /\ c.answer = receipt[k]
             \/ receipt[k] = "none" /\ c.answer = "denied" /\ notice[lease[k]].lease # k
  PROVE  IInv'
<1>1. /\ callback' \in [Leases -> [Callbacks -> CallbackRows]] /\ callback'[k][i] = c
      /\ \A j \in Leases, h \in Callbacks : j # k \/ h # i => callback'[j][h] = callback[j][h]
  BY NoticeTypes
<1>2. LeaseInv'
  <2>1. \A j \in Leases, h \in Callbacks : CallbackOk(j, h)'
    <3> TAKE j \in Leases, h \in Callbacks
    <3>1. CASE j = k /\ h = i
      BY <1>1, <3>1 DEF CallbackOk
    <3>2. CASE j # k \/ h # i
      BY <1>1, <3>2 DEF IInv, RowsInv, LeaseInv, CallbackOk
    <3> QED BY <3>1, <3>2
  <2> QED BY <2>1 DEF IInv, RowsInv, LeaseInv
<1>3. NoticeInv'
  <2>1. \A x : Failures(x)' = Failures(x) /\ Deliveries(x)' = Deliveries(x)
    BY DEF Failures, Deliveries, Receipts
  <2> QED BY <2>1 DEF IInv, RowsInv, NoticeInv, NoticeOk, Unmoved
<1> QED BY <1>1, <1>2, <1>3, ConnectorStep, NoticeTypes

\* A report of the connector, also a second one, keeps the invariant.
LEMMA ReportInv ==
  ASSUME IInv, NEW k \in Leases, NEW i \in Callbacks, NEW outcome \in {"delivered", "error"},
         Report(k, i, outcome)
  PROVE  IInv'
<1> DEFINE c == [pc |-> IF receipt[k] = "none" THEN "waiting" ELSE "answered",
                 outcome |-> outcome, answer |-> receipt[k]]
<1>1. /\ k \in DOMAIN lease /\ callback' = [callback EXCEPT ![k][i] = c]
      /\ Unmoved /\ UNCHANGED <<commandVars, notice, lease, receipt>> /\ faults' \in Nat
  BY NoticeTypes DEF Report, Unmoved, commandVars
<1>2. receipt[k] \in {"none", "delivered", "retry", "failed"}
  BY NoticeTypes
<1>3. /\ c \in CallbackRows
      /\ c.pc = "waiting" => c.outcome # "none"
      /\ c.pc = "answered" => receipt[k] # "none" /\ c.answer = receipt[k]
  BY <1>2 DEF CallbackRows
<1> HIDE DEF c
<1> QED BY <1>1, <1>3, CallbackStep

\* A connector that stops keeps the invariant.
LEMMA CrashInv ==
  ASSUME IInv, NEW k \in Leases, Crash(k)
  PROVE  IInv'
<1> DEFINE c == [callback[k][1] EXCEPT !.pc = "lost"]
<1>1. 1 \in Callbacks /\ callback[k][1] \in CallbackRows
  BY NoticeTypes DEF Callbacks
<1>2. /\ k \in DOMAIN lease /\ callback' = [callback EXCEPT ![k][1] = c]
      /\ Unmoved /\ UNCHANGED <<commandVars, notice, lease, receipt>> /\ faults' \in Nat
  BY NoticeTypes DEF Crash, Unmoved, commandVars
<1>3. c \in CallbackRows /\ c.pc = "lost"
  BY <1>1 DEF CallbackRows
<1> HIDE DEF c
<1> QED BY <1>1, <1>2, <1>3, CallbackStep

\* What complete_airhop_parent_notification writes to a notice: one more attempt, and
\* its end after a delivery or the last attempt allowed.
LEMMA SettledNotice ==
  ASSUME IInv, NEW b \in Ids, notice[b].state \in {"none", "open"}, NEW o \in {"delivered", "error"}
  PROVE  LET outcome == Outcome(b, o)
             n == Settled(notice[b], outcome)
         IN  /\ outcome \in {"delivered", "retry", "failed"}
             /\ n \in NoticeRows /\ n.lease = 0 /\ n.attempts = notice[b].attempts + 1
             /\ outcome = "delivered" => n.state = "published"
             /\ outcome = "failed" => n.state = "failed" /\ n.call /\ notice[b].attempts + 1 = MaxAttempts
             /\ outcome = "retry" => n.state = "open" /\ notice[b].attempts + 1 < MaxAttempts
<1> DEFINE outcome == Outcome(b, o)
           n == Settled(notice[b], outcome)
           a == notice[b].attempts
<1>1. notice[b] \in NoticeRows /\ a \in Nat /\ a < MaxAttempts /\ MaxAttempts \in Nat /\ 0 \in 0..MaxLeases
  BY NoticeTypes DEF NoticeRows, IInv, RowsInv, NoticeInv, NoticeOk
<1>2. a + 1 \in 0..MaxAttempts
  BY <1>1
<1>3. /\ outcome \in {"delivered", "retry", "failed"}
      /\ outcome = "failed" => a + 1 = MaxAttempts
      /\ outcome = "retry" => a + 1 < MaxAttempts
  BY <1>1 DEF Outcome
<1> HIDE DEF outcome
<1>4. CASE outcome = "delivered"
  <2>1. n = [notice[b] EXCEPT !.attempts = a + 1, !.lease = 0, !.expired = FALSE, !.state = "published", !.call = FALSE]
    BY <1>1, <1>4 DEF Settled, NoticeRows
  <2> HIDE DEF n
  <2> QED BY <1>1, <1>2, <1>3, <1>4, <2>1 DEF NoticeRows, n, outcome
<1>5. CASE outcome = "failed"
  <2>1. n = [notice[b] EXCEPT !.attempts = a + 1, !.lease = 0, !.expired = FALSE, !.state = "failed", !.call = TRUE]
    BY <1>1, <1>5 DEF Settled, NoticeRows
  <2> QED BY <1>1, <1>2, <1>3, <1>5, <2>1 DEF NoticeRows, outcome
<1>6. CASE outcome = "retry"
  <2>1. n = [notice[b] EXCEPT !.attempts = a + 1, !.lease = 0, !.expired = FALSE, !.state = "open", !.call = FALSE]
    BY <1>1, <1>6 DEF Settled, NoticeRows
  <2> QED BY <1>1, <1>2, <1>3, <1>6, <2>1 DEF NoticeRows, outcome
<1> QED BY <1>3, <1>4, <1>5, <1>6

\* complete_airhop_parent_notification keeps the invariant: it answers what is
\* recorded, denies a lease that is over, or records.
LEMMA CompleteInv ==
  ASSUME IInv, NEW k \in Leases, NEW i \in Callbacks, Complete(k, i)
  PROVE  IInv'
<1>0. PICK b, o : b = lease[k] /\ o = callback[k][i].outcome
  OBVIOUS
<1> DEFINE outcome == Outcome(b, o)
           Answered(a) == [callback[k][i] EXCEPT !.pc = "answered", !.answer = a]
           n == Settled(notice[b], outcome)
           Answers == {"none", "delivered", "retry", "failed", "denied"}
<1>1. /\ callback[k][i].pc = "waiting"
      /\ Unmoved /\ UNCHANGED <<commandVars, lease>> /\ faults' \in Nat
      /\ \/ /\ receipt[k] # "none"
            /\ callback' = [callback EXCEPT ![k][i].pc = "answered", ![k][i].answer = receipt[k]]
            /\ UNCHANGED <<notice, receipt>>
         \/ /\ receipt[k] = "none" /\ (notice[b].state # "open" \/ notice[b].lease # k)
            /\ callback' = [callback EXCEPT ![k][i].pc = "answered", ![k][i].answer = "denied"]
            /\ UNCHANGED <<notice, receipt>>
         \/ /\ receipt[k] = "none" /\ notice[b].state = "open" /\ notice[b].lease = k
            /\ callback' = [callback EXCEPT ![k][i].pc = "answered", ![k][i].answer = outcome]
            /\ receipt' = [receipt EXCEPT ![k] = outcome]
            /\ notice' = [notice EXCEPT ![b] = n]
  BY <1>0, NoticeTypes DEF Complete, Recorded, Unmoved, commandVars
<1>2. k \in DOMAIN lease /\ b \in Ids /\ o \in {"delivered", "error"} /\ callback[k][i] \in CallbackRows
  <2>1. CallbackOk(k, i) /\ callback[k][i] \in CallbackRows
    BY NoticeTypes DEF IInv, RowsInv, LeaseInv
  <2>2. k \in DOMAIN lease /\ o # "none"
    BY <1>0, <1>1, <2>1 DEF CallbackOk
  <2> QED BY <1>0, <2>1, <2>2, NoticeTypes DEF CallbackRows
<1>3. ASSUME NEW a \in Answers
      PROVE  /\ Answered(a) \in CallbackRows /\ Answered(a).pc = "answered" /\ Answered(a).answer = a
             /\ [callback EXCEPT ![k][i].pc = "answered", ![k][i].answer = a] =
                    [callback EXCEPT ![k][i] = Answered(a)]
  BY <1>2, NoticeTypes DEF CallbackRows
<1> HIDE DEF Answered
<1>4. receipt[k] \in {"none", "delivered", "retry", "failed"}
  BY NoticeTypes
<1>5. CASE /\ receipt[k] # "none"
           /\ callback' = [callback EXCEPT ![k][i].pc = "answered", ![k][i].answer = receipt[k]]
           /\ UNCHANGED <<notice, receipt>>
  <2>1. PICK a \in Answers : a = receipt[k]
    BY <1>4
  <2>2. PICK c : c = Answered(a)
    OBVIOUS
  <2>3. callback' = [callback EXCEPT ![k][i] = c] /\ c \in CallbackRows /\ c.pc = "answered" /\ c.answer = receipt[k]
    BY <1>3, <1>5, <2>1, <2>2
  <2>4. /\ IInv /\ Unmoved /\ UNCHANGED <<commandVars, notice, lease, receipt>> /\ faults' \in Nat
        /\ k \in DOMAIN lease /\ i \in Callbacks /\ receipt[k] # "none"
    BY <1>1, <1>2, <1>5
  <2> HIDE DEF Answers
  <2> QED BY ONLY <2>2, <2>3, <2>4, CallbackStep
<1>6. CASE /\ receipt[k] = "none" /\ (notice[b].state # "open" \/ notice[b].lease # k)
           /\ callback' = [callback EXCEPT ![k][i].pc = "answered", ![k][i].answer = "denied"]
           /\ UNCHANGED <<notice, receipt>>
  <2> DEFINE a == "denied"
  <2>1. a \in Answers /\ a = "denied"
    OBVIOUS
  <2>2. callback' = [callback EXCEPT ![k][i].pc = "answered", ![k][i].answer = a]
    BY <1>6
  <2> HIDE DEF a
  <2>3. /\ callback' = [callback EXCEPT ![k][i] = Answered(a)] /\ Answered(a) \in CallbackRows
        /\ Answered(a).pc = "answered" /\ Answered(a).answer = "denied"
    BY <1>3, <2>1, <2>2
  <2>4. notice[lease[k]].lease # k
    BY <1>0, <1>2, <1>6, NoticeTypes DEF IInv, RowsInv, LeaseInv
  <2> QED BY <1>1, <1>2, <1>6, <2>3, <2>4, CallbackStep
<1>7. CASE /\ receipt[k] = "none" /\ notice[b].state = "open" /\ notice[b].lease = k
           /\ callback' = [callback EXCEPT ![k][i].pc = "answered", ![k][i].answer = outcome]
           /\ receipt' = [receipt EXCEPT ![k] = outcome]
           /\ notice' = [notice EXCEPT ![b] = n]
  <2>1. /\ outcome \in {"delivered", "retry", "failed"}
        /\ n \in NoticeRows /\ n.lease = 0 /\ n.attempts = notice[b].attempts + 1
        /\ outcome = "delivered" => n.state = "published"
        /\ outcome = "failed" => n.state = "failed" /\ n.call /\ notice[b].attempts + 1 = MaxAttempts
        /\ outcome = "retry" => n.state = "open" /\ notice[b].attempts + 1 < MaxAttempts
    BY <1>2, <1>7, SettledNotice
  <2> HIDE DEF n, outcome
  <2>2. /\ callback' \in [Leases -> [Callbacks -> CallbackRows]]
        /\ callback'[k][i].pc = "answered" /\ callback'[k][i].answer = outcome
        /\ \A j \in Leases, h \in Callbacks : j # k \/ h # i => callback'[j][h] = callback[j][h]
    <3>1. callback' = [callback EXCEPT ![k][i] = Answered(outcome)]
      BY <1>3, <1>7, <2>1
    <3>2. /\ Answered(outcome) \in CallbackRows /\ Answered(outcome).pc = "answered"
          /\ Answered(outcome).answer = outcome
      BY <1>3, <2>1
    <3> QED BY <3>1, <3>2, NoticeTypes
  <2>3. /\ receipt' \in [Leases -> {"none", "delivered", "retry", "failed"}] /\ receipt'[k] = outcome
        /\ \A j \in Leases : j # k => receipt'[j] = receipt[j]
    BY <1>7, <2>1, NoticeTypes
  <2>4. /\ notice' \in [Ids -> NoticeRows] /\ notice'[b] = n
        /\ \A x \in Ids : x # b => notice'[x] = notice[x]
    BY <1>2, <1>7, <2>1, NoticeTypes
  <2>5. LeaseInv'
    <3>0. LeaseInv /\ lease' = lease /\ k # 0 /\ receipt'[k] # "none"
      BY <1>1, <1>2, <2>1, <2>3, NoticeTypes DEF IInv, RowsInv
    <3>1. \A x \in Ids : notice'[x].lease # 0 =>
              notice'[x].state = "open" /\ notice'[x].lease \in DOMAIN lease' /\ lease'[notice'[x].lease] = x
      BY <2>1, <2>4, <3>0 DEF LeaseInv
    <3>2. \A j \in DOMAIN lease : lease[j] \in Ids /\ j \in Leases /\ j # 0
      BY NoticeTypes
    <3>3. \A j \in DOMAIN lease : notice[lease[j]].lease # j => notice'[lease[j]].lease # j
      BY <2>1, <2>4, <3>2
    <3>4. \A j \in Leases : receipt'[j] # "none" => j \in DOMAIN lease' /\ notice'[lease'[j]].lease # j
      BY <1>0, <1>2, <2>1, <2>3, <2>4, <3>0, <3>3 DEF LeaseInv
    <3>5. \A j \in Leases, h \in Callbacks : CallbackOk(j, h)'
      <4> TAKE j \in Leases, h \in Callbacks
      <4>1. CallbackOk(j, h)
        BY <3>0 DEF LeaseInv
      <4>2. CASE j = k /\ h = i
        BY <1>2, <2>2, <2>3, <3>0, <4>2 DEF CallbackOk
      <4>3. CASE j = k /\ h # i
        \* The lease of k was not over: nothing was denied, nothing recorded.
        <5>1. callback'[j][h] = callback[j][h]
          BY <2>2, <4>3
        <5>2. callback[j][h].pc # "answered"
          BY <1>0, <1>7, <4>1, <4>3 DEF CallbackOk
        <5> QED BY <3>0, <4>1, <5>1, <5>2 DEF CallbackOk
      <4>4. CASE j # k
        BY <2>2, <2>3, <3>0, <3>3, <4>1, <4>4 DEF CallbackOk
      <4> QED BY <4>2, <4>3, <4>4
    <3> QED BY <3>0, <3>1, <3>4, <3>5 DEF LeaseInv
  <2>6. ASSUME NEW x \in Ids, x # b
        PROVE  NoticeOk(x)'
    <3>1. Receipts(x)' = Receipts(x)
      BY <1>0, <1>1, <2>3, <2>6, NoticeTypes DEF Receipts
    <3>2. \A j \in Receipts(x) : receipt'[j] = receipt[j]
      BY <1>0, <2>3, <2>6, NoticeTypes DEF Receipts
    <3>3. Failures(x)' = Failures(x) /\ Deliveries(x)' = Deliveries(x)
      BY <3>1, <3>2 DEF Failures, Deliveries
    <3> QED BY <1>1, <2>4, <2>6, <3>3 DEF IInv, RowsInv, NoticeInv, NoticeOk, Unmoved
  <2>7. NoticeOk(b)'
    <3>1. NoticeOk(b) /\ booking'[b] = booking[b]
      BY <1>1, <1>2 DEF IInv, RowsInv, NoticeInv, Unmoved
    <3>2. Receipts(b)' = Receipts(b) \cup {k} /\ k \notin Receipts(b)
      BY <1>0, <1>1, <1>2, <1>7, <2>1, <2>3, NoticeTypes DEF Receipts
    <3>3. \A j \in Receipts(b) : receipt'[j] = receipt[j]
      BY <1>7, <2>3, NoticeTypes DEF Receipts
    <3>4. IsFiniteSet(Failures(b)) /\ Cardinality(Failures(b)) \in Nat /\ k \notin Failures(b)
      <4>1. Failures(b) \in SUBSET (1..Len(lease)) /\ Len(lease) \in Int
        BY NoticeTypes DEF Failures, Receipts
      <4>2. IsFiniteSet(1..Len(lease))
        BY <4>1, FS_Interval
      <4>3. IsFiniteSet(Failures(b))
        BY ONLY <4>1, <4>2, FS_Subset
      <4> QED BY <3>2, <4>3, FS_CardinalityType DEF Failures
    <3>5. /\ Deliveries(b) = {} /\ Cardinality(Failures(b)) = notice[b].attempts /\ notice[b].attempts < MaxAttempts
          /\ booking[b] # None /\ booking[b].status # "pending"
      BY <1>7, <3>1 DEF NoticeOk
    <3>6. CASE outcome = "delivered"
      <4>1. Failures(b)' = Failures(b)
        BY <2>3, <3>2, <3>3, <3>6 DEF Failures
      <4>2. k \in Deliveries(b)'
        BY <2>3, <3>2, <3>6 DEF Deliveries
      <4> QED BY <2>1, <2>4, <3>1, <3>5, <3>6, <4>1, <4>2 DEF NoticeOk
    <3>7. CASE outcome \in {"retry", "failed"}
      <4>1. Failures(b)' = Failures(b) \cup {k}
        BY <2>3, <3>2, <3>3, <3>7 DEF Failures
      <4>2. Cardinality(Failures(b)') = notice[b].attempts + 1
        BY <3>4, <3>5, <4>1, FS_AddElement
      <4>3. Deliveries(b)' = {}
        BY <2>3, <3>2, <3>3, <3>5, <3>7 DEF Deliveries
      <4>4. Cardinality(Failures(b))' = notice[b].attempts + 1
        BY <4>2
      <4> QED BY <2>1, <2>4, <3>1, <3>5, <3>7, <4>3, <4>4 DEF NoticeOk
    <3> QED BY <2>1, <3>6, <3>7
  <2>8. NoticeInv'
    BY <2>6, <2>7 DEF NoticeInv
  <2> QED BY <1>1, <2>2, <2>3, <2>4, <2>5, <2>8, ConnectorStep, NoticeTypes
<1> QED BY <1>1, <1>5, <1>6, <1>7

-----------------------------------------------------------------------------
(* The invariant holds initially and is kept by every step *)

\* The invariant holds initially.
LEMMA InitInv == Init => IInv
<1> SUFFICES ASSUME Init PROVE IInv
  OBVIOUS
<1>1. config \in Configs /\ config.capacity \in Capacities /\ config.ops \in [Requests -> Ops]
  BY BookingsAssumption DEF Init
<1>2. \A b \in Ids : booking[b] = None \/ (b \in Seeds /\ booking[b] \in BookingRows)
  BY <1>1, BookingsAssumption DEF Init
<1>3. /\ tx = [t \in Tries |-> None] /\ \A t \in Tries : ~ Running(t)
      /\ notice = [b \in Ids |-> NoNotice] /\ lease = <<>> /\ receipt = [k \in Leases |-> "none"]
      /\ callback = [k \in Leases |-> [i \in Callbacks |-> IdleCallback]]
  BY DEF Init, Running
<1>4. NoNotice \in NoticeRows /\ IdleCallback \in CallbackRows
  BY BookingsAssumption DEF NoNotice, NoticeRows, IdleCallback, CallbackRows
<1>5. Typed
  <2>1. group \in [status : {"active", "archived"}, capacity : Capacities, version : Nat]
    BY <1>1 DEF Init
  <2>2. NoException \in [kind : {"none", "cancelled", "override"}, capacity : Capacities, version : Nat]
    BY BookingsAssumption DEF NoException
  <2>3. /\ rule \in [Lessons -> {"kept", "narrowed", "archived"}]
        /\ exception \in [Lessons -> [kind : {"none", "cancelled", "override"}, capacity : Capacities, version : Nat]]
        /\ enrolled \in [Children -> SUBSET Lessons] /\ done \subseteq Tries
        /\ expect \in [Requests -> Nat]
    BY <2>2 DEF Init
  <2>4. lesson \in [Lessons -> [open : BOOLEAN, capacity : Capacities]]
    BY <1>1 DEF Init
  <2>5. booking \in [Ids -> BookingRows \cup {None}]
    BY <1>2 DEF Init
  <2>6. tries \in [Requests -> 0..MaxTries] /\ faults \in Nat
    BY BookingsAssumption DEF Init
  <2>7. notice \in [Ids -> NoticeRows] /\ callback \in [Leases -> [Callbacks -> CallbackRows]]
    BY <1>3, <1>4
  <2>8. lease \in Seq(Ids) /\ receipt \in [Leases -> {"none", "delivered", "retry", "failed"}]
    BY <1>3
  <2>9. tx = [t \in Tries |-> tx[t]]
    BY <1>3
  <2>10. TypeOK
    BY <1>1, <1>3, <2>1, <2>3, <2>4, <2>5, <2>6, <2>7, <2>8 DEF TypeOK, NoticeRows
  <2> QED BY <1>1, <1>3, <2>6, <2>7, <2>9, <2>10 DEF Typed, CallbackRows
<1>6. Exclusive /\ TxInv
  BY <1>3 DEF Exclusive, TxInv
<1>7. DoneInv
  BY <1>2, BookingsAssumption DEF Init, DoneInv, Ids
<1>8. ScheduleInv /\ CancelledEmpty /\ SelectionKept
  BY DEF Init, ScheduleInv, CancelledEmpty, SelectionKept, NoException, Enrolled
<1>9. LeaseInv
  <2>1. Len(lease) = 0 /\ DOMAIN lease = {}
    BY <1>3
  <2>2. \A b \in Ids : notice[b].lease = 0
    BY <1>3 DEF NoNotice
  <2>3. \A k \in Leases, i \in Callbacks : callback[k][i].pc = "idle"
    BY <1>3 DEF IdleCallback
  <2> QED BY <1>3, <2>1, <2>2, <2>3, BookingsAssumption DEF LeaseInv, CallbackOk
<1>10. NoticeInv
  <2>1. \A b \in Ids : notice[b].state = "none" /\ notice[b].attempts = 0
    BY <1>3 DEF NoNotice
  <2>2. \A b \in Ids : Failures(b) = {} /\ Deliveries(b) = {}
    BY <1>3 DEF Failures, Deliveries, Receipts
  <2>3. Cardinality({}) = 0
    BY FS_EmptySet
  <2>4. \A b \in Ids : Cardinality(Failures(b)) = 0
    BY <2>2, <2>3
  <2>5. 0 < MaxAttempts
    BY BookingsAssumption
  <2> QED BY <2>1, <2>2, <2>4, <2>5 DEF NoticeInv, NoticeOk
<1> QED BY <1>5, <1>6, <1>7, <1>8, <1>9, <1>10 DEF IInv, RowsInv

\* A step that changes nothing keeps the invariant.
LEMMA StutterInv ==
  ASSUME IInv, UNCHANGED vars
  PROVE  IInv'
<1>1. Unmoved /\ UNCHANGED noticeVars /\ tx' = tx
  BY DEF vars, Unmoved, sourceVars, commandVars
<1>2. RowsInv'
  BY <1>1, FrameRows DEF IInv
<1>3. TxInv'
  BY <1>1, FrameTx DEF IInv, TxInv
<1>4. \A t \in Tries : \A row : Shares(t, row)' <=> Shares(t, row)
  BY <1>1, Frame DEF Shares
<1>5. Exclusive'
  BY <1>1, <1>4 DEF IInv, Exclusive, Running
<1>6. Typed'
  BY DEF IInv, Typed, TypeOK, vars, sourceVars, commandVars, noticeVars, Running, Op
<1> QED BY <1>2, <1>3, <1>5, <1>6 DEF IInv

\* The commits.
Commits(t) ==
  \/ Reserve(t) \/ AddParticipant(t) \/ Decide(t) \/ Manage(t)
  \/ PutException(t) \/ PutGroup(t) \/ Enroll(t)

\* Every commit keeps the invariant and the guarantee.
LEMMA CommitsInv ==
  ASSUME IInv, NEW t \in Tries, Commits(t)
  PROVE  IInv' /\ Guarantee(t)
BY ReserveInv, AddParticipantInv, DecideInv, ManageInv, PutExceptionInv, PutGroupInv, EnrollInv DEF Commits

\* A deadlock or a lost connection keeps the invariant.
LEMMA EndsInv ==
  ASSUME IInv, NEW t \in Tries, Deadlock(t) \/ Abort(t)
  PROVE  IInv'
<1>1. faults \in Nat
  BY DEF IInv, Typed
<1>2. /\ Unmoved /\ UNCHANGED <<noticeVars, expect, tries>> /\ faults' \in Nat
      /\ tx' = [tx EXCEPT ![t] = None]
  BY <1>1 DEF Deadlock, Abort, Unmoved
<1> QED BY <1>2, Ends

\* The invariant is inductive.
LEMMA Inductive == IInv /\ [Next]_vars => IInv'
<1> SUFFICES ASSUME IInv, [Next]_vars PROVE IInv'
  OBVIOUS
<1>1. CASE UNCHANGED vars
  BY <1>1, StutterInv
<1>2. CASE Connector
  BY <1>2, ExpireInv, ClaimInv, CrashInv, CompleteInv, ReportInv DEF Connector
<1>3. ASSUME NEW t \in Tries, Begin(t) \/ Command(t) \/ Abort(t) PROVE IInv'
  BY <1>3, BeginInv, StepInv, CommitsInv, EndsInv DEF Command, Commits
<1> QED BY <1>1, <1>2, <1>3 DEF Next

\* The invariant holds in every reachable state: committed rows are consistent, and
\* what a transaction has locked and checked stays true until it ends, whatever
\* the others commit.
THEOREM Invariance == Spec => []IInv
BY InitInv, Inductive, PTL DEF Spec

-----------------------------------------------------------------------------
(* What the runs check, for every instance *)

\* Every variable has its type: no command or completion leaves a row of an
\* unknown status, a count below zero or a transaction past its plan.
THEOREM TypeCorrect == Spec => []TypeOK
<1>1. IInv => TypeOK
  BY DEF IInv, Typed
<1> QED BY <1>1, Invariance, PTL

\* A lesson that put_airhop_lesson_exception has cancelled has no booking that
\* holds a seat: cancel_active_bookings reaches every one, and none is made later.
THEOREM CancelledLessonsEmpty == Spec => []CancelledEmpty
<1>1. IInv => CancelledEmpty
  BY DEF IInv, RowsInv
<1> QED BY <1>1, Invariance, PTL

\* A rule that an enrollment has selected is neither narrowed nor archived by
\* put_airhop_group, although protect_enrollment_selections only looks once.
THEOREM SelectionsKept == Spec => []SelectionKept
<1>1. IInv => SelectionKept
  BY DEF IInv, RowsInv
<1> QED BY <1>1, Invariance, PTL

\* A request that is sent again, also while it is still under way, books once:
\* insert_pending_command lets one transaction of a key commit.
THEOREM BooksOncePerRequest == Spec => []OncePerRequest
<1>1. IInv => OncePerRequest
  BY DEF IInv, RowsInv, DoneInv, OncePerRequest
<1> QED BY <1>1, Invariance, PTL

\* All completions of a lease are told the same, and a notice is closed by the
\* completions complete_airhop_parent_notification has recorded, and by nothing
\* else: as delivered after a delivery, as failed after MaxAttempts failures.
THEOREM ReceiptsAreDecisive == Spec => []ReceiptsDecide
<1>1. ASSUME IInv PROVE AckStable
  <2>1. \A k \in Leases, i \in Callbacks : CallbackOk(k, i)
    BY <1>1 DEF IInv, RowsInv, LeaseInv
  <2> QED BY <2>1 DEF AckStable, CallbackOk
<1>2. ASSUME IInv PROVE FailsOver
  <2> SUFFICES ASSUME NEW b \in Ids
               PROVE  /\ notice[b].state = "failed" <=> Cardinality(Failures(b)) = MaxAttempts
                      /\ notice[b].state = "failed" => notice[b].call
                      /\ notice[b].state = "published" <=> Deliveries(b) # {}
    BY DEF FailsOver, Failures, Deliveries
  <2>1. NoticeOk(b) /\ notice[b] \in NoticeRows /\ MaxAttempts \in Nat
    BY <1>2, NoticeTypes DEF IInv, RowsInv, NoticeInv
  <2>2. notice[b].state \in {"none", "open", "published", "failed"} /\ notice[b].attempts \in Nat
    BY <2>1 DEF NoticeRows
  <2>3. CASE notice[b].state = "failed"
    BY <2>1, <2>3 DEF NoticeOk
  <2>4. CASE notice[b].state = "published"
    BY <2>1, <2>4 DEF NoticeOk
  <2>5. CASE notice[b].state \in {"none", "open"}
    BY <2>1, <2>2, <2>5 DEF NoticeOk
  <2> QED BY <2>2, <2>3, <2>4, <2>5
<1> QED BY <1>1, <1>2, Invariance, PTL DEF ReceiptsDecide

\* A booking takes a seat only in the commit of a reservation: nothing else in
\* the code makes one live, and the committing transaction is at its plan's end.
LEMMA SeatsTaken ==
  ASSUME IInv, [Next]_vars, NEW b \in Ids, ~ Live(b), Live(b)'
  PROVE  \E t \in Tries :
             /\ Running(t) /\ tx' = [tx EXCEPT ![t] = None] /\ Ready(t)
             /\ BookingInserted(t, b) /\ UNCHANGED <<config, sourceVars, enrolled>>
             /\ Op(t).kind \in {"web", "chat", "add"} /\ tx[t].seen.mine = {}
             /\ Op(t).kind = "add" => Child(t) \notin tx[t].seen.enrolled
             /\ \A x \in Ids : x # b => booking'[x] = booking[x]
<1>1. booking' # booking
  BY DEF Live
<1>2. PICK t \in Tries : Commits(t)
  BY <1>1 DEF Next, vars, Connector, Expire, Claim, Crash, Complete, Report, Begin, Command, Step,
              Deadlock, Abort, Commits
<1>3. Guarantee(t) /\ Running(t) /\ tx' = [tx EXCEPT ![t] = None]
  BY <1>2, CommitsInv DEF Commits, Reserve, AddParticipant, Decide, Manage, PutException, PutGroup, Enroll, Finish
<1>4. BookingInserted(t, b)
  BY <1>3 DEF Guarantee, BookingChanged, Live
<1>5. b = t /\ booking[t] = None /\ booking'[t] # None
  BY <1>4 DEF BookingInserted
<1>6. Ready(t)
  BY <1>2, Finished DEF Commits, Reserve, AddParticipant, Decide, Manage, PutException, PutGroup, Enroll, Finish
<1>7. CASE Reserve(t)
  <2>1. /\ Op(t).kind \in {"web", "chat"} /\ UNCHANGED <<config, sourceVars, enrolled>>
        /\ tx[t].seen.mine = {}
        /\ \E st : booking' = Inserted(t, st)
    BY <1>1, <1>7 DEF Reserve, Finish
  <2>2. \A x \in Ids : x # b => booking'[x] = booking[x]
    BY <1>5, <2>1 DEF Inserted, IInv, Typed, TypeOK
  <2> QED BY <1>3, <1>4, <1>6, <2>1, <2>2
<1>8. CASE AddParticipant(t)
  <2>1. /\ Op(t).kind = "add" /\ UNCHANGED <<config, sourceVars, enrolled>>
        /\ \/ \E bs \in SUBSET tx[t].seen.mine : booking' = SetStatus(bs, "confirmed")
           \/ /\ booking' = Inserted(t, "confirmed") /\ tx[t].seen.mine = {}
              /\ Child(t) \notin tx[t].seen.enrolled
    BY <1>1, <1>8 DEF AddParticipant, Finish
  <2>2. ASSUME NEW bs \in SUBSET tx[t].seen.mine, booking' = SetStatus(bs, "confirmed") PROVE FALSE
    <3>1. t \notin bs /\ t \in Ids
      BY <1>5, <1>6, <2>1 DEF Ready, Counted
    <3> QED BY <1>5, <2>2, <3>1 DEF SetStatus
  <2>3. booking' = Inserted(t, "confirmed") /\ tx[t].seen.mine = {} /\ Child(t) \notin tx[t].seen.enrolled
    BY <2>1, <2>2
  <2>4. \A x \in Ids : x # b => booking'[x] = booking[x]
    BY <1>5, <2>3 DEF Inserted, IInv, Typed, TypeOK
  <2> QED BY <1>3, <1>4, <1>6, <2>1, <2>3, <2>4
<1>9. CASE Decide(t) \/ Manage(t) \/ PutException(t) \/ PutGroup(t) \/ Enroll(t)
  \* These change bookings that exist, and t has none yet.
  <2>1. t \in Ids /\ booking = [x \in Ids |-> booking[x]]
    BY <1>5 DEF IInv, Typed, TypeOK
  <2>2. Op(t).kind \in OnBooking => Op(t).booking # t
    BY <1>5, <1>6 DEF Ready, Checked
  <2>3. CASE Decide(t)
    BY <1>5, <2>1, <2>2, <2>3 DEF Decide, Finish, OnBooking
  <2>4. CASE Manage(t)
    BY <1>5, <2>1, <2>2, <2>4 DEF Manage, Finish, OnBooking, SetStatus
  <2>5. CASE PutException(t)
    BY <1>5, <2>1, <2>5 DEF PutException, SetStatus, CancelledWith, Live
  <2>6. CASE PutGroup(t) \/ Enroll(t)
    BY <1>1, <2>6 DEF PutGroup, Enroll
  <2> QED BY <1>9, <2>3, <2>4, <2>5, <2>6
<1> QED BY <1>2, <1>7, <1>8, <1>9 DEF Commits

\* A booking is made for a lesson that takes place, in a group that is active:
\* create_public_booking reads the group before it waits for the lesson, and yet
\* an archived group never keeps an open lesson.
THEOREM BooksOpenLessons == Spec => TakesOpenLesson
<1> DEFINE A == \A b \in Ids : ~ Live(b) /\ Live(b)' =>
                    lesson[booking'[b].lesson].open /\ group.status = "active"
<1>1. ASSUME IInv, [Next]_vars PROVE A
  <2> SUFFICES ASSUME NEW b \in Ids, ~ Live(b), Live(b)'
               PROVE  lesson[booking'[b].lesson].open /\ group.status = "active"
    OBVIOUS
  <2>1. PICK t \in Tries : Ready(t) /\ BookingInserted(t, b) /\ Op(t).kind \in {"web", "chat", "add"}
    BY <1>1, SeatsTaken
  <2>2. lesson[LessonOf(t)].open /\ booking'[b].lesson = LessonOf(t) /\ LessonOf(t) \in Lessons
    BY <2>1 DEF Ready, BookingInserted, LessonOf, OnLesson, Ops
  <2>3. ScheduleInv
    BY <1>1 DEF IInv, RowsInv
  <2> QED BY <2>2, <2>3 DEF ScheduleInv
<1>2. IInv /\ [Next]_vars => [A]_vars
  BY <1>1
<1> QED BY <1>2, Invariance, PTL DEF Spec, TakesOpenLesson

\* A booking never takes a seat beyond the capacity of its lesson: the seats are
\* counted under the lock of the lesson, and until the commit no other command
\* books the lesson or changes its capacity.
THEOREM NeverOverbooked == Spec => NoOverbooking
<1> DEFINE A == \A t \in Tries, b \in Ids, l \in Lessons :
                    Running(t) /\ ~ Running(t)' /\ ~ Live(b) /\ Live(b)' /\ booking'[b].lesson = l =>
                    LET counted == Enrolled(l) \cap tx[t].seen.enrolled
                    IN  \/ lesson'[l].capacity = NoLimit
                        \/ booking'[b].child \in counted
                        \/ Cardinality(Booked(l)' \cup counted) <= lesson'[l].capacity
<1>1. ASSUME IInv, [Next]_vars PROVE A
  <2> SUFFICES ASSUME NEW t \in Tries, NEW b \in Ids, NEW l \in Lessons,
                      Running(t), ~ Running(t)', ~ Live(b), Live(b)', booking'[b].lesson = l
               PROVE  LET counted == Enrolled(l) \cap tx[t].seen.enrolled
                      IN  \/ lesson'[l].capacity = NoLimit
                          \/ booking'[b].child \in counted
                          \/ Cardinality(Booked(l)' \cup counted) <= lesson'[l].capacity
    OBVIOUS
  <2>1. PICK u \in Tries :
             /\ Running(u) /\ tx' = [tx EXCEPT ![u] = None] /\ Ready(u)
             /\ BookingInserted(u, b) /\ UNCHANGED <<config, sourceVars, enrolled>>
             /\ Op(u).kind \in {"web", "chat", "add"} /\ tx[u].seen.mine = {}
             /\ Op(u).kind = "add" => Child(u) \notin tx[u].seen.enrolled
             /\ \A x \in Ids : x # b => booking'[x] = booking[x]
    BY <1>1, SeatsTaken
  \* The transaction that ends is the one that books.
  <2>2. u = t
    BY <1>1, <2>1 DEF IInv, Typed, Running
  <2>3. PICK S, c : S = tx[t].seen.enrolled /\ c = Child(t)
    OBVIOUS
  <2>4. l = LessonOf(t) /\ booking'[b].child = c /\ lesson' = lesson /\ S \in SUBSET Children /\ S \subseteq Enrolled(l)
    BY <2>1, <2>2, <2>3 DEF BookingInserted, Ready, Counted, IsTx, Seens, sourceVars
  <2>5. lesson[l].capacity = NoLimit \/ c \in S \/ Cardinality(Booked(l) \cup S) < lesson[l].capacity
    BY <2>1, <2>2, <2>3, <2>4 DEF Ready, Counted, SeatFree
  <2>6. Booked(l)' \subseteq Booked(l) \cup {c}
    BY <2>1, <2>4 DEF Booked, Live
  <2>7. IsFiniteSet(Booked(l) \cup S) /\ Cardinality(Booked(l) \cup S) \in Nat
    BY <1>1, <2>4, BookedFinite DEF IInv
  <2>8. IsFiniteSet((Booked(l) \cup S) \cup {c}) /\ Cardinality((Booked(l) \cup S) \cup {c}) <= Cardinality(Booked(l) \cup S) + 1
    <3>1. PICK M : M = Booked(l) \cup S
      OBVIOUS
    <3>2. IsFiniteSet(M) /\ Cardinality(M) \in Nat
      BY <2>7, <3>1
    <3>3. IsFiniteSet(M \cup {c}) /\ (c \in M \/ Cardinality(M \cup {c}) = Cardinality(M) + 1)
      BY ONLY <3>2, FS_AddElement
    <3>4. c \in M => M \cup {c} = M
      OBVIOUS
    <3>5. Cardinality(M \cup {c}) <= Cardinality(M) + 1
      BY ONLY <3>2, <3>3, <3>4
    <3> QED BY <3>1, <3>3, <3>5
  <2>9. PICK N : N = Booked(l)'
    OBVIOUS
  <2>10. Cardinality(N \cup S) \in Nat /\ Cardinality(N \cup S) <= Cardinality((Booked(l) \cup S) \cup {c})
    <3>1. (N \cup S) \subseteq ((Booked(l) \cup S) \cup {c})
      BY <2>6, <2>9
    <3> QED BY ONLY <2>8, <3>1, FS_Subset, FS_CardinalityType
  <2>11. Cardinality((Booked(l) \cup S) \cup {c}) \in Nat
    BY <2>8, FS_CardinalityType
  <2>12. lesson[l].capacity = NoLimit \/ lesson[l].capacity \in Nat
    BY <1>1, BookingsAssumption DEF IInv, Typed, TypeOK
  <2>13. Enrolled(l) \cap tx[t].seen.enrolled = S
    BY <2>3, <2>4
  <2>14. lesson[l].capacity = NoLimit \/ c \in S \/ Cardinality(N \cup S) <= lesson[l].capacity
    BY <2>5, <2>7, <2>8, <2>10, <2>11, <2>12
  <2> QED BY <2>4, <2>9, <2>13, <2>14
<1>2. IInv /\ [Next]_vars => [A]_vars
  BY <1>1
<1> QED BY <1>2, Invariance, PTL DEF Spec, NoOverbooking

-----------------------------------------------------------------------------
(* The order of the locks *)

\* The row that t has locked is one of the statements up to its n-th.
Fits(t, n, row) ==
  LET kind == Op(t).kind
  IN  /\ row[1] = "key" => row[2] = t[1] /\ Reached(kind, n, "key")
      /\ row[1] = "child" => row[2] = Op(t).child /\ Reached(kind, n, "child")
      /\ row[1] = "group" => Reached(kind, n, "group")
      /\ row[1] = "lesson" /\ kind # "online" =>
             (row[2] = Op(t).lesson /\ Reached(kind, n, "lesson")) \/ Reached(kind, n, "lessons")
      /\ row[1] = "booking" =>
             /\ Reached(kind, n, "booking") \/ Reached(kind, n, "bookings")
             /\ kind \in OnBooking => row[2] = Op(t).booking
             /\ kind \in {"add", "cancel"} =>
                    row[2] \in Ids /\ booking[row[2]] # None /\ booking[row[2]].lesson = Op(t).lesson

\* A transaction holds no row of a statement that is still to come, and the
\* bookings that a command on a lesson holds are bookings of that lesson.
TakenInv == \A t \in Tries : Running(t) => \A row \in tx[t].held : Fits(t, tx[t].pc, row)

\* What a transaction has reached stays reached.
LEMMA ReachedLater ==
  ASSUME NEW kind, NEW n \in Nat \ {0}, NEW item, Reached(kind, n, item)
  PROVE  Reached(kind, n + 1, item)
<1>1. CASE Before(kind, n, item)
  BY <1>1, PlanStep DEF Reached
<1>2. CASE At(kind, n, item)
  BY <1>2, PlanStep DEF Reached, At
<1> QED BY <1>1, <1>2 DEF Reached

\* Bookings keep their lessons.
KeptBookings ==
  /\ config' = config
  /\ \A b \in Ids : booking[b] # None => booking'[b] # None /\ booking'[b].lesson = booking[b].lesson

LEMMA FitsKept ==
  ASSUME KeptBookings, NEW t, NEW n, NEW row, Fits(t, n, row)
  PROVE  Fits(t, n, row)'
<1>1. Op(t)' = Op(t)
  BY DEF KeptBookings, Op
<1>2. row[2] \in Ids /\ booking[row[2]] # None =>
          booking'[row[2]] # None /\ booking'[row[2]].lesson = booking[row[2]].lesson
  BY DEF KeptBookings
<1> QED BY <1>1, <1>2 DEF Fits

LEMMA FitsLater ==
  ASSUME NEW t, NEW n \in Nat \ {0}, NEW row, Fits(t, n, row)
  PROVE  Fits(t, n + 1, row)
  BY ReachedLater DEF Fits

\* A row that the next statement locks fits.
LEMMA FitsNew ==
  ASSUME IInv, NEW t \in Tries, AtItem(t), NEW row \in Needs(t)
  PROVE  Fits(t, tx[t].pc, row)
<1> DEFINE kind == Op(t).kind
           n == tx[t].pc
<1>1. Running(t) /\ kind # "none" /\ Op(t) \in Ops
  BY OpType DEF AtItem, IInv, TxInv, Typed
<1>2. \A item : Item(t) = item => Reached(kind, n, item)
  BY <1>1, Order DEF IInv, Reached
<1>3. kind \in Kinds \ {"none"} /\ n \in 1..(Len(Plan(kind)) + 1)
  BY <1>1, Order DEF IInv
<1>4. Item(t) = "lesson" => kind \in OnLesson \cup {"online"}
  BY <1>2, <1>3, PlanOrder
<1>5. Item(t) = "booking" => kind \in OnBooking \cup {"add", "trial"}
  BY <1>2, <1>3, PlanOrder
<1>6. Item(t) = "bookings" => kind = "cancel"
  BY <1>2, <1>3, PlanOrder
<1>7. kind \in {"add", "cancel"} => LessonOf(t) = Op(t).lesson
  BY DEF LessonOf, OnLesson
<1>8. CASE Item(t) = "lesson"
  <2>1. row[1] = "lesson" /\ (kind # "online" => row[2] = Op(t).lesson)
    BY <1>4, <1>8 DEF Needs, LessonOf
  <2> QED BY <1>2, <1>8, <2>1 DEF Fits
<1>9. CASE Item(t) = "booking"
  <2>1. /\ row[1] = "booking"
        /\ kind \in OnBooking => row[2] = Op(t).booking
        /\ kind = "add" => row[2] \in Existing(Child(t), LessonOf(t))
        /\ kind # "cancel"
    BY <1>5, <1>9 DEF Needs, OnBooking
  <2> QED BY <1>2, <1>7, <1>9, <2>1 DEF Fits, Existing, Live
<1>10. CASE Item(t) = "bookings"
  <2>1. row[1] = "booking" /\ row[2] \in Ids /\ Live(row[2]) /\ booking[row[2]].lesson = LessonOf(t)
    BY <1>10 DEF Needs
  <2> QED BY <1>2, <1>6, <1>7, <1>10, <2>1 DEF Fits, Live, OnBooking
<1>11. CASE Item(t) = "key"
  BY <1>2, <1>11 DEF Needs, Fits
<1>12. CASE Item(t) \in {"child", "group", "lessons"}
  BY <1>2, <1>12 DEF Needs, Fits
<1>13. CASE Item(t) \notin {"key", "child", "group", "lesson", "lessons", "booking", "bookings"}
  BY <1>13 DEF Needs
<1> QED BY <1>8, <1>9, <1>10, <1>11, <1>12, <1>13

\* Every step leaves a transaction as it is, ends or begins it, or executes its
\* next statement; and bookings keep their lessons.
LEMMA TxMoves ==
  ASSUME IInv, [Next]_vars
  PROVE  /\ KeptBookings
         /\ \A t \in Tries : Running(t)' =>
                \/ Running(t) /\ tx'[t] = tx[t]
                \/ tx'[t].held = {}
                \/ Step(t)
<1>1. tx = [t \in Tries |-> tx[t]]
  BY DEF IInv, Typed
<1>2. CASE UNCHANGED vars
  BY <1>2 DEF vars, commandVars, KeptBookings, Running
<1>3. CASE Connector
  BY <1>3 DEF Connector, Expire, Claim, Crash, Complete, Report, commandVars, KeptBookings, Running
<1>4. ASSUME NEW u \in Tries, Begin(u)
      PROVE  KeptBookings /\ tx'[u].held = {} /\ \A t \in Tries : t # u => tx'[t] = tx[t]
  BY <1>1, <1>4 DEF Begin, KeptBookings
<1>5. ASSUME NEW u \in Tries, Step(u)
      PROVE  KeptBookings /\ \A t \in Tries : t # u => tx'[t] = tx[t]
  BY <1>1, <1>5 DEF Step, KeptBookings
<1>6. ASSUME NEW u \in Tries, Deadlock(u) \/ Abort(u)
      PROVE  KeptBookings /\ tx'[u] = None /\ \A t \in Tries : t # u => tx'[t] = tx[t]
  BY <1>1, <1>6 DEF Deadlock, Abort, KeptBookings
<1>7. ASSUME NEW u \in Tries, Commits(u)
      PROVE  KeptBookings /\ tx'[u] = None /\ \A t \in Tries : t # u => tx'[t] = tx[t]
  <2>1. Guarantee(u)
    BY <1>7, CommitsInv
  <2>2. tx' = [tx EXCEPT ![u] = None]
    BY <1>7 DEF Commits, Reserve, AddParticipant, Decide, Manage, PutException, PutGroup, Enroll, Finish
  <2>3. KeptBookings
    BY <2>1 DEF Guarantee, BookingInserted, BookingChanged, KeptBookings
  <2> QED BY <1>1, <2>2, <2>3
<1>8. ASSUME NEW u \in Tries, Begin(u) \/ Command(u) \/ Abort(u)
      PROVE  /\ KeptBookings
             /\ \A t \in Tries : Running(t)' =>
                    (Running(t) /\ tx'[t] = tx[t]) \/ tx'[t].held = {} \/ Step(t)
  <2>1. CASE Begin(u)
    BY <1>4, <2>1 DEF Running
  <2>2. CASE Step(u)
    BY <1>5, <2>2 DEF Running
  <2>3. CASE Deadlock(u) \/ Abort(u)
    BY <1>6, <2>3 DEF Running
  <2>4. CASE Commits(u)
    BY <1>7, <2>4 DEF Running
  <2> QED BY <1>8, <2>1, <2>2, <2>3, <2>4 DEF Command, Commits
<1> QED BY <1>2, <1>3, <1>8 DEF Next

\* TakenInv is inductive, given the invariant of the commands.
LEMMA TakenStep ==
  ASSUME IInv, TakenInv, [Next]_vars
  PROVE  TakenInv'
<1> SUFFICES ASSUME NEW t \in Tries, Running(t)', NEW row \in tx'[t].held
             PROVE  Fits(t, tx[t].pc, row)'
  BY DEF TakenInv
<1>1. KeptBookings
  BY TxMoves
<1>2. CASE Running(t) /\ tx'[t] = tx[t]
  BY <1>1, <1>2, FitsKept DEF TakenInv
<1>3. CASE tx'[t].held = {}
  BY <1>3
<1>4. CASE Step(t)
  <2>1. AtItem(t) /\ Running(t) /\ tx[t].pc \in Nat \ {0} /\ IsTx(tx[t])
    BY <1>4 DEF Step, AtItem, IInv, Typed, TypeOK
  <2>2. PICK rows \in {{r} : r \in Missing(t)} \cup (IF Missing(t) = {} THEN {{}} ELSE {}) :
            tx' = [tx EXCEPT ![t] =
                       IF ~ Needs(t) \subseteq tx[t].held \cup rows THEN [@ EXCEPT !.held = tx[t].held \cup rows]
                       ELSE IF Replayed(t) \/ Refused(t) THEN None
                       ELSE [pc |-> @.pc + 1, held |-> tx[t].held \cup rows, seen |-> Seen(t)]]
    BY <1>4 DEF Step
  <2>3. rows \subseteq Needs(t)
    BY <2>2 DEF Missing
  <2>4. tx'[t].held = tx[t].held \cup rows /\ tx'[t].pc \in {tx[t].pc, tx[t].pc + 1}
    BY <2>1, <2>2 DEF IInv, Typed, IsTx, Running
  <2>5. Fits(t, tx[t].pc, row)
    BY <2>1, <2>3, <2>4, FitsNew DEF TakenInv
  <2>6. PICK n : n = tx[t].pc
    OBVIOUS
  <2>7. PICK m : m = tx'[t].pc
    OBVIOUS
  <2>8. Fits(t, m, row)
    BY <2>1, <2>4, <2>5, <2>6, <2>7, FitsLater
  <2>9. Fits(t, m, row)'
    BY <1>1, <2>8, FitsKept
  <2> QED BY <2>7, <2>9
<1> QED BY <1>2, <1>3, <1>4, TxMoves

\* In every command that keeps the order, what it has locked lies before the
\* statement it is at; leaving and moving a booking lock the booking before the key.
LEMMA PlanLocks ==
  ASSUME NEW kind \in Kinds \ ({"none"} \cup OutOfOrder), NEW n \in 1..(Len(Plan(kind)) + 1)
  PROVE  /\ Reached(kind, n, "child") => ~ At(kind, n, "key")
         /\ Reached(kind, n, "group") => ~ At(kind, n, "key") /\ ~ At(kind, n, "child")
         /\ Reached(kind, n, "lesson") \/ Reached(kind, n, "lessons") =>
                /\ ~ At(kind, n, "key") /\ ~ At(kind, n, "child") /\ ~ At(kind, n, "group")
                /\ kind \notin OnBooking
         /\ At(kind, n, "lesson") => ~ Reached(kind, n, "lessons")
         /\ At(kind, n, "lessons") => Before(kind, n, "group")
         /\ Reached(kind, n, "booking") \/ Reached(kind, n, "bookings") =>
                /\ kind \in OnBooking \cup {"add", "cancel"}
                /\ kind \in {"add", "cancel"} =>
                       /\ Before(kind, n, "lesson")
                       /\ \A item \in {"key", "child", "group", "lesson", "lessons"} : ~ At(kind, n, item)
         /\ kind \in {"leave", "transfer"} /\ Reached(kind, n, "key") => Before(kind, n, "booking")
         /\ kind = "decide" /\ Reached(kind, n, "booking") => ~ At(kind, n, "key")
         /\ kind \in OnBooking => \A item : At(kind, n, item) => item \in {"key", "booking"}
<1> USE DEF Reached, OnBooking, OutOfOrder
<1>1. CASE kind = "web"
  <2>1. Plan(kind) = <<"key", "snapshot", "lesson", "count">>
    BY <1>1, Plans
  <2>2. Len(Plan(kind)) = 4 /\ n \in 1..5
    BY <2>1
  <2>3. Plan(kind)[1] = "key" /\ Plan(kind)[2] = "snapshot" /\ Plan(kind)[3] = "lesson" /\ Plan(kind)[4] = "count"
    BY <2>1
  <2> QED BY ONLY <1>1, <2>2, <2>3 DEF Before, At
<1>2. CASE kind = "add"
  <2>1. Plan(kind) = <<"key", "child", "lesson", "booking", "count">>
    BY <1>2, Plans
  <2>2. Len(Plan(kind)) = 5 /\ n \in 1..6
    BY <2>1
  <2>3. Plan(kind)[1] = "key" /\ Plan(kind)[2] = "child" /\ Plan(kind)[3] = "lesson" /\ Plan(kind)[4] = "booking" /\ Plan(kind)[5] = "count"
    BY <2>1
  <2> QED BY ONLY <1>2, <2>2, <2>3 DEF Before, At
<1>3. CASE kind = "cancel"
  <2>1. Plan(kind) = <<"key", "group", "lesson", "lessons", "bookings">>
    BY <1>3, Plans
  <2>2. Len(Plan(kind)) = 5 /\ n \in 1..6
    BY <2>1
  <2>3. Plan(kind)[1] = "key" /\ Plan(kind)[2] = "group" /\ Plan(kind)[3] = "lesson" /\ Plan(kind)[4] = "lessons" /\ Plan(kind)[5] = "bookings"
    BY <2>1
  <2> QED BY ONLY <1>3, <2>2, <2>3 DEF Before, At
<1>4. CASE kind = "override"
  <2>1. Plan(kind) = <<"key", "group", "lesson", "lessons">>
    BY <1>4, Plans
  <2>2. Len(Plan(kind)) = 4 /\ n \in 1..5
    BY <2>1
  <2>3. Plan(kind)[1] = "key" /\ Plan(kind)[2] = "group" /\ Plan(kind)[3] = "lesson" /\ Plan(kind)[4] = "lessons"
    BY <2>1
  <2> QED BY ONLY <1>4, <2>2, <2>3 DEF Before, At
<1>5. CASE kind = "restore"
  <2>1. Plan(kind) = <<"key", "group", "lesson", "lessons">>
    BY <1>5, Plans
  <2>2. Len(Plan(kind)) = 4 /\ n \in 1..5
    BY <2>1
  <2>3. Plan(kind)[1] = "key" /\ Plan(kind)[2] = "group" /\ Plan(kind)[3] = "lesson" /\ Plan(kind)[4] = "lessons"
    BY <2>1
  <2> QED BY ONLY <1>5, <2>2, <2>3 DEF Before, At
<1>6. CASE kind = "enroll"
  <2>1. Plan(kind) = <<"key", "child", "group", "enrollment">>
    BY <1>6, Plans
  <2>2. Len(Plan(kind)) = 4 /\ n \in 1..5
    BY <2>1
  <2>3. Plan(kind)[1] = "key" /\ Plan(kind)[2] = "child" /\ Plan(kind)[3] = "group" /\ Plan(kind)[4] = "enrollment"
    BY <2>1
  <2> QED BY ONLY <1>6, <2>2, <2>3 DEF Before, At
<1>7. CASE kind = "group"
  <2>1. Plan(kind) = <<"key", "group", "protect", "lessons">>
    BY <1>7, Plans
  <2>2. Len(Plan(kind)) = 4 /\ n \in 1..5
    BY <2>1
  <2>3. Plan(kind)[1] = "key" /\ Plan(kind)[2] = "group" /\ Plan(kind)[3] = "protect" /\ Plan(kind)[4] = "lessons"
    BY <2>1
  <2> QED BY ONLY <1>7, <2>2, <2>3 DEF Before, At
<1>8. CASE kind = "decide"
  <2>1. Plan(kind) = <<"key", "booking">>
    BY <1>8, Plans
  <2>2. Len(Plan(kind)) = 2 /\ n \in 1..3
    BY <2>1
  <2>3. Plan(kind)[1] = "key" /\ Plan(kind)[2] = "booking"
    BY <2>1
  <2> QED BY ONLY <1>8, <2>2, <2>3 DEF Before, At
<1>9. CASE kind = "leave"
  <2>1. Plan(kind) = <<"booking", "key">>
    BY <1>9, Plans
  <2>2. Len(Plan(kind)) = 2 /\ n \in 1..3
    BY <2>1
  <2>3. Plan(kind)[1] = "booking" /\ Plan(kind)[2] = "key"
    BY <2>1
  <2> QED BY ONLY <1>9, <2>2, <2>3 DEF Before, At
<1>10. CASE kind = "transfer"
  <2>1. Plan(kind) = <<"booking", "key">>
    BY <1>10, Plans
  <2>2. Len(Plan(kind)) = 2 /\ n \in 1..3
    BY <2>1
  <2>3. Plan(kind)[1] = "booking" /\ Plan(kind)[2] = "key"
    BY <2>1
  <2> QED BY ONLY <1>10, <2>2, <2>3 DEF Before, At
<1> QED BY <1>1, <1>2, <1>3, <1>4, <1>5, <1>6, <1>7, <1>8, <1>9, <1>10 DEF Kinds

\* How far in the order of the locks the statement that t is at lies: a statement
\* that may lock several rows of a table comes after those that lock one.
Level(t) ==
  CASE Item(t) = "key"     -> 1
    [] Item(t) = "child"   -> 2
    [] Item(t) = "group"   -> 3
    [] Item(t) = "lesson"  -> 4
    [] Item(t) = "lessons" -> 5
    [] Item(t) = "booking" /\ Op(t).kind \in OnBooking -> 6
    [] OTHER               -> 7

Ordered(t) == t \in Tries /\ Running(t) /\ Op(t).kind \notin OutOfOrder

\* Two transactions do not both own a row.
LEMMA OneOwner ==
  ASSUME IInv, NEW t \in Tries, NEW u \in Tries, t # u, Running(t), Running(u), NEW row,
         row \in tx[t].held, row \in tx[u].held
  PROVE  Shares(t, row) /\ Shares(u, row)
  BY DEF IInv, Exclusive

\* A parent's command that has its booking never waits for its key: who holds the
\* key is another attempt of the same command and holds the booking as well.
LEMMA KeyIsFree ==
  ASSUME IInv, TakenInv, NEW u \in Tries, NEW v \in Tries, WaitsFor(u, v),
         Op(u).kind \in {"leave", "transfer"}, Item(u) = "key"
  PROVE  FALSE
<1>1. PICK row \in Missing(u) : Conflict(u, v, row)
  BY DEF WaitsFor
<1>2. row = <<"key", u[1]>> /\ u # v /\ Running(u) /\ Running(v) /\ row \in tx[v].held
  BY <1>1 DEF Missing, Needs, Conflict, WaitsFor, AtItem
<1>3. Fits(v, tx[v].pc, row)
  BY <1>2 DEF TakenInv
<1>4. u[1] = v[1] /\ Reached(Op(v).kind, tx[v].pc, "key")
  BY <1>2, <1>3 DEF Fits
<1>5. Op(v) = Op(u)
  BY <1>4 DEF Op
<1>6. Reached(Op(u).kind, tx[u].pc, "key")
  BY <1>2, Order DEF WaitsFor, IInv, Reached
<1>7. Past(u, "booking") /\ Past(v, "booking")
  BY <1>2, <1>4, <1>5, <1>6, Order, PlanOrder DEF IInv, Past
<1>8. <<"booking", Op(u).booking>> \in tx[u].held \cap tx[v].held
  BY <1>2, <1>5, <1>7 DEF IInv, TxInv, Locked, OnBooking
<1> QED BY <1>2, <1>8, OneOwner DEF Shares

\* Who is waited for waits, if at all, further in the order of the locks.
LEMMA Deeper ==
  ASSUME IInv, TakenInv, NEW t, NEW u, NEW v, Ordered(t), Ordered(u), Ordered(v),
         WaitsFor(t, u), WaitsFor(u, v)
  PROVE  Level(t) \in 1..6 /\ Level(t) < Level(u)
<1> DEFINE n == tx[u].pc
           kind == Op(u).kind
<1>1. PICK row \in Missing(t) : Conflict(t, u, row)
  BY DEF WaitsFor
<1>2. /\ t \in Tries /\ u \in Tries /\ t # u /\ Running(t) /\ Running(u) /\ AtItem(t) /\ AtItem(u)
      /\ row \in Needs(t) /\ row \in tx[u].held /\ ~ (Shares(t, row) /\ Shares(u, row))
  BY <1>1 DEF Conflict, WaitsFor, Ordered, Missing
<1>3. Missing(u) # {}
  BY DEF WaitsFor
<1>4. Fits(u, n, row)
  BY <1>2 DEF TakenInv
<1>5. \A s \in {t, u} : /\ Op(s).kind \in Kinds \ ({"none"} \cup OutOfOrder)
                        /\ tx[s].pc \in 1..(Len(Plan(Op(s).kind)) + 1)
                        /\ \A item : Item(s) = item <=> At(Op(s).kind, tx[s].pc, item)
                        /\ Locked(s)
  <2> TAKE s \in {t, u}
  <2>1. Op(s).kind # "none" /\ Locked(s)
    BY <1>2 DEF IInv, TxInv
  <2> QED BY <1>2, <2>1, Order DEF IInv, Ordered
<1>6. Item(u) \in {"key", "child", "group", "lesson", "lessons", "booking", "bookings"}
  BY <1>3 DEF Missing, Needs
<1>7. Item(u) = "key" => kind \notin {"leave", "transfer"}
  BY <1>2, KeyIsFree DEF Ordered
<1>8. Item(u) = "key" => <<"key", u[1]>> \notin tx[u].held
  BY <1>3 DEF Missing, Needs
<1>9. Item(u) = "child" => <<"child", Op(u).child>> \notin tx[u].held
  BY <1>3 DEF Missing, Needs
<1>10. Item(u) = "group" => <<"group", "g">> \notin tx[u].held
  BY <1>3 DEF Missing, Needs
<1>11. kind \notin OutOfOrder /\ (Item(u) = "lesson" => kind \in OnLesson)
  BY <1>2, <1>5, PlanOrder DEF Reached, OutOfOrder
<1>12. Item(u) = "lesson" => <<"lesson", Op(u).lesson>> \notin tx[u].held
  BY <1>3, <1>11 DEF Missing, Needs, LessonOf, Skips, OutOfOrder
<1>13. Item(u) = "booking" /\ kind \in OnBooking => <<"booking", Op(u).booking>> \notin tx[u].held
  BY <1>3 DEF Missing, Needs, OnBooking
<1> HIDE DEF n, kind
<1>14. CASE Item(t) = "key"
  <2>1. row = <<"key", t[1]>>
    BY <1>2, <1>14 DEF Needs
  <2>2. Item(u) # "key"
    BY <1>2, <1>4, <1>8, <2>1 DEF Fits
  <2> QED BY <1>14, <2>2 DEF Level
<1>15. CASE Item(t) = "child"
  <2>1. row = <<"child", Op(t).child>>
    BY <1>2, <1>15 DEF Needs
  <2>2. row[2] = Op(u).child /\ Reached(kind, n, "child")
    BY <1>4, <2>1 DEF Fits, kind
  <2>3. Item(u) \notin {"key", "child"}
    BY <1>2, <1>5, <1>9, <2>1, <2>2, PlanLocks DEF n, kind
  <2> QED BY <1>15, <2>3 DEF Level
<1>16. CASE Item(t) = "group"
  <2>1. row = <<"group", "g">>
    BY <1>2, <1>16 DEF Needs
  <2>2. Reached(kind, n, "group")
    BY <1>4, <2>1 DEF Fits, kind
  <2>3. Item(u) \notin {"key", "child", "group"}
    BY <1>2, <1>5, <1>10, <2>1, <2>2, PlanLocks DEF n, kind
  <2> QED BY <1>16, <2>3 DEF Level
<1>17. CASE Item(t) \in {"lesson", "lessons"}
  <2>1. PICK l : row = <<"lesson", l>>
    BY <1>2, <1>17 DEF Needs
  <2>2. (l = Op(u).lesson /\ Reached(kind, n, "lesson")) \/ Reached(kind, n, "lessons")
    BY <1>4, <1>11, <2>1 DEF Fits, kind, OutOfOrder
  <2>3. Item(u) \notin {"key", "child", "group"} /\ kind \notin OnBooking
    BY <1>5, <2>2, PlanLocks DEF n, kind
  <2>4. Item(u) # "lesson"
    BY <1>2, <1>5, <1>12, <2>1, <2>2, PlanLocks DEF n, kind
  <2>5. Item(t) = "lessons" => Item(u) # "lessons"
    <3> SUFFICES ASSUME Item(t) = "lessons", Item(u) = "lessons" PROVE FALSE
      OBVIOUS
    <3>1. Past(t, "group") /\ Past(u, "group")
      BY <1>5, PlanLocks DEF Past
    <3>2. <<"group", "g">> \in tx[t].held /\ <<"group", "g">> \in tx[u].held
      BY <1>5, <3>1 DEF Locked
    <3>3. Op(t).kind # "chat"
      BY DEF Ordered, OutOfOrder
    <3> QED BY <1>2, <3>2, <3>3, OneOwner DEF Shares
  <2>6. Item(u) \in {"lessons", "booking", "bookings"}
    BY <1>6, <2>3, <2>4
  <2>7. Level(t) = IF Item(t) = "lesson" THEN 4 ELSE 5
    BY <1>17 DEF Level
  <2>8. Level(u) = IF Item(u) = "lessons" THEN 5 ELSE 7
    BY <2>3, <2>6 DEF Level, kind
  <2> QED BY <1>17, <2>5, <2>7, <2>8
<1>18. CASE Item(t) \in {"booking", "bookings"}
  <2>1. PICK b : row = <<"booking", b>>
    BY <1>2, <1>18 DEF Needs
  <2>2. Reached(kind, n, "booking") \/ Reached(kind, n, "bookings")
    BY <1>4, <2>1 DEF Fits, kind
  <2>3. kind \notin OnBooking
    <3> SUFFICES ASSUME kind \in OnBooking PROVE FALSE
      OBVIOUS
    <3>1. b = Op(u).booking
      BY <1>4, <2>1 DEF Fits, kind
    <3>2. Item(u) \in {"key", "booking"}
      BY <1>5, PlanLocks DEF n, kind
    <3>3. Item(u) = "key"
      BY <1>2, <1>13, <2>1, <3>1, <3>2
    <3>4. kind = "decide" /\ Reached(kind, n, "bookings")
      BY <1>5, <1>7, <1>11, <2>2, <3>3, PlanLocks DEF n, kind, OnBooking, OutOfOrder
    <3> QED BY <1>5, <3>4, PlanOrder DEF n, kind
  <2>4. kind \in {"add", "cancel"} /\ Past(u, "lesson") /\ Item(u) \in {"booking", "bookings"}
    BY <1>5, <1>6, <2>2, <2>3, PlanLocks DEF n, kind, Past
  <2>5. <<"lesson", Op(u).lesson>> \in tx[u].held /\ booking[b].lesson = Op(u).lesson
    BY <1>4, <1>5, <2>1, <2>4 DEF Fits, Locked, LessonOf, OnLesson, kind
  <2>6. Op(t).kind \in OnBooking
    <3> SUFFICES ASSUME Op(t).kind \notin OnBooking PROVE FALSE
      OBVIOUS
    <3>1. Op(t).kind \in {"add", "cancel"} /\ Past(t, "lesson")
      BY <1>5, <1>18, PlanLocks DEF Past, Reached
    <3>2. LessonOf(t) = Op(t).lesson /\ <<"lesson", Op(t).lesson>> \in tx[t].held
      BY <1>5, <3>1 DEF Locked, LessonOf, OnLesson
    <3>3. Op(t).kind = "add" => Item(t) = "booking"
      BY <1>5, <1>18, PlanOrder DEF Reached
    <3>4. ASSUME Op(t).kind = "add" PROVE booking[b].lesson = Op(t).lesson
      <4>1. Needs(t) = {<<"booking", x>> : x \in Existing(Child(t), LessonOf(t))}
        BY <3>3, <3>4 DEF Needs
      <4>2. PICK x \in Existing(Child(t), LessonOf(t)) : row = <<"booking", x>>
        BY <1>2, <4>1
      <4>3. b = x
        BY <2>1, <4>2
      <4> QED BY <3>2, <4>3 DEF Existing
    <3>5. ASSUME Op(t).kind = "cancel" PROVE booking[b].lesson = Op(t).lesson
      <4>1. Item(t) = "bookings"
        BY <1>5, <1>18, <3>5, PlanOrder DEF Reached, OnBooking
      <4>2. Needs(t) = {<<"booking", x>> : x \in {y \in Ids : Live(y) /\ booking[y].lesson = LessonOf(t)}}
        BY <4>1 DEF Needs
      <4>3. PICK x \in Ids : booking[x].lesson = LessonOf(t) /\ row = <<"booking", x>>
        BY <1>2, <4>2
      <4>4. b = x
        BY <2>1, <4>3
      <4> QED BY <3>2, <4>3, <4>4
    <3>6. booking[b].lesson = Op(t).lesson
      BY <3>1, <3>4, <3>5
    <3> QED BY <1>2, <2>5, <3>2, <3>6, OneOwner DEF Shares
  <2>7. Item(t) = "booking"
    BY <1>5, <1>18, <2>6, PlanLocks
  <2> QED BY <2>3, <2>4, <2>6, <2>7 DEF Level, kind
<1>19. Item(t) \in {"key", "child", "group", "lesson", "lessons", "booking", "bookings"}
  BY <1>2 DEF Needs
<1> QED BY <1>14, <1>15, <1>16, <1>17, <1>18, <1>19

\* In a set with a level for each member there is one that no other exceeds.
LEMMA NoAscent ==
  ASSUME NEW S, NEW L, \A t \in S : \E u \in S : L[t] \in 1..6 /\ L[t] < L[u]
  PROVE  S = {}
<1>1. \A t \in S : L[t] \in 1..6
  OBVIOUS
<1>2. \A t \in S : L[t] # 6
  BY <1>1
<1>3. \A t \in S : L[t] # 5
  BY <1>1, <1>2
<1>4. \A t \in S : L[t] # 4
  BY <1>1, <1>2, <1>3
<1>5. \A t \in S : L[t] # 3
  BY <1>1, <1>2, <1>3, <1>4
<1>6. \A t \in S : L[t] # 2
  BY <1>1, <1>2, <1>3, <1>4, <1>5
<1> QED BY <1>1, <1>2, <1>3, <1>4, <1>5, <1>6

\* Transactions that keep the order never wait for each other in a circle, however
\* many they are and whatever they do, the several rows of cancel_active_bookings
\* and materialize_schedule included: every database deadlock has a command among
\* its parties that confirms for Hermes, books in the chat or enrolls after a trial.
THEOREM OrderOfLocks == Spec => []LockOrder
<1>1. Init => TakenInv
  BY DEF Init, TakenInv, Running
<1>2. IInv /\ TakenInv => LockOrder
  <2> SUFFICES ASSUME IInv, TakenInv,
                      NEW S \in SUBSET {t \in Tries : Running(t) /\ Op(t).kind \notin OutOfOrder},
                      S # {}, \A t \in S : \E u \in S : WaitsFor(t, u)
               PROVE  FALSE
    BY DEF LockOrder
  <2>1. \A t \in S : \E u \in S : Level(t) \in 1..6 /\ Level(t) < Level(u)
    <3> TAKE t \in S
    <3>1. PICK u \in S : WaitsFor(t, u)
      OBVIOUS
    <3>2. PICK v \in S : WaitsFor(u, v)
      OBVIOUS
    <3> QED BY <3>1, <3>2, Deeper DEF Ordered
  <2>2. PICK L : L = [t \in S |-> Level(t)]
    OBVIOUS
  <2>3. \A t \in S : \E u \in S : L[t] \in 1..6 /\ L[t] < L[u]
    BY <2>1, <2>2
  <2> QED BY <2>3, NoAscent
<1>3. IInv /\ TakenInv /\ [Next]_vars => TakenInv'
  BY TakenStep
<1> QED BY <1>1, <1>2, <1>3, Invariance, PTL DEF Spec

=============================================================================
