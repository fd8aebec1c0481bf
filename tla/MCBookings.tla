----------------------------- MODULE MCBookings -----------------------------
EXTENDS Bookings, TLC

CONSTANTS r1, r2, r3, c1, b1

MCCapacities == {NoLimit, 1, 2}

NoOp == [kind |-> "none", lesson |-> 1, child |-> c1, booking |-> b1, answer |-> "confirmed",
         capacity |-> 1, status |-> "active", rule |-> [l \in Lessons |-> "kept"]]

Do(kind) == [NoOp EXCEPT !.kind = kind]
Archive == [Do("group") EXCEPT !.status = "archived"]

\* Commands about the first lesson, its child and its booking.
Some == <<Do("web"), Do("chat"), Do("add"), Do("decide"), Do("online"), Do("leave"),
          Do("transfer"), Do("cancel"), [Do("override") EXCEPT !.capacity = 2], Do("restore"),
          Do("enroll"), Do("trial"), Archive, [Do("group") EXCEPT !.capacity = 2],
          [Do("group") EXCEPT !.rule[1] = "narrowed"], [Do("group") EXCEPT !.rule[1] = "archived"]>>

Pending == b1 :> [child |-> c1, lesson |-> 1, status |-> "pending", transfer |-> FALSE]
Confirmed == [Pending EXCEPT ![b1].status = "confirmed"]
NoBooking == [b \in {} |-> None]

Base == [ops |-> [r \in Requests |-> NoOp], capacity |-> 1, seeds |-> Pending, tries |-> 1,
         faults |-> 0, messenger |-> FALSE]

With(x, y, z) == [Base EXCEPT !.ops[r1] = x, !.ops[r2] = y, !.ops[r3] = z]

\* Any two commands at once, and any three of the ones that hold or take seats
\* or take the lesson away.
Pairs == {With(Some[i], Some[j], NoOp) : i \in DOMAIN Some, j \in DOMAIN Some}
Main == {1, 2, 3, 4, 5, 8, 11, 13}
Triples == UNION {{With(Some[i], Some[j], Some[k]) : j \in Main \cap (i..k)} : i \in Main, k \in Main}

MCConfigs ==
    Pairs \cup Triples \cup
    \* A trial that is confirmed, with any other command.
    {[With(Do("trial"), Some[i], NoOp) EXCEPT !.seeds = Confirmed] : i \in DOMAIN Some} \cup
    \* A free seat is taken while another command runs.
    {[With(Do(kind), Some[i], NoOp) EXCEPT !.seeds = NoBooking] :
        kind \in {"web", "chat", "add"}, i \in DOMAIN Some} \cup
    {\* The last seats, and requests that are sent again.
     [With(Do("web"), Do("web"), Do("add")) EXCEPT !.seeds = NoBooking],
     [With(Do("web"), Do("chat"), Do("enroll")) EXCEPT !.seeds = NoBooking, !.capacity = 2],
     [With(Do("web"), Do("add"), NoOp) EXCEPT !.seeds = NoBooking, !.capacity = 2, !.tries = 2, !.faults = 1],
     [With(Do("leave"), Do("web"), NoOp) EXCEPT !.tries = 2],
     [With(Do("online"), Do("cancel"), NoOp) EXCEPT !.tries = 2],
     \* Connectors that stop, are late and report twice.
     [With(Do("decide"), NoOp, NoOp) EXCEPT !.messenger = TRUE, !.faults = 1],
     [With([Do("decide") EXCEPT !.answer = "rejected"], Do("cancel"), NoOp) EXCEPT !.messenger = TRUE]}

=============================================================================
