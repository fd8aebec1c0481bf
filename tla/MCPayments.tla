----------------------------- MODULE MCPayments -----------------------------
EXTENDS Payments

CONSTANTS k1, k2, k3, w1, w2

Quiet == [staff |-> {}, changes |-> {}, reacts |-> {}, workers |-> {w1}, first |-> TRUE,
          days |-> 0, faults |-> 0, settings |-> 0, lifecycle |-> 0]

MCConfigs == {
    \* Commands against one payment.
    [Quiet EXCEPT !.workers = {}, !.staff = {k1, k2, k3}, !.changes = {"record", "refund"}],
    [Quiet EXCEPT !.workers = {}, !.staff = {k1, k2, k3}, !.changes = {"paid", "cancel", "restore"}],
    [Quiet EXCEPT !.workers = {}, !.staff = {k1, k2}, !.changes = {"record", "amount"}, !.faults = 1],
    \* Months, pauses and moved due dates.
    [Quiet EXCEPT !.days = 4, !.lifecycle = 2],
    [Quiet EXCEPT !.days = 4, !.staff = {k1}, !.changes = {"move"}],
    \* Cards: one pod that fails, and reactions that race commands.
    [Quiet EXCEPT !.days = 3, !.faults = 2],
    [Quiet EXCEPT !.days = 3, !.staff = {k1}, !.changes = {"record", "paid"}, !.reacts = {k2}],
    \* Two pods, a change of the channel.
    [Quiet EXCEPT !.days = 2, !.workers = {w1, w2}],
    [Quiet EXCEPT !.days = 1, !.settings = 2],
    [Quiet EXCEPT !.days = 1, !.settings = 1, !.workers = {w1, w2}]}

\* One pod, one change of the channel.
MCLeak == {[Quiet EXCEPT !.days = 1, !.settings = 1]}

=============================================================================
