---------------------------- MODULE MCAcpHarness ----------------------------
EXTENDS AcpHarness, TLC

CONSTANTS a1, a2

\* The second event was written before the first and arrives after it.
MCCreatedAt == [e \in Events |-> IF e = 2 THEN 0 ELSE e]

MCThreadOf == [e \in Events |-> e % 2]

Queueing == [parent |-> FALSE, handling |-> "queue", drop |-> FALSE, initial |-> FALSE,
             lazy |-> FALSE, reaper |-> FALSE,
             agents |-> {a1}, events |-> 3, faults |-> 1, controls |-> 1]

\* The combinations the configuration accepts that behave differently: Drop
\* needs the queue policy, and so does the parent runtime.
MCConfigs == {
    [Queueing EXCEPT !.lazy = TRUE, !.reaper = TRUE, !.faults = 2],
    [Queueing EXCEPT !.drop = TRUE],
    [Queueing EXCEPT !.agents = {a1, a2}, !.events = 2, !.faults = 2, !.controls = 0],
    [Queueing EXCEPT !.parent = TRUE],
    [Queueing EXCEPT !.parent = TRUE, !.agents = {a1, a2}, !.events = 2],
    [Queueing EXCEPT !.handling = "ownerInterrupt"],
    [Queueing EXCEPT !.handling = "interrupt", !.faults = 2],
    [Queueing EXCEPT !.handling = "steer"],
    [Queueing EXCEPT !.handling = "steer", !.events = 4, !.faults = 0, !.controls = 0],
    [Queueing EXCEPT !.handling = "steer", !.initial = TRUE, !.agents = {a1, a2},
                     !.events = 2, !.controls = 0],
    [Queueing EXCEPT !.handling = "steer", !.initial = TRUE, !.agents = {a1, a2},
                     !.faults = 0, !.controls = 0]}

Small == [Queueing EXCEPT !.events = 2, !.controls = 0]

\* Smaller instances of the same combinations.
MCFairConfigs == {
    [Small EXCEPT !.lazy = TRUE, !.controls = 1],
    [Small EXCEPT !.parent = TRUE],
    [Small EXCEPT !.handling = "interrupt", !.faults = 2],
    [Small EXCEPT !.handling = "steer", !.events = 3, !.faults = 0],
    [Small EXCEPT !.handling = "steer", !.initial = TRUE, !.agents = {a1, a2}, !.faults = 0]}

\* No turn fails and nobody intervenes.
MCInterrupts == {[Queueing EXCEPT !.handling = "interrupt", !.faults = 0, !.controls = 0]}

\* The channels are interchangeable.
Symmetry == Permutations(Channels)

=============================================================================
