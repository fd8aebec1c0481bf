------------------------- MODULE AcpHarness_proofs -------------------------
(***************************************************************************)
(* Proofs about the ACP harness: no agent serves two turns, no channel is  *)
(* served by two, the parent runtime holds the lease of its one turn, and  *)
(* every event the harness received is in one place until it has a fate.   *)
(***************************************************************************)
EXTENDS AcpHarness, EventQueue_proofs

-----------------------------------------------------------------------------
(* The inductive invariant *)

\* A turn serves the channel of its batch; the heartbeat has neither a batch
\* nor steers.
TurnShape ==
  \A a \in Busy :
     /\ task[a].channel \in Channels => task[a].batch.channel = task[a].channel
     /\ task[a].channel = "heartbeat" => task[a].batch = NoBatch /\ task[a].steers = <<>>

\* The results that wait are those of different turns, which have returned.
ResultsReady ==
  /\ Distinct(results)
  /\ \A a \in Elems(results) : a \in Busy /\ task[a].phase = "returned"

\* A circuit that was not opened has counted fewer crashes than open it.
CircuitCounts == \A a \in Agents : circuit[a] = "unset" => crashes[a] < Threshold

\* Before the pool is ready no slot is in use and nothing is dispatched.
PoolAsleep ==
  pool # "ready" =>
     /\ idle = {} /\ respawning = {} /\ acks = {} /\ Busy = {}
     /\ loop \in {"select", "exited"} /\ \A a \in Agents : circuit[a] # "future"

\* OneTurnPerChannel, for the channels that were never released early.
OneTurn ==
  \A c \in Channels \ overran :
     /\ \A a, b \in TurnsOn(c) : a = b
     /\ c \in q.inFlight <=> TurnsOn(c) # {}

\* ParentTurnLeased, and there is one turn with a channel.
OneLease ==
  config.parent =>
     /\ \A c, d \in leases : c = d
     /\ \A a \in Busy : task[a].channel \in Channels => leases = {task[a].channel}
     /\ \A a, b \in Busy : task[a].channel \in Channels /\ task[b].channel \in Channels => a = b

\* What each channel holds in the queue, and each slot in its batch.
Queued == [c \in Channels |-> HeldFor(q, c)]

Taken == [a \in Agents |-> IF a \in Busy THEN BatchEvents(task[a].batch) ELSE {}]

Disjoint(H, B) ==
  /\ \A c, d \in Channels : c # d => H[c] \cap H[d] = {}
  /\ \A a, b \in Agents : a # b => B[a] \cap B[b] = {}
  /\ \A c \in Channels, a \in Agents : H[c] \cap B[a] = {}

\* A batch holds no event twice.
TidyBatch(b) ==
  Distinct(b.events) /\ Distinct(b.cancelled) /\ Elems(b.events) \cap Elems(b.cancelled) = {}

\* No event is held twice.
Apart ==
  /\ \A c \in Channels : Tidy(q, c)
  /\ \A a \in Busy : TidyBatch(task[a].batch)
  /\ Disjoint(Queued, Taken)

\* The events that are held are those received that have no fate.
Ledger ==
  /\ Held = {e \in Events : e <= received /\ fate[e] = "none"}
  /\ \A e \in Events : e > received => fate[e] = "none"

\* The parts about slots and turns, and the parts about events.
Steady ==
  /\ TypeOK /\ SlotHeldOnce /\ TurnShape /\ ResultsReady /\ CircuitCounts /\ PoolAsleep
  /\ OneTurn /\ OneLease /\ OneThreadPerTurn

IInv == Steady /\ Apart /\ Ledger

-----------------------------------------------------------------------------
(* Turns *)

\* A turn is a record that differs from an empty slot.
LEMMA TurnTypes ==
  ASSUME TypeOK
  PROVE  /\ Busy \subseteq Agents
         /\ \A a \in Busy : /\ task[a] \in Turns /\ task[a].channel \in Channels \cup {"heartbeat"}
                            /\ task[a].batch \in Batches
         /\ \A t \in Turns : t # NoTask
         /\ \A a \in Agents \ Busy : task[a] = NoTask
         /\ "heartbeat" \notin Channels /\ "none" \notin Channels
<1>1. "heartbeat" \notin Channels /\ "none" \notin Channels
  BY HarnessAssumption
<1>2. \A t \in Turns : t # NoTask
  <2> SUFFICES ASSUME NEW t \in Turns, t = NoTask PROVE FALSE
    OBVIOUS
  <2>1. t.channel \in Channels \cup {"heartbeat"}
    BY DEF Turns
  <2>2. NoTask.channel = "none"
    BY DEF NoTask
  <2> QED BY <1>1, <2>1, <2>2
<1>3. \A a \in Busy : task[a] \in Turns
  BY DEF TypeOK, Busy
<1>4. \A t \in Turns : t.channel \in Channels \cup {"heartbeat"} /\ t.batch \in Batches
  BY DEF Turns
<1> QED BY <1>1, <1>2, <1>3, <1>4 DEF Busy

\* The turns go on with the same channels and batches.
SameTurns ==
  /\ Busy' = Busy
  /\ \A a \in Busy : /\ task'[a].channel = task[a].channel /\ task'[a].batch = task[a].batch
                     /\ task'[a].isolated = task[a].isolated

\* A step that changes one turn in other respects.
LEMMA TurnEdited ==
  ASSUME TypeOK, NEW a \in Busy, NEW t \in Turns, task' = [task EXCEPT ![a] = t],
         t.channel = task[a].channel, t.batch = task[a].batch, t.isolated = task[a].isolated
  PROVE  /\ SameTurns /\ task' \in [Agents -> Turns \cup {NoTask}]
         /\ task'[a] = t /\ \A b \in Agents : b # a => task'[b] = task[b]
<1>1. a \in Agents /\ t # NoTask /\ task[a] # NoTask
  BY TurnTypes DEF Busy
<1>2. task \in [Agents -> Turns \cup {NoTask}]
  BY DEF TypeOK
<1>3. /\ task' \in [Agents -> Turns \cup {NoTask}] /\ task'[a] = t
      /\ \A b \in Agents : b # a => task'[b] = task[b]
  BY <1>1, <1>2
<1>4. Busy' = Busy
  BY <1>1, <1>3 DEF Busy
<1> QED BY <1>3, <1>4 DEF SameTurns

\* signal_in_flight_task changes nothing but the signal of a turn.
LEMMA SignalTurns ==
  ASSUME TypeOK, NEW c \in Channels, NEW s \in {"stop", "requeue"}, Signal(c, s)
  PROVE  /\ SameTurns /\ task' \in [Agents -> Turns \cup {NoTask}]
         /\ \A a \in Busy : task'[a].phase = task[a].phase /\ task'[a].steers = task[a].steers
<1>1. CASE task' = task
  BY <1>1 DEF SameTurns, Busy, TypeOK
<1>2. CASE task' # task
  <2>1. PICK a \in Agents : a \in Running /\ task' = [task EXCEPT ![a].signal = s]
    <3>1. \A a \in TurnsOn(c) : a \in Agents
      BY DEF TurnsOn, Busy
    <3> QED BY <1>2, <3>1 DEF Signal
  <2>2. a \in Busy /\ task[a] \in Turns
    BY <2>1, TurnTypes DEF Running
  <2>3. PICK t : t = [task[a] EXCEPT !.signal = s]
    OBVIOUS
  <2>4. /\ t \in Turns /\ t.channel = task[a].channel /\ t.batch = task[a].batch /\ t.isolated = task[a].isolated
        /\ t.phase = task[a].phase /\ t.steers = task[a].steers
    BY <2>2, <2>3 DEF Turns
  <2>5. task' = [task EXCEPT ![a] = t]
    BY <2>1, <2>3
  <2>6. /\ SameTurns /\ task' \in [Agents -> Turns \cup {NoTask}]
        /\ task'[a] = t /\ \A b \in Agents : b # a => task'[b] = task[b]
    BY <2>2, <2>4, <2>5, TurnEdited
  <2> QED BY <2>4, <2>6 DEF Busy
<1> QED BY <1>1, <1>2

-----------------------------------------------------------------------------
(* Events *)

Whole(H, B) == (UNION {H[c] : c \in Channels}) \cup (UNION {B[a] : a \in Agents})

\* Members of the union of a family.
LEMMA InUnion ==
  ASSUME NEW S, NEW F, NEW e
  PROVE  e \in UNION {F[c] : c \in S} <=> \E c \in S : e \in F[c]
<1>1. ASSUME NEW c \in S, e \in F[c] PROVE e \in UNION {F[d] : d \in S}
  BY <1>1
<1>2. ASSUME e \in UNION {F[d] : d \in S} PROVE \E c \in S : e \in F[c]
  <2>1. PICK x \in {F[d] : d \in S} : e \in x
    BY <1>2
  <2> QED BY <2>1
<1> QED BY <1>1, <1>2

\* Members of a whole.
LEMMA InWhole ==
  ASSUME NEW H, NEW B, NEW e
  PROVE  e \in Whole(H, B) <=> (\E c \in Channels : e \in H[c]) \/ (\E a \in Agents : e \in B[a])
<1>1. PICK U, V : U = UNION {H[c] : c \in Channels} /\ V = UNION {B[a] : a \in Agents}
  OBVIOUS
<1>2. e \in U <=> \E c \in Channels : e \in H[c]
  BY <1>1, InUnion
<1>3. e \in V <=> \E a \in Agents : e \in B[a]
  BY <1>1, InUnion
<1>4. Whole(H, B) = U \cup V
  BY <1>1 DEF Whole
<1> QED BY <1>2, <1>3, <1>4

\* What is held is what the channels and the slots hold.
LEMMA HeldWhole ==
  /\ Held = Whole(Queued, Taken)
  /\ \A e : e \in Held <=> \/ \E c \in Channels : e \in HeldFor(q, c)
                           \/ \E a \in Busy : e \in BatchEvents(task[a].batch)
<1>1. PICK H, B, Z : H = Queued /\ B = Taken /\ Z = Busy
  OBVIOUS
<1>2. (\A c \in Channels : H[c] = HeldFor(q, c)) /\ Z \subseteq Agents
  BY <1>1 DEF Queued, Busy
<1>3. (\A a \in Z : B[a] = BatchEvents(task[a].batch)) /\ \A a \in Agents \ Z : B[a] = {}
  BY <1>1, <1>2 DEF Taken
<1>4. {HeldFor(q, c) : c \in Channels} = {H[c] : c \in Channels}
  BY <1>2
<1>5. {BatchEvents(task[a].batch) : a \in Z} = {B[a] : a \in Z}
  BY <1>3
<1>6. Held = (UNION {H[c] : c \in Channels}) \cup (UNION {B[a] : a \in Z})
  BY <1>1, <1>4, <1>5 DEF Held
<1>7. \A e : e \in Held <=> (\E c \in Channels : e \in H[c]) \/ (\E a \in Z : e \in B[a])
  <2>1. PICK U, V : U = UNION {H[c] : c \in Channels} /\ V = UNION {B[a] : a \in Z}
    OBVIOUS
  <2>2. \A e : e \in U <=> \E c \in Channels : e \in H[c]
    BY <2>1, InUnion
  <2>3. \A e : e \in V <=> \E a \in Z : e \in B[a]
    BY <2>1, InUnion
  <2> QED BY <1>6, <2>1, <2>2, <2>3
<1>8. \A e : e \in Held <=> e \in Whole(H, B)
  BY <1>2, <1>3, <1>7, InWhole
<1> QED BY <1>1, <1>2, <1>3, <1>7, <1>8

\* Events of channel c and slot a change places, X arriving.
Move(H, B, G, D, X, c, a) ==
  /\ c \in Channels /\ a \in Agents
  /\ \A d \in Channels : d # c => G[d] \subseteq H[d]
  /\ \A b \in Agents : b # a => D[b] \subseteq B[b]
  /\ G[c] \cup D[a] \subseteq H[c] \cup B[a] \cup X
  /\ G[c] \cap D[a] = {}
  /\ X \cap Whole(H, B) = {}

\* Such a move duplicates no event.
LEMMA Moves ==
  ASSUME NEW H, NEW B, NEW G, NEW D, NEW X, NEW c, NEW a, Disjoint(H, B), Move(H, B, G, D, X, c, a)
  PROVE  Disjoint(G, D) /\ Whole(G, D) \subseteq Whole(H, B) \cup X
<1> USE DEF Move
<1>1. \A d \in Channels : H[d] \subseteq Whole(H, B)
  BY InWhole
<1>2. \A b \in Agents : B[b] \subseteq Whole(H, B)
  BY InWhole
<1>3. Disjoint(G, D)
  <2>1. ASSUME NEW d \in Channels, NEW f \in Channels, d # f PROVE G[d] \cap G[f] = {}
    BY <1>1, <2>1 DEF Disjoint
  <2>2. ASSUME NEW d \in Agents, NEW f \in Agents, d # f PROVE D[d] \cap D[f] = {}
    BY <1>2, <2>2 DEF Disjoint
  <2>3. ASSUME NEW d \in Channels, NEW f \in Agents PROVE G[d] \cap D[f] = {}
    BY <1>1, <1>2 DEF Disjoint
  <2> QED BY <2>1, <2>2, <2>3 DEF Disjoint
<1>4. (\A d \in Channels : G[d] \subseteq Whole(H, B) \cup X) /\ (\A b \in Agents : D[b] \subseteq Whole(H, B) \cup X)
  BY <1>1, <1>2
<1>5. Whole(G, D) \subseteq Whole(H, B) \cup X
  <2>1. \A e \in Whole(G, D) : (\E d \in Channels : e \in G[d]) \/ (\E b \in Agents : e \in D[b])
    BY InWhole
  <2> QED BY <1>4, <2>1
<1> QED BY <1>3, <1>5

\* Events that only leave.
LEMMA Shrinks ==
  ASSUME NEW H, NEW B, NEW G, NEW D, Disjoint(H, B),
         \A d \in Channels : G[d] \subseteq H[d], \A b \in Agents : D[b] \subseteq B[b]
  PROVE  Disjoint(G, D) /\ Whole(G, D) \subseteq Whole(H, B)
BY InWhole DEF Disjoint

\* The events received in this step.
Arriving == {e \in Events : received < e /\ e <= received'}

\* An event that leaves for another reason than those of S leaves at the cap.
AtCap(S) ==
  \A e \in Held \ Held' : e \in S \/ \E c \in Channels : /\ e \in Load(c)
                                                        /\ Cardinality(Load(c)) + (received' - received) > MaxPending

\* What LostOnlyAtCap says of one step.
LossStep ==
  \A e \in Events : fate[e] # fate'[e] /\ fate'[e] = "overflow" =>
      \E c \in Channels : e \in Load(c) /\ Cardinality(Load(c)) + (received' - received) > MaxPending

\* The fates of the events that leave keep the ledger.
LEMMA Settled ==
  ASSUME TypeOK, Ledger, received' \in Nat, received <= received', NEW S, NEW why \in Fates,
         Settle(S, why), S = {} \/ why \notin {"none", "overflow"},
         Held' \subseteq Held \cup Arriving, Arriving \subseteq Held' \cup S, S \subseteq Held \cup Arriving,
         S \cap Held' = {}, AtCap(S)
  PROVE  Ledger' /\ fate' \in [Events -> Fates] /\ LossStep
<1>1. received \in Nat /\ Events \subseteq Nat /\ fate \in [Events -> Fates]
  BY QueueAssumption DEF TypeOK
<1>2. PICK V : V = Held'
  OBVIOUS
<1>3. fate' = [e \in Events |-> IF e \in S THEN why ELSE IF e \in Held \ V THEN "overflow" ELSE fate[e]]
  BY <1>2 DEF Settle
<1>4. \A e \in Events : fate'[e] = IF e \in S THEN why ELSE IF e \in Held \ V THEN "overflow" ELSE fate[e]
  BY <1>3
<1>5. \A e : e \in Held <=> e \in Events /\ e <= received /\ fate[e] = "none"
  BY DEF Ledger
<1>6. \A e \in Events : e > received => fate[e] = "none"
  BY DEF Ledger
<1>7. \A e : e \in Arriving <=> e \in Events /\ received < e /\ e <= received'
  BY DEF Arriving
<1>8. ASSUME NEW e \in Events PROVE e \in V <=> e <= received' /\ fate'[e] = "none"
  <2>1. e \in Nat
    BY <1>1
  <2>2. ASSUME e \in V PROVE e <= received' /\ fate'[e] = "none"
    <3>1. e \notin S /\ fate'[e] = fate[e]
      BY <1>2, <1>4, <2>2
    <3>2. CASE e \in Held
      BY <1>1, <1>5, <2>1, <3>1, <3>2
    <3>3. CASE e \in Arriving
      BY <1>1, <1>6, <1>7, <2>1, <3>1, <3>3
    <3> QED BY <1>2, <2>2, <3>2, <3>3
  <2>3. ASSUME e <= received', fate'[e] = "none" PROVE e \in V
    <3>1. e \notin S
      BY <1>4, <2>3
    <3>2. e \notin Held \ V /\ fate[e] = "none"
      BY <1>4, <2>3, <3>1
    <3>3. CASE e <= received
      BY <1>5, <3>2, <3>3
    <3>4. CASE ~ (e <= received)
      <4>1. e \in Arriving
        BY <1>1, <1>7, <2>1, <2>3, <3>4
      <4> QED BY <1>2, <3>1, <4>1
    <3> QED BY <3>3, <3>4
  <2> QED BY <2>2, <2>3
<1>9. V \subseteq Events
  BY <1>2, <1>5, <1>7
<1>10. ASSUME NEW e \in Events, e > received' PROVE fate'[e] = "none"
  <2>1. e > received /\ e \in Nat /\ ~ (e <= received) /\ ~ (e <= received')
    BY <1>1, <1>10
  <2>2. e \notin Held /\ e \notin Arriving
    BY <1>5, <1>7, <2>1
  <2> QED BY <1>4, <1>6, <2>1, <2>2
<1>11. Ledger'
  <2>1. V = {e \in Events : e <= received' /\ fate'[e] = "none"}
    BY <1>8, <1>9
  <2> QED BY <1>2, <1>10, <2>1 DEF Ledger
<1>12. fate' \in [Events -> Fates]
  <2>1. "overflow" \in Fates
    BY DEF Fates
  <2> QED BY <1>1, <1>3, <2>1
<1>13. LossStep
  <2> SUFFICES ASSUME NEW e \in Events, fate[e] # fate'[e], fate'[e] = "overflow"
               PROVE  \E c \in Channels : e \in Load(c) /\ Cardinality(Load(c)) + (received' - received) > MaxPending
    BY DEF LossStep
  <2>1. e \notin S /\ e \in Held \ V
    BY <1>4
  <2> QED BY <1>2, <2>1 DEF AtCap
<1> QED BY <1>11, <1>12, <1>13

\* What is held for a channel.
LEMMA LoadHeld ==
  ASSUME TypeOK, Ledger, TurnShape, NEW c \in Channels
  PROVE  /\ IsFiniteSet(Load(c)) /\ Cardinality(Load(c)) \in Nat /\ Load(c) \subseteq Held
         /\ HeldFor(q, c) \subseteq Load(c)
         /\ \A a \in TurnsOn(c) : BatchEvents(task[a].batch) \subseteq Load(c)
<1>1. PICK Z, F : Z = TurnsOn(c) /\ F = [a \in Z |-> BatchEvents(task[a].batch)]
  OBVIOUS
<1>2. {BatchEvents(task[a].batch) : a \in TurnsOn(c)} = {F[a] : a \in Z}
  BY <1>1
<1>3. \A e : e \in Load(c) <=> e \in HeldFor(q, c) \/ \E a \in Z : e \in F[a]
  <2>1. PICK U : U = UNION {F[a] : a \in Z}
    OBVIOUS
  <2>2. Load(c) = HeldFor(q, c) \cup U
    BY <1>2, <2>1 DEF Load
  <2>3. \A e : e \in U <=> \E a \in Z : e \in F[a]
    BY <2>1, InUnion
  <2> QED BY <2>2, <2>3
<1>4. Z \subseteq Busy
  BY <1>1 DEF TurnsOn
<1>5. Load(c) \subseteq Held
  BY <1>1, <1>3, <1>4, HeldWhole
<1>6. received \in Nat /\ Events \subseteq Nat
  BY QueueAssumption DEF TypeOK
<1>7. \A e \in Held : e \in 0..received
  BY <1>6 DEF Ledger
<1>8. IsFiniteSet(0..received)
  <2>1. PICK m \in Nat, n \in Nat : m = 0 /\ n = received
    BY <1>6
  <2>2. IsFiniteSet(m..n)
    BY FS_Interval
  <2> QED BY <2>1, <2>2
<1>9. IsFiniteSet(Load(c))
  <2>1. PICK U : U = Load(c)
    OBVIOUS
  <2>2. U \in SUBSET (0..received)
    BY <1>5, <1>7, <2>1
  <2>3. IsFiniteSet(U)
    BY <1>8, <2>2, FS_Subset
  <2> QED BY <2>1, <2>3
<1>10. Cardinality(Load(c)) \in Nat
  BY <1>9, FS_CardinalityType
<1> QED BY <1>1, <1>3, <1>5, <1>9, <1>10

\* An event that is held is held for a channel.
LEMMA HeldLoad ==
  ASSUME TypeOK, Ledger, TurnShape, NEW e \in Held
  PROVE  \/ \E c \in Channels : e \in HeldFor(q, c)
         \/ \E a \in Busy : task[a].channel \in Channels /\ a \in TurnsOn(task[a].channel) /\ e \in BatchEvents(task[a].batch)
<1>1. CASE \E c \in Channels : e \in HeldFor(q, c)
  BY <1>1
<1>2. CASE \E a \in Busy : e \in BatchEvents(task[a].batch)
  <2>1. PICK a \in Busy : e \in BatchEvents(task[a].batch)
    BY <1>2
  <2>2. task[a].channel \in Channels
    <3> SUFFICES ASSUME task[a].channel \notin Channels PROVE FALSE
      OBVIOUS
    <3>1. task[a].batch = NoBatch
      BY TurnTypes DEF TurnShape
    <3>2. NoBatch.events = <<>> /\ NoBatch.cancelled = <<>> /\ Elems(<<>>) = {}
      BY DEF NoBatch, Elems
    <3> QED BY <2>1, <3>1, <3>2 DEF BatchEvents
  <2> QED BY <2>1, <2>2 DEF TurnsOn
<1> QED BY <1>1, <1>2, HeldWhole

\* The parts of the invariant about events.
Accounts == q \in Queues /\ fate \in [Events -> Fates] /\ Apart /\ Ledger

\* A step in which events change places between one channel and one slot.
LEMMA Transfer ==
  ASSUME TypeOK, Apart, Ledger, NEW c \in Channels, NEW a \in Agents, NEW S, NEW why \in Fates,
         q' \in Queues, \A d \in Channels : Tidy(q', d), \A b \in Busy' : TidyBatch(task'[b].batch),
         \A d \in Channels : d # c => Queued'[d] \subseteq Queued[d],
         \A b \in Agents : b # a => Taken'[b] \subseteq Taken[b],
         Queued'[c] \cup Taken'[a] \subseteq Queued[c] \cup Taken[a] \cup Arriving,
         Queued'[c] \cap Taken'[a] = {},
         received' \in Nat, received <= received', Settle(S, why), S = {} \/ why \notin {"none", "overflow"},
         Arriving \subseteq Held' \cup S, S \subseteq Held \cup Arriving, S \cap Held' = {}, AtCap(S)
  PROVE  Accounts' /\ LossStep
<1>1. PICK H, B, G, D, X : H = Queued /\ B = Taken /\ G = Queued' /\ D = Taken' /\ X = Arriving
  OBVIOUS
<1>2. Held = Whole(H, B)
  BY <1>1, HeldWhole
<1>3. Held' = Whole(G, D)
  <2>1. (Held = Whole(Queued, Taken))'
    BY HeldWhole, PTL
  <2> QED BY <1>1, <2>1 DEF Whole
<1>4. Disjoint(H, B)
  BY <1>1 DEF Apart
<1>5. X \cap Whole(H, B) = {}
  <2>1. received \in Nat /\ Events \subseteq Nat
    BY QueueAssumption DEF TypeOK
  <2>2. \A e \in Held : e \in Events /\ e <= received
    BY DEF Ledger
  <2>3. \A e \in X : e \in Events /\ received < e
    BY <1>1 DEF Arriving
  <2>4. \A e \in Events : ~ (e <= received /\ received < e)
    BY <2>1
  <2>5. \A e \in X : e \notin Held
    BY <2>2, <2>3, <2>4
  <2> QED BY <1>2, <2>5
<1>6. Disjoint(G, D) /\ Whole(G, D) \subseteq Whole(H, B) \cup X
  <2>1. Move(H, B, G, D, X, c, a)
    BY <1>1, <1>5 DEF Move
  <2> QED BY ONLY <1>4, <2>1, Moves
<1>7. Disjoint(Queued, Taken)'
  BY <1>1, <1>6 DEF Disjoint
<1>8. Apart'
  BY <1>7 DEF Apart, Tidy
<1>9. Held' \subseteq Held \cup Arriving
  BY <1>1, <1>2, <1>3, <1>6
<1>10. Ledger' /\ fate' \in [Events -> Fates] /\ LossStep
  BY <1>9, Settled
<1> QED BY <1>8, <1>10 DEF Accounts, Queues

\* A step in which events only leave.
LEMMA Dwindle ==
  ASSUME TypeOK, Apart, Ledger, NEW S, NEW why \in Fates,
         q' \in Queues, \A d \in Channels : Tidy(q', d), \A b \in Busy' : TidyBatch(task'[b].batch),
         \A d \in Channels : Queued'[d] \subseteq Queued[d], \A b \in Agents : Taken'[b] \subseteq Taken[b],
         received' = received, Settle(S, why), S = {} \/ why \notin {"none", "overflow"},
         S \subseteq Held, S \cap Held' = {}, AtCap(S)
  PROVE  Accounts' /\ LossStep
<1>1. PICK H, B, G, D : H = Queued /\ B = Taken /\ G = Queued' /\ D = Taken'
  OBVIOUS
<1>2. Held = Whole(H, B)
  BY <1>1, HeldWhole
<1>3. Held' = Whole(G, D)
  <2>1. (Held = Whole(Queued, Taken))'
    BY HeldWhole, PTL
  <2> QED BY <1>1, <2>1 DEF Whole
<1>4. Disjoint(H, B)
  BY <1>1 DEF Apart
<1>5. Disjoint(G, D) /\ Whole(G, D) \subseteq Whole(H, B)
  BY <1>1, <1>4, Shrinks
<1>6. Disjoint(Queued, Taken)'
  BY <1>1, <1>5 DEF Disjoint
<1>7. Apart'
  BY <1>6 DEF Apart, Tidy
<1>8. received \in Nat /\ Events \subseteq Nat
  <2>1. received \in Events \cup {0}
    BY DEF TypeOK
  <2>2. Events \subseteq Nat
    BY QueueAssumption
  <2> QED BY ONLY <2>1, <2>2
<1>9. Arriving = {}
  <2>1. \A e \in Arriving : e \in Nat /\ received < e /\ e <= received
    BY <1>8 DEF Arriving
  <2> QED BY <1>8, <2>1
<1>10. received' \in Nat /\ received <= received' /\ Held' \subseteq Held \cup Arriving
       /\ Arriving \subseteq Held' \cup S /\ S \subseteq Held \cup Arriving
  BY <1>1, <1>2, <1>3, <1>5, <1>8, <1>9
<1>11. Ledger' /\ fate' \in [Events -> Fates] /\ LossStep
  BY <1>10, Settled
<1> QED BY <1>7, <1>11 DEF Accounts, Queues

\* What the channels and the slots hold after a step.
LEMMA NextHolds ==
  /\ \A d \in Channels : Queued[d] = HeldFor(q, d) /\ Queued'[d] = HeldFor(q', d)
  /\ \A b \in Agents : /\ Taken[b] = IF b \in Busy THEN BatchEvents(task[b].batch) ELSE {}
                       /\ Taken'[b] = IF b \in Busy' THEN BatchEvents(task'[b].batch) ELSE {}
BY DEF Queued, Taken, HeldFor, BatchEvents, Elems

\* The turns hold the same events.
LEMMA SameTaken ==
  ASSUME SameTurns
  PROVE  /\ \A b \in Agents : Taken'[b] = Taken[b]
         /\ (\A b \in Busy : TidyBatch(task[b].batch)) => \A b \in Busy' : TidyBatch(task'[b].batch)
BY NextHolds DEF SameTurns

\* A turn is over.
LEMMA TurnOver ==
  ASSUME TypeOK, NEW a \in Busy, task' = [task EXCEPT ![a] = NoTask]
  PROVE  /\ task' \in [Agents -> Turns \cup {NoTask}] /\ Busy' = Busy \ {a}
         /\ \A b \in Agents : b # a => task'[b] = task[b] /\ Taken'[b] = Taken[b]
         /\ task'[a] = NoTask /\ Taken'[a] = {} /\ Taken[a] = BatchEvents(task[a].batch)
<1>1. a \in Agents /\ task \in [Agents -> Turns \cup {NoTask}]
  BY DEF Busy, TypeOK
<1>2. /\ task' \in [Agents -> Turns \cup {NoTask}] /\ task'[a] = NoTask
      /\ \A b \in Agents : b # a => task'[b] = task[b]
  BY <1>1
<1>3. Busy' = Busy \ {a}
  BY <1>1, <1>2 DEF Busy
<1>4. /\ \A b \in Agents : b # a => Taken'[b] = Taken[b]
      /\ Taken'[a] = {} /\ Taken[a] = BatchEvents(task[a].batch)
  BY <1>1, <1>2, <1>3, NextHolds
<1> QED BY <1>2, <1>3, <1>4

\* A turn begins.
LEMMA TurnBegun ==
  ASSUME TypeOK, NEW a \in Agents, a \notin Busy, NEW t \in Turns, task' = [task EXCEPT ![a] = t]
  PROVE  /\ task' \in [Agents -> Turns \cup {NoTask}] /\ Busy' = Busy \cup {a}
         /\ \A b \in Agents : b # a => task'[b] = task[b] /\ Taken'[b] = Taken[b]
         /\ task'[a] = t /\ Taken'[a] = BatchEvents(t.batch) /\ Taken[a] = {}
<1>1. task \in [Agents -> Turns \cup {NoTask}] /\ t # NoTask
  BY TurnTypes DEF TypeOK
<1>2. /\ task' \in [Agents -> Turns \cup {NoTask}] /\ task'[a] = t
      /\ \A b \in Agents : b # a => task'[b] = task[b]
  BY <1>1
<1>3. Busy' = Busy \cup {a}
  BY <1>1, <1>2 DEF Busy
<1>4. /\ \A b \in Agents : b # a => Taken'[b] = Taken[b]
      /\ Taken'[a] = BatchEvents(t.batch) /\ Taken[a] = {}
  BY <1>1, <1>2, <1>3, NextHolds
<1> QED BY <1>2, <1>3, <1>4

\* A step that moves no event.
LEMMA Still ==
  ASSUME TypeOK, Apart, Ledger, Leaves(q, q'), SameTurns, fate' = fate, received' = received
  PROVE  Accounts' /\ LossStep
<1>1. q' \in Queues
  BY DEF Leaves
<1>2. \A c \in Channels : HeldFor(q', c) = HeldFor(q, c) /\ Tidy(q', c)
  BY LeavesHolds DEF TypeOK, Apart
<1>3. \A d \in Channels : Queued'[d] = Queued[d]
  BY <1>2, NextHolds
<1>4. (\A b \in Agents : Taken'[b] = Taken[b]) /\ \A b \in Busy' : TidyBatch(task'[b].batch)
  BY SameTaken DEF Apart
<1>5. Disjoint(Queued, Taken)'
  BY <1>3, <1>4 DEF Disjoint, Apart
<1>6. Apart'
  BY <1>2, <1>4, <1>5 DEF Apart, Tidy
<1>7. (\A e : e \in Held <=> \/ \E c \in Channels : e \in HeldFor(q, c)
                             \/ \E a \in Busy : e \in BatchEvents(task[a].batch))'
  BY HeldWhole, PTL
<1>8. Held' = Held
  <2>1. \A e : e \in Held' <=> \/ \E c \in Channels : e \in HeldFor(q', c)
                               \/ \E a \in Busy' : e \in BatchEvents(task'[a].batch)
    BY <1>7 DEF HeldFor, BatchEvents, Elems
  <2>2. \A e : e \in Held' <=> e \in Held
    BY <1>2, <2>1, HeldWhole DEF SameTurns
  <2> QED BY <2>2
<1>9. Ledger'
  BY <1>8 DEF Ledger
<1> QED BY <1>1, <1>6, <1>9 DEF Accounts, LossStep, TypeOK, Queues

-----------------------------------------------------------------------------
(* Slots, leases and results *)

\* The turns that go on keep their leases.
LEMMA LeaseKept ==
  ASSUME OneLease, config' = config, leases' \subseteq leases, Busy' \subseteq Busy,
         \A a \in Busy' : task'[a].channel = task[a].channel /\ (task[a].channel \in leases => task[a].channel \in leases')
  PROVE  OneLease'
<1>1. \A a \in Busy' : a \in Busy
  OBVIOUS
<1> SUFFICES ASSUME config.parent
             PROVE  /\ \A c, d \in leases' : c = d
                    /\ \A a \in Busy' : task'[a].channel \in Channels => leases' = {task'[a].channel}
                    /\ \A a, b \in Busy' : task'[a].channel \in Channels /\ task'[b].channel \in Channels => a = b
  BY DEF OneLease
<1>2. /\ \A c, d \in leases : c = d
      /\ \A a \in Busy : task[a].channel \in Channels => leases = {task[a].channel}
      /\ \A a, b \in Busy : task[a].channel \in Channels /\ task[b].channel \in Channels => a = b
  BY DEF OneLease
<1>3. ASSUME NEW a \in Busy', task'[a].channel \in Channels PROVE leases' = {task'[a].channel}
  <2>1. PICK c : c = task[a].channel
    OBVIOUS
  <2>2. leases = {c} /\ task'[a].channel = c /\ c \in leases'
    BY <1>1, <1>2, <1>3, <2>1
  <2> QED BY <2>2
<1> QED BY <1>1, <1>2, <1>3

\* The head of dispatch_pending finishes leases of no turn.
LEMMA BeginKeeps ==
  ASSUME TypeOK, BeginDispatch(leases, faults), config' = config
  PROVE  /\ loop' = "dispatch" /\ faults' \in 0..config.faults /\ leases' \subseteq leases
         /\ \A a \in Agents : task'[a].channel \in leases => task'[a].channel \in leases'
<1>1. PICK active : active = {c \in leases : \E a \in Agents : task'[a].channel = c}
  OBVIOUS
<1>2. PICK kept \in SUBSET (leases \ active) :
         /\ kept # {} => faults < config.faults
         /\ leases' = active \cup kept
         /\ faults' = IF kept # {} THEN faults + 1 ELSE faults
  BY <1>1 DEF BeginDispatch
<1>3. loop' = "dispatch"
  BY DEF BeginDispatch
<1>4. config.faults \in Nat /\ faults \in 0..config.faults
  BY HarnessAssumption DEF TypeOK
<1>5. faults' \in 0..config.faults
  BY <1>2, <1>4
<1>6. leases' \subseteq leases
  BY <1>1, <1>2
<1>7. \A a \in Agents : task'[a].channel \in leases => task'[a].channel \in leases'
  BY <1>1, <1>2
<1> QED BY <1>3, <1>5, <1>6, <1>7

\* The turns that go on keep to their channels and threads.
LEMMA SameService ==
  ASSUME OneTurn, OneThreadPerTurn, SameTurns, overran \subseteq overran',
         \A c \in Channels \ overran' : c \in q'.inFlight <=> c \in q.inFlight
  PROVE  OneTurn' /\ OneThreadPerTurn'
<1>1. \A c \in Channels : TurnsOn(c)' = TurnsOn(c)
  BY DEF TurnsOn, SameTurns
<1>2. OneTurn'
  <2>1. ASSUME NEW c \in Channels \ overran' PROVE (\A a, b \in TurnsOn(c)' : a = b) /\ (c \in q'.inFlight <=> TurnsOn(c)' # {})
    <3>1. PICK Z : Z = TurnsOn(c)
      OBVIOUS
    <3>2. (\A a, b \in Z : a = b) /\ (c \in q'.inFlight <=> Z # {})
      BY <2>1, <3>1 DEF OneTurn
    <3> QED BY <1>1, <3>1, <3>2
  <2> QED BY <2>1 DEF OneTurn
<1>3. OneThreadPerTurn'
  BY DEF OneThreadPerTurn, SameTurns, BatchEvents
<1> QED BY <1>2, <1>3

\* The results that wait, when one more turn returns and when one is handled.
LEMMA ResultQueue ==
  ASSUME NEW s \in Seq(Agents), Distinct(s)
  PROVE  /\ \A a \in Agents : a \notin Elems(s) =>
               /\ Append(s, a) \in Seq(Agents) /\ Distinct(Append(s, a)) /\ Elems(Append(s, a)) = Elems(s) \cup {a}
         /\ s # <<>> => /\ Head(s) \in Elems(s) /\ Tail(s) \in Seq(Agents) /\ Distinct(Tail(s))
                        /\ Elems(Tail(s)) = Elems(s) \ {Head(s)}
<1>1. Len(s) \in Nat /\ DOMAIN s = 1..Len(s) /\ \A i \in 1..Len(s) : s[i] \in Agents
  OBVIOUS
<1>2. ASSUME NEW a \in Agents, a \notin Elems(s)
      PROVE  Append(s, a) \in Seq(Agents) /\ Distinct(Append(s, a)) /\ Elems(Append(s, a)) = Elems(s) \cup {a}
  <2>1. PICK t : t = Append(s, a)
    OBVIOUS
  <2>2. /\ t \in Seq(Agents) /\ Len(t) = Len(s) + 1 /\ t[Len(s) + 1] = a /\ DOMAIN t = 1..(Len(s) + 1)
        /\ \A i \in 1..Len(s) : t[i] = s[i]
    BY <1>1, <2>1
  <2>3. \A i \in DOMAIN t : i \in 1..Len(s) \/ i = Len(s) + 1
    BY <1>1, <2>2
  <2>4. \A i \in 1..Len(s) : i \in DOMAIN t
    BY <1>1, <2>2
  <2>5. Len(s) + 1 \in DOMAIN t
    BY <1>1, <2>2
  <2>6. Elems(t) = Elems(s) \cup {a}
    BY <1>1, <2>2, <2>3, <2>4, <2>5 DEF Elems
  <2>7. Distinct(t)
    BY <1>1, <1>2, <2>2, <2>3 DEF Distinct, Elems
  <2> QED BY <2>1, <2>2, <2>6, <2>7
<1>3. ASSUME s # <<>>
      PROVE  Head(s) \in Elems(s) /\ Tail(s) \in Seq(Agents) /\ Distinct(Tail(s)) /\ Elems(Tail(s)) = Elems(s) \ {Head(s)}
  <2>1. PICK t : t = Tail(s)
    OBVIOUS
  <2>2. Len(s) >= 1 /\ Head(s) = s[1] /\ 1 \in DOMAIN s
    BY <1>1, <1>3
  <2>3. t \in Seq(Agents) /\ DOMAIN t = 1..(Len(s) - 1) /\ \A i \in 1..(Len(s) - 1) : t[i] = s[i + 1]
    BY <1>1, <1>3, <2>1, <2>2
  <2>4. \A i \in DOMAIN t : i + 1 \in DOMAIN s /\ i + 1 # 1 /\ i \in Nat
    BY <1>1, <2>2, <2>3
  <2>5. \A i \in DOMAIN s : i # 1 => \E j \in DOMAIN t : i = j + 1
    <3> SUFFICES ASSUME NEW i \in DOMAIN s, i # 1 PROVE \E j \in DOMAIN t : i = j + 1
      OBVIOUS
    <3>1. i - 1 \in DOMAIN t /\ i = (i - 1) + 1
      BY <1>1, <2>2, <2>3
    <3> QED BY <3>1
  <2>6. \A i \in DOMAIN t : t[i] = s[i + 1]
    BY <2>3
  <2>7. Distinct(t)
    <3> SUFFICES ASSUME NEW i \in DOMAIN t, NEW j \in DOMAIN t, t[i] = t[j] PROVE i = j
      BY DEF Distinct
    <3>1. i + 1 = j + 1
      BY <2>4, <2>6 DEF Distinct
    <3> QED BY <2>4, <3>1
  <2>8. Elems(t) = Elems(s) \ {s[1]}
    <3>1. ASSUME NEW x \in Elems(t) PROVE x \in Elems(s) \ {s[1]}
      <4>1. PICK i \in DOMAIN t : x = t[i]
        BY DEF Elems
      <4>2. x = s[i + 1] /\ i + 1 \in DOMAIN s /\ i + 1 # 1
        BY <2>4, <2>6, <4>1
      <4> QED BY <2>2, <4>2 DEF Elems, Distinct
    <3>2. ASSUME NEW x \in Elems(s) \ {s[1]} PROVE x \in Elems(t)
      <4>1. PICK i \in DOMAIN s : x = s[i]
        BY DEF Elems
      <4>2. PICK j \in DOMAIN t : i = j + 1
        BY <2>5, <3>2, <4>1
      <4> QED BY <2>6, <4>1, <4>2 DEF Elems
    <3> QED BY <3>1, <3>2
  <2>9. s[1] \in Elems(s)
    BY <2>2 DEF Elems
  <2> QED BY <2>1, <2>2, <2>3, <2>7, <2>8, <2>9
<1> QED BY <1>2, <1>3

-----------------------------------------------------------------------------
(* run_prompt_task *)

Acks == [channel : Channels, event : Events, ack : {"success", "release", "fallback"}]

\* The requests a turn leaves unanswered are those of its channel.
LEMMA UnansweredType ==
  ASSUME TypeOK, TurnShape, NEW a \in Busy
  PROVE  /\ Unanswered(task[a]) \subseteq Acks
         /\ task[a].steers # <<>> => task[a].channel \in Channels
<1>1. task[a] \in Turns /\ task[a].channel \in Channels \cup {"heartbeat"} /\ task[a].steers \in Seq(Events)
  BY TurnTypes DEF Turns
<1>2. task[a].steers # <<>> => task[a].channel \in Channels
  BY <1>1 DEF TurnShape
<1>3. ASSUME NEW k \in Unanswered(task[a]) PROVE k \in Acks
  <2>1. PICK i \in DOMAIN task[a].steers : k = [channel |-> task[a].channel, event |-> task[a].steers[i], ack |-> "release"]
    BY DEF Unanswered
  <2>2. task[a].steers # <<>> /\ task[a].steers[i] \in Events
    BY <1>1
  <2> QED BY <1>2, <2>1, <2>2 DEF Acks
<1> QED BY <1>2, <1>3

\* A step of the turn of slot a that changes its phase, its outcome or its
\* steers, and answers requests.
TurnStep(a, t) ==
  /\ task' = [task EXCEPT ![a] = t]
  /\ t \in Turns /\ t.channel = task[a].channel /\ t.batch = task[a].batch /\ t.isolated = task[a].isolated
  /\ t.channel = "heartbeat" => t.steers = <<>>
  /\ acks' \in SUBSET Acks
  /\ faults' \in 0..config.faults
  /\ \/ results' = results
     \/ results' = Append(results, a) /\ t.phase = "returned"
  /\ UNCHANGED <<config, q, received, idle, respawning, crashes, circuit, leases, removed,
                 loop, pool, controls, fate, overran>>

\* Such steps keep the invariant.
LEMMA TurnSteps ==
  ASSUME IInv, NEW a \in Running, NEW t, TurnStep(a, t)
  PROVE  IInv' /\ LossStep
<1> USE DEF IInv, Steady
<1>1. a \in Busy /\ task[a].phase = "running" /\ a \in Agents
  BY DEF Running, Busy
<1>2. /\ SameTurns /\ task' \in [Agents -> Turns \cup {NoTask}]
      /\ task'[a] = t /\ \A b \in Agents : b # a => task'[b] = task[b]
  BY <1>1, TurnEdited DEF TurnStep
<1>3. Busy' = Busy
  BY <1>2 DEF SameTurns
<1>4. Accounts' /\ LossStep
  <2>1. Leaves(q, q')
    BY DEF TurnStep, Leaves, TypeOK, Queues
  <2> QED BY <1>2, <2>1, Still DEF TurnStep
<1>5. a \notin Elems(results)
  BY <1>1 DEF ResultsReady
<1>6. results' \in Seq(Agents) /\ Distinct(results') /\ Elems(results') \subseteq Elems(results) \cup {a}
      /\ (a \in Elems(results') => t.phase = "returned")
  <2>1. results \in Seq(Agents) /\ Distinct(results)
    BY DEF TypeOK, ResultsReady
  <2> QED BY <1>1, <1>5, <2>1, ResultQueue DEF TurnStep
<1>7. TypeOK'
  BY <1>2, <1>4, <1>6 DEF TurnStep, TypeOK, Accounts, Acks
<1>8. SlotHeldOnce'
  BY <1>3 DEF SlotHeldOnce, TurnStep
<1>9. TurnShape'
  BY <1>1, <1>2, <1>3 DEF TurnShape, TurnStep, Busy
<1>10. ResultsReady'
  <2>1. \A b \in Elems(results') : b \in Busy' /\ task'[b].phase = "returned"
    BY <1>1, <1>2, <1>3, <1>6 DEF ResultsReady, Busy
  <2> QED BY <1>6, <2>1 DEF ResultsReady, Distinct, Elems
<1>11. CircuitCounts' /\ PoolAsleep'
  BY <1>1, <1>3 DEF CircuitCounts, PoolAsleep, TurnStep
<1>12. OneTurn' /\ OneThreadPerTurn'
  BY <1>2, SameService DEF TurnStep, TypeOK
<1>13. OneLease'
  BY <1>2, LeaseKept DEF TurnStep, SameTurns
<1> QED BY <1>4, <1>7, <1>8, <1>9, <1>10, <1>11, <1>12, <1>13 DEF Accounts

\* Steps of a turn.
LEMMA TaskKeeps ==
  ASSUME IInv, NEW a \in Agents, TaskStep(a)
  PROVE  IInv' /\ LossStep
<1> DEFINE Outcomes == Failures \cup {"ok", "cancelled", "drain"}
<1>1. TypeOK /\ TurnShape
  BY DEF IInv, Steady
<1>2. config.faults \in Nat /\ faults \in 0..config.faults /\ acks \subseteq Acks
  BY <1>1, HarnessAssumption DEF TypeOK, Acks
<1>3. faults \in 0..config.faults /\ (faults < config.faults => faults + 1 \in 0..config.faults)
  BY <1>2
<1>4. \A b \in Running : /\ b \in Busy /\ task[b] \in Turns /\ Unanswered(task[b]) \subseteq Acks
                         /\ task[b].steers # <<>> => task[b].channel \in Channels
                         /\ task[b].steers \in Seq(Events)
                         /\ task[b].channel = "heartbeat" => task[b].steers = <<>>
  <2>1. \A b \in Busy : task[b] \in Turns /\ task[b].steers \in Seq(Events)
    BY <1>1, TurnTypes DEF Turns
  <2>2. \A b \in Running : b \in Busy
    BY DEF Running
  <2> QED BY <1>1, <2>1, <2>2, UnansweredType DEF TurnShape
<1>5. ASSUME NEW o \in Outcomes, NEW r \in BOOLEAN, Return(a, o, r), a \in Running, faults' \in 0..config.faults
      PROVE  IInv' /\ LossStep
  <2>1. PICK t : t = [task[a] EXCEPT !.phase = "returned", !.outcome = o, !.returned = r, !.steers = <<>>]
    OBVIOUS
  <2>2. /\ t \in Turns /\ t.channel = task[a].channel /\ t.batch = task[a].batch /\ t.isolated = task[a].isolated
        /\ t.steers = <<>> /\ t.phase = "returned"
    <3>0. <<>> \in Seq(Events)
      OBVIOUS
    <3>1. PICK s \in Seq(Events) : s = <<>>
      BY <3>0
    <3>2. task[a] \in Turns /\ t = [task[a] EXCEPT !.phase = "returned", !.outcome = o, !.returned = r, !.steers = s]
      BY <1>4, <1>5, <2>1, <3>1
    <3>3. /\ t \in Turns /\ t.channel = task[a].channel /\ t.batch = task[a].batch /\ t.isolated = task[a].isolated
          /\ t.steers = s /\ t.phase = "returned"
      BY <3>1, <3>2 DEF Turns
    <3> QED BY <3>1, <3>3
  <2>3. task' = [task EXCEPT ![a] = t]
    BY <1>5, <2>1 DEF Return
  <2>4. acks' \in SUBSET Acks
    BY <1>2, <1>4, <1>5 DEF Return
  <2>5. TurnStep(a, t)
    BY <1>5, <2>2, <2>3, <2>4 DEF TurnStep, Return
  <2> QED BY <1>5, <2>5, TurnSteps
<1>6. CASE TurnEnds(a)
  BY <1>3, <1>5, <1>6 DEF TurnEnds
<1>7. ASSUME NEW o \in Failures, TurnFails(a, o) PROVE IInv' /\ LossStep
  <2>1. o \in Outcomes /\ a \in Running /\ faults' \in 0..config.faults
    BY <1>3, <1>7 DEF TurnFails
  <2>2. PICK r \in BOOLEAN : Return(a, o, r)
    BY <1>7 DEF TurnFails
  <2> QED BY <1>5, <2>1, <2>2
<1>8. ASSUME NEW o \in {"ok", "cancelled", "drain", "died", "app"}, TurnSignalled(a, o) PROVE IInv' /\ LossStep
  <2>1. o \in Outcomes /\ a \in Running /\ faults' \in 0..config.faults
    BY <1>3, <1>8 DEF TurnSignalled, Failures
  <2>2. PICK r \in BOOLEAN : Return(a, o, r)
    BY <1>8 DEF TurnSignalled
  <2> QED BY <1>5, <2>1, <2>2
<1>9. CASE TurnPanics(a)
  <2>1. a \in Running /\ faults' \in 0..config.faults
    BY <1>3, <1>9 DEF TurnPanics
  <2>2. PICK t : t = [task[a] EXCEPT !.phase = "panicked", !.steers = <<>>]
    OBVIOUS
  <2>3. /\ t \in Turns /\ t.channel = task[a].channel /\ t.batch = task[a].batch /\ t.isolated = task[a].isolated
        /\ t.steers = <<>>
    <3>0. <<>> \in Seq(Events)
      OBVIOUS
    <3>1. PICK s \in Seq(Events) : s = <<>>
      BY <3>0
    <3>2. task[a] \in Turns /\ t = [task[a] EXCEPT !.phase = "panicked", !.steers = s]
      BY <1>4, <2>1, <2>2, <3>1
    <3>3. /\ t \in Turns /\ t.channel = task[a].channel /\ t.batch = task[a].batch /\ t.isolated = task[a].isolated
          /\ t.steers = s
      BY <3>1, <3>2 DEF Turns
    <3> QED BY <3>1, <3>3
  <2>4. task' = [task EXCEPT ![a] = t] /\ acks' \in SUBSET Acks
    BY <1>2, <1>4, <1>9, <2>1, <2>2 DEF TurnPanics
  <2>5. TurnStep(a, t)
    BY <1>9, <2>1, <2>3, <2>4 DEF TurnStep, TurnPanics
  <2> QED BY <2>1, <2>5, TurnSteps
<1>10. ASSUME NEW k \in {"success", "release", "fallback"}, AnswerSteer(a, k) PROVE IInv' /\ LossStep
  <2>1. a \in Running /\ task[a].steers # <<>> /\ faults' \in 0..config.faults
    BY <1>3, <1>10 DEF AnswerSteer
  <2>2. PICK t, s : s = Tail(task[a].steers) /\ t = [task[a] EXCEPT !.steers = s]
    OBVIOUS
  <2>3. s \in Seq(Events) /\ Head(task[a].steers) \in Events /\ task[a].channel \in Channels
    BY <1>4, <2>1, <2>2
  <2>4. /\ t \in Turns /\ t.channel = task[a].channel /\ t.batch = task[a].batch /\ t.isolated = task[a].isolated
    BY <1>4, <2>1, <2>2, <2>3 DEF Turns
  <2>5. task' = [task EXCEPT ![a] = t]
    BY <1>10, <2>2 DEF AnswerSteer
  <2>6. acks' \in SUBSET Acks
    BY <1>2, <1>10, <2>3 DEF AnswerSteer, Acks
  <2>7. task[a].channel # "heartbeat"
    BY <1>4, <2>1
  <2>8. TurnStep(a, t)
    BY <1>10, <2>1, <2>4, <2>5, <2>6, <2>7 DEF TurnStep, AnswerSteer
  <2> QED BY <2>1, <2>8, TurnSteps
<1> QED BY <1>6, <1>7, <1>8, <1>9, <1>10 DEF TaskStep

-----------------------------------------------------------------------------
(* Steps that move no event *)

SlotTypes ==
  /\ idle \subseteq Agents /\ respawning \subseteq Agents
  /\ crashes \in [Agents -> 0..Threshold]
  /\ circuit \in [Agents -> {"unset", "future", "passed"}]
  /\ removed \subseteq Channels
  /\ loop \in {"select", "drain", "dispatch", "exited"}
  /\ pool \in {"listening", "waking", "failed", "due", "ready"}
  /\ faults \in 0..config.faults /\ controls \in 0..config.controls

\* The parts of the invariant about slots.
Slots == SlotTypes /\ SlotHeldOnce /\ CircuitCounts /\ PoolAsleep

LeasesKept ==
  /\ leases' \subseteq leases
  /\ \A a \in Busy' : task[a].channel \in leases => task[a].channel \in leases'

\* The turns, the events and the results stay as they are.
Calm ==
  /\ SameTurns /\ task' \in [Agents -> Turns \cup {NoTask}]
  /\ \A a \in Busy : task'[a].phase = task[a].phase /\ task'[a].steers = task[a].steers
  /\ Leaves(q, q') /\ q'.inFlight = q.inFlight
  /\ UNCHANGED <<config, received, results, acks, fate, overran>>
  /\ LeasesKept

\* A step that keeps the turns and the events, and the slots right.
LEMMA CalmKeeps ==
  ASSUME IInv, Calm, Slots'
  PROVE  IInv' /\ LossStep
<1> USE DEF IInv, Steady
<1>1. Accounts' /\ LossStep
  BY Still DEF Calm
<1>2. Busy' = Busy /\ Busy \subseteq Agents
  BY DEF Calm, SameTurns, Busy
<1>3. TypeOK'
  <2>1. leases' \subseteq Channels
    BY DEF Calm, LeasesKept, TypeOK
  <2> QED BY <1>1, <2>1 DEF TypeOK, Accounts, Calm, Slots, SlotTypes
<1>4. TurnShape'
  BY <1>2 DEF TurnShape, Calm, SameTurns
<1>5. ResultsReady'
  BY <1>2 DEF ResultsReady, Calm, Elems, Distinct
<1>6. OneTurn' /\ OneThreadPerTurn'
  BY SameService DEF Calm, TypeOK
<1>7. OneLease'
  BY <1>2, LeaseKept DEF Calm, SameTurns, LeasesKept
<1> QED BY <1>1, <1>3, <1>4, <1>5, <1>6, <1>7 DEF Accounts, Slots

\* A step that leaves the queue, the turns and the leases alone.
LEMMA CalmBecause ==
  ASSUME TypeOK, UNCHANGED <<config, q, received, task, results, acks, fate, overran>>, LeasesKept
  PROVE  Calm
<1>1. SameTurns /\ task' \in [Agents -> Turns \cup {NoTask}]
  BY DEF SameTurns, Busy, TypeOK
<1>2. Leaves(q, q') /\ q'.inFlight = q.inFlight
  BY DEF Leaves, TypeOK, Queues
<1> QED BY <1>1, <1>2 DEF Calm

\* BeginDispatch keeps the leases of the turns.
LEMMA BeginCalm ==
  ASSUME TypeOK, BeginDispatch(leases, faults), config' = config, SameTurns
  PROVE  LeasesKept /\ loop' = "dispatch" /\ faults' \in 0..config.faults
<1>1. Busy' = Busy /\ Busy \subseteq Agents
  BY DEF SameTurns, Busy
<1>2. /\ loop' = "dispatch" /\ faults' \in 0..config.faults /\ leases' \subseteq leases
      /\ \A a \in Agents : task'[a].channel \in leases => task'[a].channel \in leases'
  BY BeginKeeps
<1> QED BY <1>1, <1>2 DEF LeasesKept, SameTurns

\* Instants pass.
LEMMA ClockKeeps ==
  ASSUME IInv, Clock
  PROVE  IInv' /\ LossStep
<1>1. TypeOK /\ Slots /\ config.faults \in Nat /\ config.controls \in Nat /\ Threshold \in Nat \ {0}
  BY HarnessAssumption DEF IInv, Steady, Slots, SlotTypes, TypeOK
<1>2. ASSUME UNCHANGED task PROVE Busy' = Busy /\ SameTurns /\ task' \in [Agents -> Turns \cup {NoTask}]
  BY <1>1, <1>2 DEF SameTurns, Busy, TypeOK
<1>3. ASSUME UNCHANGED leases PROVE LeasesKept
  BY <1>3 DEF LeasesKept
<1>4. CASE WakeDelayElapses
  <2>1. Calm
    BY <1>1, <1>3, <1>4, CalmBecause DEF WakeDelayElapses, slotVars
  <2>2. Slots'
    BY <1>1, <1>4 DEF WakeDelayElapses, slotVars, Slots, SlotTypes, SlotHeldOnce, CircuitCounts, PoolAsleep, Busy
  <2> QED BY <2>1, <2>2, CalmKeeps
<1>5. ASSUME NEW a \in Agents, CooldownElapses(a) PROVE IInv' /\ LossStep
  <2>1. Calm
    BY <1>1, <1>3, <1>5, CalmBecause DEF CooldownElapses
  <2>2. Slots'
    BY <1>1, <1>5 DEF CooldownElapses, Slots, SlotTypes, SlotHeldOnce, CircuitCounts, PoolAsleep, Busy
  <2> QED BY <2>1, <2>2, CalmKeeps
<1>6. ASSUME NEW a \in Agents, WindowElapses(a) PROVE IInv' /\ LossStep
  <2>1. Calm
    BY <1>1, <1>3, <1>6, CalmBecause DEF WindowElapses
  <2>2. Slots'
    <3>1. crashes' \in [Agents -> 0..Threshold] /\ \A b \in Agents : crashes'[b] <= crashes[b]
      <4>1. crashes[a] \in 0..Threshold
        BY <1>1 DEF TypeOK
      <4>2. PICK n \in 0..(crashes[a] - 1) : crashes' = [crashes EXCEPT ![a] = n]
        BY <1>6 DEF WindowElapses
      <4>3. n \in 0..Threshold /\ n <= crashes[a]
        BY <1>1, <4>1
      <4> QED BY <1>1, <4>2, <4>3 DEF TypeOK
    <3>2. CircuitCounts'
      <4> SUFFICES ASSUME NEW b \in Agents, circuit'[b] = "unset" PROVE crashes'[b] < Threshold
        BY DEF CircuitCounts
      <4>1. crashes[b] < Threshold /\ crashes[b] \in 0..Threshold /\ crashes'[b] \in 0..Threshold /\ crashes'[b] <= crashes[b]
        BY <1>1, <1>6, <3>1 DEF CircuitCounts, WindowElapses, Slots, SlotTypes
      <4> QED BY <1>1, <4>1
    <3> QED BY <1>1, <1>6, <3>1, <3>2 DEF WindowElapses, Slots, SlotTypes, SlotHeldOnce, PoolAsleep, Busy
  <2> QED BY <2>1, <2>2, CalmKeeps
<1>7. ASSUME UNCHANGED <<config, slotVars, removed, loop, pool, faults, controls, acks>> PROVE Slots'
  BY <1>1, <1>7 DEF slotVars, Slots, SlotTypes, SlotHeldOnce, CircuitCounts, PoolAsleep, Busy
<1>8. ASSUME NEW c \in Channels, Elapse(c) PROVE IInv' /\ LossStep
  <2>1. Leaves(q, q') /\ q'.inFlight = q.inFlight
    <3>1. PICK T, P : T \in SUBSET Channels /\ P \in SUBSET Channels /\ q' = [q EXCEPT !.throttled = T, !.paused = P]
      <4>1. q.throttled \in SUBSET Channels /\ q.paused \in SUBSET Channels
        BY <1>1 DEF TypeOK, Queues
      <4>2. CASE q' = [q EXCEPT !.throttled = @ \ {c}]
        <5>1. q' = [q EXCEPT !.throttled = q.throttled \ {c}, !.paused = q.paused]
          BY <1>1, <4>2 DEF TypeOK, Queues
        <5> QED BY <4>1, <5>1
      <4>3. CASE q' = [q EXCEPT !.paused = @ \ {c}]
        <5>1. q' = [q EXCEPT !.throttled = q.throttled, !.paused = q.paused \ {c}]
          BY <1>1, <4>3 DEF TypeOK, Queues
        <5> QED BY <4>1, <5>1
      <4> QED BY <1>8, <4>2, <4>3 DEF Elapse
    <3>2. q \in Queues
      BY <1>1 DEF TypeOK
    <3> QED BY <3>1, <3>2 DEF Leaves, Queues
  <2>2. Calm
    BY <1>2, <1>3, <1>8, <2>1 DEF Calm, Elapse, slotVars
  <2>3. Slots'
    BY <1>7, <1>8 DEF Elapse
  <2> QED BY <2>2, <2>3, CalmKeeps
<1>9. ASSUME NEW c \in Channels, DeadlinePasses(c) PROVE IInv' /\ LossStep
  <2>1. Leaves(q, q') /\ q'.inFlight = q.inFlight
    <3>1. q \in Queues /\ q' = [q EXCEPT !.overdue = q.overdue \cup {c}] /\ q.overdue \cup {c} \in SUBSET Channels
      BY <1>1, <1>9 DEF DeadlinePasses, TypeOK, Queues
    <3> QED BY <3>1 DEF Leaves, Queues
  <2>2. Calm
    BY <1>2, <1>3, <1>9, <2>1 DEF Calm, DeadlinePasses, slotVars
  <2>3. Slots'
    BY <1>7, <1>9 DEF DeadlinePasses
  <2> QED BY <2>2, <2>3, CalmKeeps
<1> QED BY <1>4, <1>5, <1>6, <1>8, <1>9 DEF Clock

\* Respawned agents, the lazy pool, and the end of the drain.
LEMMA PoolKeeps ==
  ASSUME IInv,
         \/ DrainDone \/ WakeStart \/ WakeDone \/ WakeFailed
         \/ \E a \in Agents : RespawnOk(a) \/ RespawnFailed(a)
  PROVE  IInv' /\ LossStep
<1>1. TypeOK /\ Slots /\ config.faults \in Nat /\ faults \in 0..config.faults /\ config.agents \subseteq Agents
  BY HarnessAssumption DEF IInv, Steady, Slots, SlotTypes, TypeOK
<1>2. ASSUME UNCHANGED task PROVE Busy' = Busy /\ SameTurns
  BY <1>1, <1>2 DEF SameTurns, Busy, TypeOK
<1>3. ASSUME UNCHANGED leases PROVE LeasesKept
  BY <1>3 DEF LeasesKept
<1>4. ASSUME UNCHANGED <<config, task>>, BeginDispatch(leases, faults)
      PROVE  LeasesKept /\ loop' = "dispatch" /\ faults' \in 0..config.faults
  BY <1>1, <1>2, <1>4, BeginCalm
<1>5. faults < config.faults => faults + 1 \in 0..config.faults
  BY <1>1
<1> USE DEF Slots, SlotTypes, SlotHeldOnce, CircuitCounts, PoolAsleep
<1>6. CASE DrainDone
  <2>1. UNCHANGED <<config, task>> /\ LeasesKept /\ loop' = "dispatch" /\ faults' \in 0..config.faults /\ Busy' = Busy
    BY <1>2, <1>4, <1>6 DEF DrainDone, slotVars
  <2>2. Calm
    BY <1>1, <1>6, <2>1, CalmBecause DEF DrainDone, slotVars
  <2>3. Slots'
    BY <1>1, <1>6, <2>1 DEF DrainDone, slotVars
  <2> QED BY <2>2, <2>3, CalmKeeps
<1>7. CASE WakeStart
  <2>1. Calm
    BY <1>1, <1>3, <1>7, CalmBecause DEF WakeStart, slotVars
  <2>2. Slots'
    BY <1>1, <1>2, <1>7 DEF WakeStart, slotVars
  <2> QED BY <2>1, <2>2, CalmKeeps
<1>8. CASE WakeDone
  <2>1. UNCHANGED <<config, task>> /\ LeasesKept /\ loop' = "dispatch" /\ faults' \in 0..config.faults /\ Busy' = Busy
    BY <1>2, <1>4, <1>8 DEF WakeDone
  <2>2. Calm
    BY <1>1, <1>8, <2>1, CalmBecause DEF WakeDone
  <2>3. pool = "waking" /\ Busy = {} /\ respawning = {} /\ (\A a \in Agents : circuit[a] # "future") /\ idle' \subseteq Agents
    BY <1>1, <1>8 DEF WakeDone
  <2>4. Slots'
    BY <1>1, <1>8, <2>1, <2>3 DEF WakeDone
  <2> QED BY <2>2, <2>4, CalmKeeps
<1>9. CASE WakeFailed
  <2>1. Calm
    BY <1>1, <1>3, <1>9, CalmBecause DEF WakeFailed, slotVars
  <2>2. Slots'
    BY <1>1, <1>2, <1>5, <1>9 DEF WakeFailed, slotVars
  <2> QED BY <2>1, <2>2, CalmKeeps
<1>10. ASSUME NEW a \in Agents, RespawnOk(a) PROVE IInv' /\ LossStep
  <2>1. UNCHANGED <<config, task>> /\ LeasesKept /\ loop' = "dispatch" /\ faults' \in 0..config.faults /\ Busy' = Busy
    BY <1>2, <1>4, <1>10 DEF RespawnOk
  <2>2. Calm
    BY <1>1, <1>10, <2>1, CalmBecause DEF RespawnOk
  <2>3. Slots'
    BY <1>1, <1>10, <2>1 DEF RespawnOk
  <2> QED BY <2>2, <2>3, CalmKeeps
<1>11. ASSUME NEW a \in Agents, RespawnFailed(a) PROVE IInv' /\ LossStep
  <2>1. Calm
    BY <1>1, <1>3, <1>11, CalmBecause DEF RespawnFailed
  <2>2. Busy' = Busy /\ circuit' \in [Agents -> {"unset", "future", "passed"}]
        /\ circuit'[a] = "future" /\ \A b \in Agents : b # a => circuit'[b] = circuit[b]
    BY <1>1, <1>2, <1>11 DEF RespawnFailed
  <2>3. Slots'
    BY <1>1, <1>5, <1>11, <2>2 DEF RespawnFailed
  <2> QED BY <2>1, <2>3, CalmKeeps
<1> QED BY <1>6, <1>7, <1>8, <1>9, <1>10, <1>11

\* Controls, the end of the loop, and a membership that is back.
LEMMA InputKeeps ==
  ASSUME IInv,
         \/ \E c \in Channels, s \in {"stop", "requeue"} : Control(c, s)
         \/ \E c \in Channels : AddMember(c)
         \/ Shutdown \/ Reap
  PROVE  IInv' /\ LossStep
<1>1. TypeOK /\ Slots /\ config.controls \in Nat /\ controls \in 0..config.controls
  BY HarnessAssumption DEF IInv, Steady, Slots, SlotTypes, TypeOK
<1>2. ASSUME UNCHANGED task PROVE Busy' = Busy /\ SameTurns
  BY <1>1, <1>2 DEF SameTurns, Busy, TypeOK
<1>3. ASSUME UNCHANGED leases PROVE LeasesKept
  BY <1>3 DEF LeasesKept
<1>4. controls < config.controls => controls + 1 \in 0..config.controls
  BY <1>1
<1> USE DEF Slots, SlotTypes, SlotHeldOnce, CircuitCounts, PoolAsleep
<1>5. ASSUME NEW c \in Channels, NEW s \in {"stop", "requeue"}, Control(c, s) PROVE IInv' /\ LossStep
  <2>1. /\ SameTurns /\ task' \in [Agents -> Turns \cup {NoTask}]
        /\ \A a \in Busy : task'[a].phase = task[a].phase /\ task'[a].steers = task[a].steers
    BY <1>1, <1>5, SignalTurns DEF Control
  <2>2. Leaves(q, q') /\ q'.inFlight = q.inFlight
    BY <1>1, <1>5 DEF Control, Leaves, TypeOK, Queues
  <2>3. Calm
    BY <1>3, <1>5, <2>1, <2>2 DEF Control, Calm
  <2>4. Slots'
    BY <1>1, <1>4, <1>5, <2>1 DEF Control, SameTurns
  <2> QED BY <2>3, <2>4, CalmKeeps
<1>6. ASSUME NEW c \in Channels, AddMember(c) PROVE IInv' /\ LossStep
  <2>1. Calm
    BY <1>1, <1>3, <1>6, CalmBecause DEF AddMember, slotVars
  <2>2. Slots'
    BY <1>1, <1>2, <1>6 DEF AddMember, slotVars
  <2> QED BY <2>1, <2>2, CalmKeeps
<1>7. CASE Shutdown
  <2>1. Calm
    BY <1>1, <1>3, <1>7, CalmBecause DEF Shutdown, slotVars
  <2>2. Slots'
    BY <1>1, <1>2, <1>4, <1>7 DEF Shutdown, slotVars
  <2> QED BY <2>1, <2>2, CalmKeeps
<1>8. CASE Reap
  <2>1. Calm
    BY <1>1, <1>3, <1>8, CalmBecause DEF Reap, slotVars
  <2>2. Slots'
    BY <1>1, <1>2, <1>8 DEF Reap, slotVars
  <2> QED BY <2>1, <2>2, CalmKeeps
<1> QED BY <1>5, <1>6, <1>7, <1>8

-----------------------------------------------------------------------------
(* Steps of the queue *)

\* A step that keeps the turns: what remains to be shown.
LEMMA Upholds ==
  ASSUME IInv, SameTurns, task' \in [Agents -> Turns \cup {NoTask}], TurnShape',
         \A a \in Busy : task'[a].phase = task[a].phase,
         config' = config, received' \in Events \cup {0}, results' = results, acks' \in SUBSET Acks,
         overran \subseteq overran', overran' \subseteq Channels,
         \A c \in Channels \ overran' : c \in q'.inFlight <=> c \in q.inFlight,
         leases' \subseteq Channels, OneLease', Accounts', Slots'
  PROVE  IInv'
<1> USE DEF IInv, Steady
<1>1. Busy' = Busy /\ Busy \subseteq Agents
  BY DEF SameTurns, Busy
<1>2. TypeOK'
  BY DEF TypeOK, Accounts, Slots, SlotTypes, Acks
<1>3. ResultsReady'
  BY <1>1 DEF ResultsReady, Elems, Distinct
<1>4. OneTurn' /\ OneThreadPerTurn'
  BY SameService
<1> QED BY <1>2, <1>3, <1>4 DEF Accounts, Slots

\* The same, of a step that finishes leases of no turn.
LEMMA Keeps ==
  ASSUME IInv, SameTurns, task' \in [Agents -> Turns \cup {NoTask}], TurnShape',
         \A a \in Busy : task'[a].phase = task[a].phase,
         config' = config, received' \in Events \cup {0}, results' = results, acks' \in SUBSET Acks,
         overran \subseteq overran', overran' \subseteq Channels,
         \A c \in Channels \ overran' : c \in q'.inFlight <=> c \in q.inFlight,
         LeasesKept, Accounts', Slots'
  PROVE  IInv'
<1>1. Busy' = Busy /\ OneLease /\ TypeOK
  BY DEF SameTurns, IInv, Steady
<1>2. leases' \subseteq Channels
  BY <1>1 DEF LeasesKept, TypeOK
<1>3. OneLease'
  BY <1>1, LeaseKept DEF SameTurns, LeasesKept
<1> QED BY <1>2, <1>3, Upholds

\* What is held after a step.
LEMMA NextHeld ==
  /\ \A c \in Channels : HeldFor(q', c) \subseteq Held'
  /\ \A b \in Agents : Taken'[b] \subseteq Held'
  /\ \A e \in Held' : (\E c \in Channels : e \in HeldFor(q', c)) \/ (\E b \in Agents : e \in Taken'[b])
<1>1. (Held = Whole(Queued, Taken))'
  BY HeldWhole, PTL
<1>2. PICK G, D : G = Queued' /\ D = Taken'
  OBVIOUS
<1>3. Held' = Whole(G, D)
  BY <1>1, <1>2 DEF Whole
<1>4. \A e : e \in Held' <=> (\E c \in Channels : e \in G[c]) \/ (\E a \in Agents : e \in D[a])
  BY <1>3, InWhole
<1>5. \A c \in Channels : G[c] = HeldFor(q', c)
  BY <1>2, NextHolds
<1> QED BY <1>2, <1>4, <1>5

\* Events leave at the cap when each channel keeps its events or is beyond it.
LEMMA CapReached ==
  ASSUME TypeOK, Ledger, TurnShape, NEW S,
         \A c \in Channels : \/ HeldFor(q, c) \ S \subseteq Held'
                             \/ Cardinality(Load(c)) + (received' - received) > MaxPending,
         \A a \in Busy : \/ BatchEvents(task[a].batch) \ S \subseteq Held'
                         \/ \A c \in Channels : a \in TurnsOn(c) => Cardinality(Load(c)) + (received' - received) > MaxPending
  PROVE  AtCap(S)
<1> SUFFICES ASSUME NEW e \in Held \ Held', e \notin S
             PROVE  \E c \in Channels : e \in Load(c) /\ Cardinality(Load(c)) + (received' - received) > MaxPending
  BY DEF AtCap
<1>1. CASE \E c \in Channels : e \in HeldFor(q, c)
  <2>1. PICK c \in Channels : e \in HeldFor(q, c)
    BY <1>1
  <2>2. e \in Load(c)
    BY <2>1, LoadHeld
  <2> QED BY <2>1, <2>2
<1>2. CASE \E a \in Busy : task[a].channel \in Channels /\ a \in TurnsOn(task[a].channel) /\ e \in BatchEvents(task[a].batch)
  <2>1. PICK a \in Busy : task[a].channel \in Channels /\ a \in TurnsOn(task[a].channel) /\ e \in BatchEvents(task[a].batch)
    BY <1>2
  <2>2. PICK c \in Channels : c = task[a].channel
    BY <2>1
  <2>3. e \in Load(c)
    BY <2>1, <2>2, LoadHeld
  <2> QED BY <2>1, <2>2, <2>3
<1> QED BY <1>1, <1>2, HeldLoad

\* A channel that holds more than the cap.
LEMMA CapOf ==
  ASSUME TypeOK, Ledger, TurnShape, received' = received, NEW c \in Channels, NEW Y \in SUBSET Load(c),
         Cardinality(Y) > MaxPending
  PROVE  Cardinality(Load(c)) + (received' - received) > MaxPending
<1>1. IsFiniteSet(Load(c)) /\ Cardinality(Load(c)) \in Nat
  BY LoadHeld
<1>2. PICK X : X = Load(c)
  OBVIOUS
<1>3. Cardinality(X) > MaxPending
  BY <1>1, <1>2, Overfull
<1>4. received' - received = 0
  BY QueueAssumption DEF TypeOK
<1> QED BY <1>1, <1>2, <1>3, <1>4, QueueAssumption

\* The queue after the backstop.
Fresh(r) ==
  /\ r \in Queues /\ r.inFlight = q.inFlight \ q.overdue /\ r.overdue = {}
  /\ \A c \in Channels : Tidy(r, c) /\ Fits(HeldFor(r, c), HeldFor(q, c))

\* The ways the loop refreshes the queue.
LEMMA Freshens ==
  ASSUME TypeOK, Apart
  PROVE  /\ Fresh(ExpireOverdue(q)) /\ Fresh(ExpireOverdue(compact_expired_state(q))) /\ Fresh(Refreshed)
         /\ config.parent => \A c \in Channels : Refreshed.cancelled[c] = <<>>
<1>1. q \in Queues /\ \A c \in Channels : Tidy(q, c)
  BY DEF TypeOK, Apart
<1>2. ASSUME NEW p \in Queues, p.inFlight = q.inFlight, p.overdue = q.overdue,
             \A c \in Channels : Tidy(p, c) /\ HeldFor(p, c) = HeldFor(q, c)
      PROVE  Fresh(ExpireOverdue(p)) /\ ExpireOverdue(p).cancelled = p.cancelled
  <2>1. PICK r : r = ExpireOverdue(p)
    OBVIOUS
  <2>2. /\ r \in Queues /\ r.inFlight = p.inFlight \ p.overdue /\ r.overdue = {} /\ r.cancelled = p.cancelled
        /\ \A c \in Channels : Tidy(r, c) /\ Fits(HeldFor(r, c), HeldFor(p, c))
    BY <1>2, <2>1, ExpireHolds
  <2>3. Fresh(r)
    BY <1>2, <2>2 DEF Fresh
  <2> QED BY <2>1, <2>2, <2>3
<1>3. Fresh(ExpireOverdue(q)) /\ ExpireOverdue(q).cancelled = q.cancelled
  BY <1>1, <1>2
<1>4. PICK p : p = compact_expired_state(q)
  OBVIOUS
<1>5. p \in Queues /\ p.inFlight = q.inFlight /\ p.overdue = q.overdue
      /\ \A c \in Channels : Tidy(p, c) /\ HeldFor(p, c) = HeldFor(q, c)
  <2>1. Channels = {} \/ (Leaves(q, p) /\ p.inFlight = q.inFlight /\ p.overdue = q.overdue)
    BY <1>1, <1>4, CompleteHolds
  <2>2. CASE Channels = {}
    <3>1. q.retries \in [Channels -> 0..MaxRetries]
      BY <1>1 DEF Queues
    <3>2. p = [q EXCEPT !.retries = [c \in Channels |-> 0]] /\ [c \in Channels |-> 0] \in [Channels -> 0..MaxRetries]
      BY <1>4, <2>2 DEF compact_expired_state
    <3> QED BY <1>1, <2>2, <3>2 DEF Queues
  <2>3. CASE Leaves(q, p) /\ p.inFlight = q.inFlight /\ p.overdue = q.overdue
    BY <1>1, <2>3, LeavesHolds DEF Leaves
  <2> QED BY <2>1, <2>2, <2>3
<1>6. PICK z : z = Reunite(q)
  OBVIOUS
<1>7. /\ z \in Queues /\ z.inFlight = q.inFlight /\ z.overdue = q.overdue
      /\ \A c \in Channels : Tidy(z, c) /\ HeldFor(z, c) = HeldFor(q, c) /\ z.cancelled[c] = <<>>
  BY <1>1, <1>6, ReuniteHolds
<1>8. Fresh(Refreshed) /\ (config.parent => \A c \in Channels : Refreshed.cancelled[c] = <<>>)
  <2>1. CASE config.parent
    <3>1. Refreshed = ExpireOverdue(z)
      BY <1>6, <2>1 DEF Refreshed
    <3>2. Fresh(ExpireOverdue(z)) /\ ExpireOverdue(z).cancelled = z.cancelled
      BY <1>2, <1>7
    <3> QED BY <1>7, <3>1, <3>2
  <2>2. CASE ~ config.parent
    BY <1>3, <2>2 DEF Refreshed
  <2> QED BY <2>1, <2>2
<1>9. Fresh(ExpireOverdue(p))
  BY <1>2, <1>5
<1> QED BY <1>3, <1>4, <1>8, <1>9

\* A step that refreshes the queue and keeps the batches.
LEMMA FreshAccounts ==
  ASSUME IInv, Fresh(q'), \A b \in Agents : Taken'[b] = Taken[b], \A b \in Busy' : TidyBatch(task'[b].batch),
         received' = received, Settle({}, "none")
  PROVE  Accounts' /\ LossStep
<1> USE DEF IInv, Steady
<1>1. q' \in Queues /\ \A d \in Channels : Tidy(q', d)
  BY DEF Fresh
<1>2. \A d \in Channels : HeldFor(q', d) \subseteq HeldFor(q, d) /\ Fits(HeldFor(q', d), HeldFor(q, d))
  BY DEF Fresh, Fits
<1>3. \A d \in Channels : Queued'[d] \subseteq Queued[d]
  BY <1>2, NextHolds
<1>4. AtCap({})
  <2>1. ASSUME NEW c \in Channels
        PROVE  HeldFor(q, c) \ {} \subseteq Held' \/ Cardinality(Load(c)) + (received' - received) > MaxPending
    <3>1. CASE HeldFor(q', c) = HeldFor(q, c)
      BY <3>1, NextHeld
    <3>2. CASE HeldFor(q', c) # HeldFor(q, c)
      <4>1. Cardinality(HeldFor(q, c)) > MaxPending
        BY <1>2, <3>2 DEF Fits
      <4>2. HeldFor(q, c) \in SUBSET Load(c)
        BY LoadHeld
      <4> QED BY <4>1, <4>2, CapOf
    <3> QED BY <3>1, <3>2
  <2>2. ASSUME NEW a \in Busy PROVE BatchEvents(task[a].batch) \ {} \subseteq Held'
    <3>1. a \in Agents
      BY DEF Busy
    <3>2. Taken[a] = BatchEvents(task[a].batch)
      BY <3>1, NextHolds
    <3> QED BY <3>1, <3>2, NextHeld
  <2> QED BY <2>1, <2>2, CapReached
<1>5. "none" \in Fates
  BY DEF Fates
<1> QED BY <1>1, <1>3, <1>4, <1>5, Dwindle

\* A timer that refreshes the queue.
LEMMA FreshKeeps ==
  ASSUME IInv, Fresh(q'), UNCHANGED <<config, task, received, results, acks>>,
         overran' = overran \cup q.overdue, Settle({}, "none"), LeasesKept, Slots'
  PROVE  IInv' /\ LossStep
<1>1. TypeOK /\ TurnShape /\ Apart
  BY DEF IInv, Steady
<1>2. SameTurns /\ task' \in [Agents -> Turns \cup {NoTask}] /\ Busy' = Busy /\ TurnShape'
  BY <1>1 DEF SameTurns, Busy, TypeOK, TurnShape
<1>3. (\A b \in Agents : Taken'[b] = Taken[b]) /\ \A b \in Busy' : TidyBatch(task'[b].batch)
  BY <1>1, <1>2, SameTaken DEF Apart
<1>4. Accounts' /\ LossStep
  BY <1>3, FreshAccounts
<1>5. \A c \in Channels \ overran' : c \in q'.inFlight <=> c \in q.inFlight
  BY DEF Fresh
<1>6. overran' \subseteq Channels /\ received' \in Events \cup {0} /\ acks' \in SUBSET Acks
  BY <1>1 DEF TypeOK, Queues, Acks
<1> QED BY <1>2, <1>4, <1>5, <1>6, Keeps

\* The timers, and the end of a dispatch.
LEMMA TimersKeep ==
  ASSUME IInv, Maintain \/ DispatchTick \/ DispatchDone
  PROVE  IInv' /\ LossStep
<1>1. TypeOK /\ Apart /\ Slots /\ Threshold \in Nat \ {0} /\ config.agents \subseteq Agents
  BY HarnessAssumption DEF IInv, Steady, Slots, SlotTypes, TypeOK
<1>2. ASSUME UNCHANGED task PROVE Busy' = Busy /\ SameTurns
  BY <1>1, <1>2 DEF SameTurns, Busy, TypeOK
<1>3. ASSUME UNCHANGED leases PROVE LeasesKept
  BY <1>3 DEF LeasesKept
<1>4. ASSUME UNCHANGED <<config, task>>, BeginDispatch(leases, faults)
      PROVE  LeasesKept /\ loop' = "dispatch" /\ faults' \in 0..config.faults
  BY <1>1, <1>2, <1>4, BeginCalm
<1>5. /\ Fresh(ExpireOverdue(q)) /\ Fresh(ExpireOverdue(compact_expired_state(q))) /\ Fresh(Refreshed)
  BY <1>1, Freshens
<1> USE DEF Slots, SlotTypes, SlotHeldOnce, CircuitCounts, PoolAsleep
<1>6. CASE DispatchTick
  <2>1. /\ UNCHANGED <<config, task, received, results, acks>> /\ Fresh(q') /\ overran' = overran \cup q.overdue
        /\ Settle({}, "none")
    BY <1>5, <1>6 DEF DispatchTick, slotVars
  <2>2. LeasesKept /\ loop' = "dispatch" /\ faults' \in 0..config.faults /\ Busy' = Busy
    BY <1>2, <1>4, <1>6, <2>1 DEF DispatchTick
  <2>3. Slots'
    BY <1>1, <1>6, <2>2 DEF DispatchTick, slotVars
  <2> QED BY <2>1, <2>2, <2>3, FreshKeeps
<1>7. CASE DispatchDone
  <2>1. /\ UNCHANGED <<config, task, received, results, acks>> /\ Fresh(q') /\ overran' = overran \cup q.overdue
        /\ Settle({}, "none") /\ LeasesKept /\ Busy' = Busy
    BY <1>2, <1>3, <1>5, <1>7 DEF DispatchDone, slotVars
  <2>2. Slots'
    BY <1>1, <1>7, <2>1 DEF DispatchDone, slotVars
  <2> QED BY <2>1, <2>2, FreshKeeps
<1>8. CASE Maintain
  <2>1. /\ UNCHANGED <<config, task, received, results, acks, idle, removed, pool, controls>>
        /\ overran' = overran \cup q.overdue /\ Settle({}, "none") /\ q' = ExpireOverdue(compact_expired_state(q))
        /\ BeginDispatch(leases, faults) \/ UNCHANGED <<loop, leases, faults>>
    BY <1>8 DEF Maintain
  <2>2. LeasesKept /\ Busy' = Busy /\ faults' \in 0..config.faults
        /\ loop' \in {"select", "drain", "dispatch", "exited"}
    BY <1>1, <1>2, <1>3, <1>4, <2>1
  <2>3. PICK refill, probe : /\ refill = {a \in config.agents : /\ a \notin idle \cup Busy \cup respawning
                                                                 /\ circuit[a] # "future"}
                             /\ probe = {a \in refill : circuit[a] = "passed"}
    OBVIOUS
  <2>4. /\ respawning' = respawning \cup refill
        /\ crashes' = [a \in Agents |-> IF a \in probe THEN Threshold - 1 ELSE crashes[a]]
        /\ circuit' = [a \in Agents |-> IF a \in probe THEN "unset" ELSE circuit[a]]
    BY <1>8, <2>3 DEF Maintain
  <2>5. /\ \A a \in refill : /\ a \in Agents /\ a \notin idle /\ a \notin Busy /\ a \notin respawning
                             /\ circuit[a] # "future"
        /\ \A a \in probe : a \in refill
    BY <1>1, <2>3
  <2>6. SlotHeldOnce'
    <3>1. \A a \in Agents : circuit'[a] = "future" => circuit[a] = "future" /\ a \notin refill
      BY <2>4, <2>5
    <3> QED BY <1>1, <2>1, <2>2, <2>4, <2>5, <3>1
  <2>7. /\ crashes' \in [Agents -> 0..Threshold] /\ circuit' \in [Agents -> {"unset", "future", "passed"}]
        /\ CircuitCounts'
    <3>1. Threshold - 1 \in 0..Threshold /\ Threshold - 1 < Threshold
      BY <1>1
    <3>2. /\ crashes' \in [Agents -> 0..Threshold] /\ circuit' \in [Agents -> {"unset", "future", "passed"}]
      BY <1>1, <2>4, <3>1
    <3>3. \A a \in Agents : circuit'[a] = "unset" => crashes'[a] < Threshold
      <4>1. \A a \in Agents : a \in probe => crashes'[a] = Threshold - 1
        BY <2>4
      <4>2. \A a \in Agents : a \notin probe => crashes'[a] = crashes[a] /\ circuit'[a] = circuit[a]
        BY <2>4
      <4> QED BY <1>1, <3>1, <4>1, <4>2
    <3> QED BY <3>2, <3>3
  <2>8. pool' = "ready"
    BY <1>8 DEF Maintain
  <2>9. Slots'
    BY <1>1, <2>1, <2>2, <2>4, <2>5, <2>6, <2>7, <2>8
  <2> QED BY <1>5, <2>1, <2>2, <2>9, FreshKeeps
<1> QED BY <1>6, <1>7, <1>8

\* A turn begins on a slot that is idle: the slots stay right.
LEMMA SlotTaken ==
  ASSUME IInv, NEW a \in idle, idle' = idle \ {a}, Busy' = Busy \cup {a}, pool = "ready", pool' = pool,
         UNCHANGED <<config, respawning, crashes, circuit, removed, loop, controls>>, faults' \in 0..config.faults
  PROVE  Slots'
<1>1. TypeOK /\ SlotHeldOnce /\ CircuitCounts /\ a \in Agents
  BY DEF IInv, Steady, TypeOK
<1> QED BY <1>1 DEF TypeOK, Slots, SlotTypes, SlotHeldOnce, CircuitCounts, PoolAsleep

\* The heartbeat has no batch.
LEMMA HeartbeatKeeps ==
  ASSUME IInv, NEW a \in Agents, Heartbeat(a)
  PROVE  IInv' /\ LossStep
<1> USE DEF IInv, Steady
<1>1. PICK t : t = NewTurn("heartbeat", NoBatch, FALSE)
  OBVIOUS
<1>2. /\ t \in Turns /\ t.channel = "heartbeat" /\ t.batch = NoBatch /\ t.steers = <<>> /\ ~ t.isolated
      /\ t.phase = "running"
  <2>1. <<>> \in Seq(Events)
    OBVIOUS
  <2>2. NoBatch \in Batches
    BY <2>1 DEF NoBatch, Batches
  <2>3. PICK s \in Seq(Events), b \in Batches : s = <<>> /\ b = NoBatch
    BY <2>1, <2>2
  <2>4. t = [channel |-> "heartbeat", batch |-> b, isolated |-> FALSE, phase |-> "running", outcome |-> "ok",
             returned |-> FALSE, signal |-> "none", steers |-> s]
    BY <1>1, <2>3 DEF NewTurn
  <2>5. t \in Turns
    BY <2>4 DEF Turns
  <2> QED BY <2>3, <2>4, <2>5
<1>3. a \in idle /\ a \notin Busy
  BY DEF Heartbeat, SlotHeldOnce
<1>4. task' = [task EXCEPT ![a] = t]
  BY <1>1 DEF Heartbeat
<1>5. /\ task' \in [Agents -> Turns \cup {NoTask}] /\ Busy' = Busy \cup {a}
      /\ \A b \in Agents : b # a => task'[b] = task[b] /\ Taken'[b] = Taken[b]
      /\ task'[a] = t /\ Taken'[a] = BatchEvents(t.batch) /\ Taken[a] = {}
  BY <1>2, <1>3, <1>4, TurnBegun
<1>6. BatchEvents(NoBatch) = {} /\ TidyBatch(NoBatch)
  BY DEF NoBatch, BatchEvents, Elems, TidyBatch, Distinct
<1>7. (\A b \in Agents : Taken'[b] = Taken[b]) /\ \A b \in Busy' : TidyBatch(task'[b].batch)
  BY <1>2, <1>5, <1>6 DEF Apart, Busy
<1>8. Fresh(q')
  BY Freshens DEF Heartbeat
<1>9. Accounts' /\ LossStep
  BY <1>7, <1>8, FreshAccounts DEF Heartbeat
<1>10. Slots'
  BY <1>3, <1>5, SlotTaken DEF Heartbeat, TypeOK
<1>11. TypeOK'
  BY <1>5, <1>9, <1>10 DEF TypeOK, Heartbeat, Accounts, Slots, SlotTypes, Queues
<1>12. TurnShape'
  BY <1>2, <1>5, HarnessAssumption DEF TurnShape, Busy
<1>13. ResultsReady'
  <2>1. results' = results /\ Busy \subseteq Agents
    BY DEF Heartbeat, Busy
  <2>2. \A b \in Elems(results) : b \in Busy' /\ task'[b].phase = "returned"
    BY <1>3, <1>5, <2>1 DEF ResultsReady
  <2> QED BY <2>1, <2>2 DEF ResultsReady, Elems, Distinct
<1>14. \A c \in Channels : TurnsOn(c)' = TurnsOn(c)
  <2>1. "heartbeat" \notin Channels
    BY TurnTypes
  <2> QED BY <1>2, <1>3, <1>5, <2>1 DEF TurnsOn, Busy
<1>15. OneTurn'
  <2>1. ASSUME NEW c \in Channels \ overran' PROVE (\A x, y \in TurnsOn(c)' : x = y) /\ (c \in q'.inFlight <=> TurnsOn(c)' # {})
    <3>1. PICK Z : Z = TurnsOn(c)
      OBVIOUS
    <3>2. c \in Channels \ overran /\ (c \in q'.inFlight <=> c \in q.inFlight)
      BY <1>8, <2>1 DEF Heartbeat, Fresh
    <3>3. (\A x, y \in Z : x = y) /\ (c \in q.inFlight <=> Z # {})
      BY <3>1, <3>2 DEF OneTurn
    <3> QED BY <1>14, <3>1, <3>2, <3>3
  <2> QED BY <2>1 DEF OneTurn
<1>16. OneThreadPerTurn'
  BY <1>2, <1>5 DEF OneThreadPerTurn, Busy, BatchEvents
<1>17. OneLease'
  <2>1. \A b \in Busy' : task'[b].channel \in Channels => b \in Busy /\ task'[b].channel = task[b].channel
    <3>1. "heartbeat" \notin Channels
      BY TurnTypes
    <3> QED BY <1>2, <1>5, <3>1 DEF Busy
  <2> QED BY <2>1 DEF OneLease, Heartbeat
<1> QED BY <1>9, <1>10, <1>11, <1>12, <1>13, <1>15, <1>16, <1>17 DEF Accounts, Slots

\* A step that keeps the turns and changes what is held for channel c.
LEMMA ChannelAccounts ==
  ASSUME IInv, SameTurns, NEW c \in Channels, NEW S, NEW why \in Fates,
         q' \in Queues, Tidy(q', c), \A d \in Channels : d # c => Same(q, q', d),
         HeldFor(q', c) \subseteq HeldFor(q, c) \cup Arriving, received' \in Nat, received <= received',
         Settle(S, why), S = {} \/ why \notin {"none", "overflow"}, S \subseteq HeldFor(q, c) \cup Arriving,
         S \cap HeldFor(q', c) = {}, Arriving \subseteq HeldFor(q', c) \cup S,
         HeldFor(q, c) \ S \subseteq HeldFor(q', c) \/ Cardinality(Load(c)) + (received' - received) > MaxPending
  PROVE  Accounts' /\ LossStep
<1> USE DEF IInv, Steady
<1>1. PICK a \in Agents : TRUE
  BY HarnessAssumption DEF TypeOK
<1>2. \A d \in Channels : d # c => HeldFor(q', d) = HeldFor(q, d)
  BY DEF Same, HeldFor
<1>3. \A d \in Channels : Tidy(q', d)
  BY DEF Apart, Same, Tidy
<1>4. (\A b \in Agents : Taken'[b] = Taken[b]) /\ \A b \in Busy' : TidyBatch(task'[b].batch)
  BY SameTaken DEF Apart
<1>5. \A e \in Arriving : e \notin Held
  <2>1. received \in Nat /\ Events \subseteq Nat
    BY QueueAssumption DEF TypeOK
  <2>2. \A e \in Held : e \in Events /\ e <= received
    BY DEF Ledger
  <2>3. \A e \in Arriving : e \in Events /\ received < e
    BY DEF Arriving
  <2>4. \A e \in Events : ~ (e <= received /\ received < e)
    BY <2>1
  <2> QED BY <2>2, <2>3, <2>4
<1>6. (\A d \in Channels : HeldFor(q, d) \subseteq Held) /\ \A b \in Agents : Taken[b] \subseteq Held
  <2>1. PICK H, B : H = Queued /\ B = Taken
    OBVIOUS
  <2>2. Held = Whole(H, B)
    BY <2>1, HeldWhole
  <2> QED BY <2>1, <2>2, InWhole, NextHolds
<1>7. \A d \in Channels : d # c => HeldFor(q, d) \cap HeldFor(q, c) = {}
  BY NextHolds DEF Apart, Disjoint
<1>8. \A b \in Agents : Taken[b] \cap HeldFor(q, c) = {}
  BY NextHolds DEF Apart, Disjoint
<1>9. S \cap Held' = {}
  <2> SUFFICES ASSUME NEW e \in S, e \in Held' PROVE FALSE
    OBVIOUS
  <2>1. e \notin HeldFor(q', c)
    OBVIOUS
  <2>2. ASSUME NEW d \in Channels, e \in HeldFor(q', d) PROVE FALSE
    BY <1>2, <1>5, <1>6, <1>7, <2>1, <2>2
  <2>3. ASSUME NEW b \in Agents, e \in Taken'[b] PROVE FALSE
    BY <1>4, <1>5, <1>6, <1>8, <2>3
  <2> QED BY <2>2, <2>3, NextHeld
<1>10. /\ \A d \in Channels : d # c => Queued'[d] \subseteq Queued[d]
       /\ Queued'[c] \cup Taken'[a] \subseteq Queued[c] \cup Taken[a] \cup Arriving
       /\ Queued'[c] \cap Taken'[a] = {}
  <2>1. Queued'[c] = HeldFor(q', c) /\ Queued[c] = HeldFor(q, c) /\ Taken'[a] = Taken[a]
    BY <1>4, NextHolds
  <2>2. \A d \in Channels : d # c => Queued'[d] \subseteq Queued[d]
    BY <1>2, NextHolds
  <2> QED BY <1>5, <1>6, <1>8, <2>1, <2>2
<1>11. Arriving \subseteq Held' \cup S /\ S \subseteq Held \cup Arriving
  BY <1>6, NextHeld
<1>12. AtCap(S)
  <2>1. ASSUME NEW d \in Channels
        PROVE  HeldFor(q, d) \ S \subseteq Held' \/ Cardinality(Load(d)) + (received' - received) > MaxPending
    BY <1>2, NextHeld
  <2>2. ASSUME NEW b \in Busy PROVE BatchEvents(task[b].batch) \ S \subseteq Held'
    <3>1. b \in Agents
      BY DEF Busy
    <3>2. Taken[b] = BatchEvents(task[b].batch)
      BY <3>1, NextHolds
    <3> QED BY <1>4, <3>1, <3>2, NextHeld
  <2> QED BY <2>1, <2>2, CapReached
<1> QED BY <1>1, <1>3, <1>4, <1>9, <1>10, <1>11, <1>12, Transfer

\* A step that only changes what is held for one channel, at its cap or not.
LEMMA FitsAccounts ==
  ASSUME IInv, SameTurns, NEW c \in Channels, Puts(q, q', c, HeldFor(q, c)), received' = received,
         Settle({}, "none")
  PROVE  Accounts' /\ LossStep
<1>1. /\ q' \in Queues /\ Tidy(q', c) /\ \A d \in Channels : d # c => Same(q, q', d)
      /\ Fits(HeldFor(q', c), HeldFor(q, c))
  BY DEF Puts
<1>2. TypeOK /\ Ledger /\ TurnShape /\ received \in Nat /\ Events \subseteq Nat
  BY QueueAssumption DEF IInv, Steady, TypeOK
<1>3. Arriving = {}
  <2>1. \A e \in Arriving : e \in Nat /\ received < e /\ e <= received
    BY <1>2 DEF Arriving
  <2> QED BY <1>2, <2>1
<1>4. HeldFor(q, c) \ {} \subseteq HeldFor(q', c) \/ Cardinality(Load(c)) + (received' - received) > MaxPending
  <2>1. CASE HeldFor(q', c) = HeldFor(q, c)
    BY <2>1
  <2>2. CASE HeldFor(q', c) # HeldFor(q, c)
    <3>1. Cardinality(HeldFor(q, c)) > MaxPending
      BY <1>1, <2>2 DEF Fits
    <3>2. HeldFor(q, c) \in SUBSET Load(c)
      BY <1>2, LoadHeld
    <3> QED BY <1>2, <3>1, <3>2, CapOf
  <2> QED BY <2>1, <2>2
<1>5. "none" \in Fates
  BY DEF Fates
<1>6. HeldFor(q', c) \subseteq HeldFor(q, c) \cup Arriving
  BY <1>1 DEF Fits
<1>7. PICK S : S = {}
  OBVIOUS
<1>8. /\ Settle(S, "none") /\ S \subseteq HeldFor(q, c) \cup Arriving /\ S \cap HeldFor(q', c) = {}
      /\ Arriving \subseteq HeldFor(q', c) \cup S /\ received' \in Nat /\ received <= received'
      /\ HeldFor(q, c) \ S \subseteq HeldFor(q', c) \/ Cardinality(Load(c)) + (received' - received) > MaxPending
  BY <1>2, <1>3, <1>4, <1>7
<1> QED BY <1>1, <1>5, <1>6, <1>7, <1>8, ChannelAccounts

\* A channel the agent leaves is drained.
LEMMA RemoveKeeps ==
  ASSUME IInv, NEW c \in Channels, RemoveMember(c)
  PROVE  IInv' /\ LossStep
<1> USE DEF IInv, Steady
<1>1. PICK S : S = HeldFor(q, c)
  OBVIOUS
<1>2. q \in Queues /\ received \in Nat /\ Events \subseteq Nat /\ config.controls \in Nat /\ controls \in 0..config.controls
  BY QueueAssumption, HarnessAssumption DEF TypeOK
<1>3. Puts(q, q', c, {}) /\ HeldFor(q', c) = {}
  BY <1>2, DrainHolds DEF RemoveMember
<1>4. /\ q' \in Queues /\ Tidy(q', c) /\ q'.inFlight = q.inFlight /\ \A d \in Channels : d # c => Same(q, q', d)
  BY <1>3 DEF Puts
<1>5. UNCHANGED <<config, received, task, results, acks, leases, loop, pool, faults, overran, idle, respawning, crashes, circuit>>
  BY DEF RemoveMember, slotVars
<1>6. SameTurns /\ task' \in [Agents -> Turns \cup {NoTask}] /\ Busy' = Busy /\ TurnShape' /\ LeasesKept
  BY <1>5 DEF SameTurns, Busy, TypeOK, TurnShape, LeasesKept
<1>7. Arriving = {}
  <2>1. \A e \in Arriving : e \in Nat /\ received < e /\ e <= received
    BY <1>2, <1>5 DEF Arriving
  <2> QED BY <1>2, <2>1
<1>8. "drained" \in Fates
  BY DEF Fates
<1>9. /\ Settle(S, "drained") /\ S \subseteq HeldFor(q, c) \cup Arriving /\ S \cap HeldFor(q', c) = {}
      /\ Arriving \subseteq HeldFor(q', c) \cup S /\ received' \in Nat /\ received <= received'
      /\ HeldFor(q, c) \ S \subseteq HeldFor(q', c) /\ HeldFor(q', c) \subseteq HeldFor(q, c) \cup Arriving
  BY <1>1, <1>2, <1>3, <1>5, <1>7 DEF RemoveMember
<1>10. Accounts' /\ LossStep
  BY <1>4, <1>6, <1>8, <1>9, ChannelAccounts
<1>11. Slots'
  <2>1. controls' \in 0..config.controls /\ removed' \subseteq Channels
    BY <1>2 DEF RemoveMember, TypeOK
  <2> QED BY <1>5, <1>6, <2>1 DEF Slots, SlotTypes, SlotHeldOnce, CircuitCounts, PoolAsleep, TypeOK
<1>12. /\ \A a \in Busy : task'[a].phase = task[a].phase
       /\ received' \in Events \cup {0} /\ acks' \in SUBSET Acks /\ overran' \subseteq Channels /\ overran \subseteq overran'
       /\ \A d \in Channels \ overran' : d \in q'.inFlight <=> d \in q.inFlight
  BY <1>4, <1>5 DEF TypeOK, Acks
<1> QED BY <1>5, <1>6, <1>10, <1>11, <1>12, Keeps

\* The answer to a steer: its event is delivered, or it is pending again.
LEMMA SteerAckKeeps ==
  ASSUME IInv, NEW k \in acks, HandleSteerAck(k)
  PROVE  IInv' /\ LossStep
<1> USE DEF IInv, Steady
<1>1. /\ q \in Queues /\ received \in Nat /\ Events \subseteq Nat /\ \A d \in Channels : Tidy(q, d)
      /\ k.channel \in Channels /\ k.event \in Events /\ acks \subseteq Acks
  BY QueueAssumption DEF TypeOK, Apart, Acks
<1>2. PICK c \in Channels, e \in Events : c = k.channel /\ e = k.event
  BY <1>1
<1>3. /\ UNCHANGED <<config, received, idle, respawning, crashes, circuit, results, removed, pool, controls, overran>>
      /\ acks' = acks \ {k} /\ BeginDispatch(leases, faults)
  BY DEF HandleSteerAck
<1>4. \/ /\ k.ack = "success" /\ task' = task
         /\ q' = remove_event(extend_in_flight_deadline(q, c), c, e)
         /\ Settle({e} \cap (Held \ Held'), "steered")
      \/ /\ q' = release_native_steer(q, c, e) /\ Settle({}, "none")
         /\ task' = task \/ Signal(c, "requeue")
  BY <1>2 DEF HandleSteerAck
<1>5. /\ SameTurns /\ task' \in [Agents -> Turns \cup {NoTask}]
      /\ \A a \in Busy : task'[a].phase = task[a].phase /\ task'[a].steers = task[a].steers
  <2>1. CASE task' = task
    BY <2>1 DEF SameTurns, Busy, TypeOK
  <2>2. CASE Signal(c, "requeue")
    BY <2>2, SignalTurns
  <2> QED BY <1>4, <2>1, <2>2
<1>6. Busy' = Busy /\ TurnShape'
  BY <1>5 DEF SameTurns, TurnShape
<1>7. LeasesKept /\ loop' = "dispatch" /\ faults' \in 0..config.faults
  BY <1>3, <1>5, BeginCalm
<1>8. ASSUME q' = release_native_steer(q, c, e) /\ Settle({}, "none")
      PROVE  q'.inFlight = q.inFlight /\ Accounts' /\ LossStep
  <2>1. Puts(q, q', c, HeldFor(q, c))
    BY <1>1, <1>8, ReleaseHolds
  <2>2. Accounts' /\ LossStep
    BY <1>3, <1>5, <2>1, <1>8, FitsAccounts
  <2> QED BY <2>1, <2>2 DEF Puts
<1>9. ASSUME q' = remove_event(extend_in_flight_deadline(q, c), c, e) /\ Settle({e} \cap (Held \ Held'), "steered")
      PROVE  q'.inFlight = q.inFlight /\ Accounts' /\ LossStep
  <2>1. PICK p : p = extend_in_flight_deadline(q, c)
    OBVIOUS
  <2>2. Leaves(q, p) /\ p.inFlight = q.inFlight
    BY <1>1, <2>1, CompleteHolds
  <2>3. p \in Queues /\ \A d \in Channels : Tidy(p, d) /\ HeldFor(p, d) = HeldFor(q, d) /\ Same(q, p, d)
    BY <1>1, <2>2, LeavesHolds DEF Leaves
  <2>4. /\ Puts(p, q', c, HeldFor(q', c)) /\ HeldFor(q', c) \subseteq HeldFor(p, c)
        /\ HeldFor(p, c) \subseteq HeldFor(q', c) \cup {e}
    BY <1>9, <2>1, <2>3, RemoveHolds
  <2>5. q' \in Queues /\ Tidy(q', c) /\ q'.inFlight = q.inFlight /\ \A d \in Channels : d # c => Same(p, q', d)
    BY <2>2, <2>4 DEF Puts
  <2>6. \A d \in Channels : d # c => Same(q, q', d)
    BY <2>3, <2>5 DEF Same
  <2>7. PICK S : S = {e} \cap (Held \ Held')
    OBVIOUS
  <2>8. HeldFor(q', c) \subseteq HeldFor(q, c) /\ HeldFor(q, c) \subseteq HeldFor(q', c) \cup {e}
    BY <2>3, <2>4
  <2>9. \A d \in Channels : d # c => HeldFor(q', d) = HeldFor(q, d)
    BY <2>6 DEF Same, HeldFor
  <2>10. \A b \in Agents : Taken'[b] = Taken[b]
    BY <1>5, SameTaken
  <2>11. \A d \in Channels : d # c => HeldFor(q, d) \cap HeldFor(q, c) = {}
    BY NextHolds DEF Apart, Disjoint
  <2>12. \A b \in Agents : Taken[b] \cap HeldFor(q, c) = {}
    BY NextHolds DEF Apart, Disjoint
  <2>13. HeldFor(q, c) \subseteq Held
    BY HeldWhole
  <2>14. HeldFor(q, c) \ S \subseteq HeldFor(q', c)
    <3> SUFFICES ASSUME NEW x \in HeldFor(q, c), x \notin S, x \notin HeldFor(q', c) PROVE FALSE
      OBVIOUS
    <3>1. x = e /\ x \in Held
      BY <2>8, <2>13
    <3>2. x \in Held'
      BY <2>7, <3>1
    <3> QED BY <2>9, <2>10, <2>11, <2>12, <3>2, NextHeld
  <2>15. S \cap HeldFor(q', c) = {}
    BY <2>7, NextHeld
  <2>16. S \subseteq HeldFor(q, c)
    <3> SUFFICES ASSUME NEW x \in S, x \notin HeldFor(q, c) PROVE FALSE
      OBVIOUS
    <3>1. x \in Held /\ x \notin Held'
      BY <2>7
    <3>2. CASE \E d \in Channels : x \in HeldFor(q, d)
      BY <2>9, <3>1, <3>2, NextHeld
    <3>3. CASE \E a \in Busy : x \in BatchEvents(task[a].batch)
      <4>1. PICK a \in Busy : x \in BatchEvents(task[a].batch)
        BY <3>3
      <4>2. a \in Agents
        BY DEF Busy
      <4>3. x \in Taken'[a]
        BY <2>10, <4>1, <4>2, NextHolds
      <4> QED BY <3>1, <4>2, <4>3, NextHeld
    <3> QED BY <3>1, <3>2, <3>3, HeldWhole
  <2>17. Arriving = {}
    <3>1. \A x \in Arriving : x \in Nat /\ received < x /\ x <= received
      BY <1>1, <1>3 DEF Arriving
    <3> QED BY <1>1, <3>1
  <2>18. "steered" \in Fates
    BY DEF Fates
  <2>19. Settle(S, "steered") /\ received' \in Nat /\ received <= received'
    BY <1>1, <1>3, <1>9, <2>7
  <2>20. Accounts' /\ LossStep
    BY <1>5, <2>5, <2>6, <2>8, <2>14, <2>15, <2>16, <2>17, <2>18, <2>19, ChannelAccounts
  <2> QED BY <2>5, <2>20
<1>10. q'.inFlight = q.inFlight /\ Accounts' /\ LossStep
  BY <1>4, <1>8, <1>9
<1>11. Slots'
  <2>1. pool = "ready"
    BY DEF PoolAsleep
  <2> QED BY <1>3, <1>6, <1>7, <2>1 DEF Slots, SlotTypes, SlotHeldOnce, CircuitCounts, PoolAsleep, TypeOK
<1>12. /\ received' \in Events \cup {0} /\ acks' \in SUBSET Acks /\ overran' \subseteq Channels /\ overran \subseteq overran'
       /\ \A d \in Channels \ overran' : d \in q'.inFlight <=> d \in q.inFlight
  BY <1>1, <1>3, <1>10 DEF TypeOK
<1> QED BY <1>3, <1>5, <1>6, <1>7, <1>10, <1>11, <1>12, Keeps

\* A steer request is added to a turn with a channel.
LEMMA SteerTurns ==
  ASSUME TypeOK, TurnShape, NEW c \in Channels, NEW e \in Events, NEW a \in TurnsOn(c),
         task' = [task EXCEPT ![a].steers = Append(@, e)]
  PROVE  /\ SameTurns /\ task' \in [Agents -> Turns \cup {NoTask}] /\ TurnShape'
         /\ \A b \in Busy : task'[b].phase = task[b].phase
<1>1. a \in Busy /\ task[a] \in Turns /\ task[a].channel = c /\ c # "heartbeat"
  BY TurnTypes DEF TurnsOn
<1>2. PICK t : t = [task[a] EXCEPT !.steers = Append(task[a].steers, e)]
  OBVIOUS
<1>3. task[a].steers \in Seq(Events)
  BY <1>1 DEF Turns
<1>4. Append(task[a].steers, e) \in Seq(Events)
  BY <1>3
<1>5. /\ t \in Turns /\ t.channel = task[a].channel /\ t.batch = task[a].batch /\ t.isolated = task[a].isolated
      /\ t.phase = task[a].phase
  BY <1>1, <1>2, <1>4 DEF Turns
<1>6. task' = [task EXCEPT ![a] = t]
  BY <1>2
<1>7. /\ SameTurns /\ task' \in [Agents -> Turns \cup {NoTask}]
      /\ task'[a] = t /\ \A b \in Agents : b # a => task'[b] = task[b]
  BY <1>1, <1>5, <1>6, TurnEdited
<1>8. Busy' = Busy /\ Busy \subseteq Agents
  BY <1>7 DEF SameTurns, Busy
<1> QED BY <1>1, <1>5, <1>7, <1>8 DEF TurnShape

\* The event that arrives is queued, withheld for a steer, or dropped.
LEMMA ReceiveKeeps ==
  ASSUME IInv, NEW c \in Channels, NEW e \in Events, Receive(c, e)
  PROVE  IInv' /\ LossStep
<1> USE DEF IInv, Steady
<1>1. /\ q \in Queues /\ received \in Nat /\ Events \subseteq Nat /\ \A d \in Channels : Tidy(q, d)
  BY QueueAssumption DEF TypeOK, Apart
<1>2. /\ UNCHANGED <<config, idle, respawning, crashes, circuit, results, acks, removed, pool, controls, overran>>
      /\ e = received + 1 /\ received' = e
      /\ IF pool = "ready" THEN BeginDispatch(leases, faults) ELSE UNCHANGED <<loop, leases, faults>>
  BY DEF Receive
<1>3. PICK P \in SUBSET Channels :
         \/ q' = q /\ task' = task /\ Settle({e}, "dropped")
         \/ /\ q' = [Push(q, c, e) EXCEPT !.paused = P] /\ Settle({}, "none")
            /\ task' = task \/ Signal(c, "requeue")
         \/ /\ q' = mark_native_steer_pending([Push(q, c, e) EXCEPT !.paused = P], c, e) /\ Settle({}, "none")
            /\ \E a \in TurnsOn(c) : task' = [task EXCEPT ![a].steers = Append(@, e)]
  <2>1. q.paused \in SUBSET Channels /\ q.paused \cup {c} \in SUBSET Channels
    BY <1>1 DEF Queues
  <2> QED BY <2>1 DEF Receive
<1>4. /\ SameTurns /\ task' \in [Agents -> Turns \cup {NoTask}] /\ TurnShape'
      /\ \A a \in Busy : task'[a].phase = task[a].phase
  <2>1. CASE task' = task
    BY <2>1 DEF SameTurns, Busy, TypeOK, TurnShape
  <2>2. CASE Signal(c, "requeue")
    <3>1. /\ SameTurns /\ task' \in [Agents -> Turns \cup {NoTask}]
          /\ \A a \in Busy : task'[a].phase = task[a].phase /\ task'[a].steers = task[a].steers
      BY <2>2, SignalTurns
    <3> QED BY <3>1 DEF SameTurns, TurnShape
  <2>3. CASE \E a \in TurnsOn(c) : task' = [task EXCEPT ![a].steers = Append(@, e)]
    BY <2>3, SteerTurns
  <2> QED BY <1>3, <2>1, <2>2, <2>3
<1>5. e \in Nat /\ e \notin HeldFor(q, c) /\ received <= received' /\ received' - received = 1
  <2>1. e \in Nat /\ ~ (e <= received) /\ received <= received' /\ received' - received = 1
    BY <1>1, <1>2
  <2>2. e \notin Held
    BY <2>1 DEF Ledger
  <2> QED BY <2>1, <2>2, HeldWhole
<1>6. Arriving = {e}
  <2>1. e \in Arriving
    BY <1>1, <1>2, <1>5 DEF Arriving
  <2>2. \A x \in Arriving : x \in Nat /\ received < x /\ x <= received + 1
    BY <1>1, <1>2 DEF Arriving
  <2>3. \A x \in Arriving : x = e
    BY <1>1, <1>2, <2>2
  <2> QED BY <2>1, <2>3
<1>7. ASSUME q' = q, Settle({e}, "dropped") PROVE q'.inFlight = q.inFlight /\ Accounts' /\ LossStep
  <2>1. PICK S : S = {e}
    OBVIOUS
  <2>2. \A d \in Channels : Same(q, q', d)
    BY <1>7 DEF Same
  <2>3. "dropped" \in Fates
    BY DEF Fates
  <2>4. /\ Settle(S, "dropped") /\ S \subseteq HeldFor(q, c) \cup Arriving /\ S \cap HeldFor(q', c) = {}
        /\ Arriving \subseteq HeldFor(q', c) \cup S /\ received' \in Nat
        /\ HeldFor(q, c) \ S \subseteq HeldFor(q', c) /\ HeldFor(q', c) \subseteq HeldFor(q, c) \cup Arriving
    BY <1>2, <1>5, <1>6, <1>7, <2>1
  <2>5. q' \in Queues /\ Tidy(q', c)
    BY <1>1, <1>7
  <2>6. Accounts' /\ LossStep
    BY <1>4, <1>5, <2>2, <2>3, <2>4, <2>5, ChannelAccounts
  <2> QED BY <1>7, <2>6
<1>8. PICK p, r : p = Push(q, c, e) /\ r = [p EXCEPT !.paused = P]
  OBVIOUS
<1>9. /\ r \in Queues /\ r.inFlight = q.inFlight /\ Tidy(r, c) /\ Fits(HeldFor(r, c), HeldFor(q, c) \cup {e})
      /\ (\A d \in Channels : d # c => Same(q, r, d)) /\ e \in HeldFor(r, c)
  <2>1. /\ p \in Queues /\ p.inFlight = q.inFlight /\ Tidy(p, c) /\ Fits(HeldFor(p, c), HeldFor(q, c) \cup {e})
        /\ (\A d \in Channels : d # c => Same(q, p, d)) /\ e \in Elems(p.queues[c])
    BY <1>1, <1>5, <1>8, PushHolds
  <2>2. Leaves(p, r) /\ r.inFlight = p.inFlight
    BY <1>8, <2>1 DEF Leaves, Queues
  <2>3. \A d \in Channels : (Tidy(p, d) => Tidy(r, d)) /\ HeldFor(r, d) = HeldFor(p, d) /\ Same(p, r, d)
    BY <2>1, <2>2, LeavesHolds
  <2>4. r \in Queues
    BY <2>2 DEF Leaves
  <2>5. \A d \in Channels : d # c => Same(q, r, d)
    BY <2>1, <2>3 DEF Same
  <2>6. e \in HeldFor(p, c)
    BY <2>1 DEF HeldFor
  <2> QED BY <2>1, <2>2, <2>3, <2>4, <2>5, <2>6
<1>10. ASSUME q' = r \/ q' = mark_native_steer_pending(r, c, e), Settle({}, "none")
       PROVE  q'.inFlight = q.inFlight /\ Accounts' /\ LossStep
  <2>1. /\ q' \in Queues /\ q'.inFlight = q.inFlight /\ Tidy(q', c) /\ HeldFor(q', c) = HeldFor(r, c)
        /\ \A d \in Channels : d # c => Same(q, q', d)
    <3>1. CASE q' = r
      BY <1>9, <3>1
    <3>2. CASE q' = mark_native_steer_pending(r, c, e)
      <4>1. Puts(r, q', c, HeldFor(r, c)) /\ HeldFor(q', c) = HeldFor(r, c)
        BY <1>9, <3>2, WithholdHolds
      <4>2. q' \in Queues /\ q'.inFlight = r.inFlight /\ Tidy(q', c) /\ \A d \in Channels : d # c => Same(r, q', d)
        BY <4>1 DEF Puts
      <4>3. \A d \in Channels : d # c => Same(q, q', d)
        BY <1>9, <4>2 DEF Same
      <4> QED BY <1>9, <4>1, <4>2, <4>3
    <3> QED BY <1>10, <3>1, <3>2
  <2>2. PICK S : S = {}
    OBVIOUS
  <2>3. "none" \in Fates
    BY DEF Fates
  <2>4. /\ HeldFor(q', c) \subseteq HeldFor(q, c) \cup {e}
        /\ HeldFor(q', c) = HeldFor(q, c) \cup {e} \/ Cardinality(HeldFor(q, c) \cup {e}) > MaxPending
    BY <1>9, <2>1 DEF Fits
  <2>5. HeldFor(q, c) \ S \subseteq HeldFor(q', c) \/ Cardinality(Load(c)) + (received' - received) > MaxPending
    <3>1. CASE HeldFor(q', c) = HeldFor(q, c) \cup {e}
      BY <3>1
    <3>2. CASE Cardinality(HeldFor(q, c) \cup {e}) > MaxPending
      <4>1. IsFiniteSet(Load(c)) /\ Cardinality(Load(c)) \in Nat /\ HeldFor(q, c) \subseteq Load(c)
        BY LoadHeld
      <4>2. IsFiniteSet(HeldFor(q, c)) /\ Cardinality(HeldFor(q, c)) <= Cardinality(Load(c))
        BY <4>1, FS_Subset
      <4>3. Cardinality(HeldFor(q, c)) \in Nat
        BY <4>2, FS_CardinalityType
      <4>4. Cardinality(HeldFor(q, c) \cup {e}) = Cardinality(HeldFor(q, c)) + 1
        BY <1>5, <4>2, FS_AddElement
      <4>5. MaxPending \in Nat
        BY QueueAssumption
      <4> QED BY <1>5, <3>2, <4>1, <4>2, <4>3, <4>4, <4>5
    <3> QED BY <2>4, <3>1, <3>2
  <2>6. /\ Settle(S, "none") /\ S \subseteq HeldFor(q, c) \cup Arriving /\ S \cap HeldFor(q', c) = {}
        /\ Arriving \subseteq HeldFor(q', c) \cup S /\ received' \in Nat
        /\ HeldFor(q', c) \subseteq HeldFor(q, c) \cup Arriving
    BY <1>2, <1>5, <1>6, <1>9, <1>10, <2>1, <2>2, <2>4
  <2>7. Accounts' /\ LossStep
    BY <1>4, <1>5, <2>1, <2>2, <2>3, <2>5, <2>6, ChannelAccounts
  <2> QED BY <2>1, <2>7
<1>11. q'.inFlight = q.inFlight /\ Accounts' /\ LossStep
  BY <1>3, <1>7, <1>8, <1>10
<1>12. LeasesKept /\ faults' \in 0..config.faults /\ (pool = "ready" => loop' = "dispatch") /\ (pool # "ready" => loop' = loop)
  <2>1. CASE pool = "ready"
    BY <1>2, <1>4, <2>1, BeginCalm
  <2>2. CASE pool # "ready"
    BY <1>2, <2>2 DEF LeasesKept, TypeOK
  <2> QED BY <2>1, <2>2
<1>13. Busy' = Busy
  BY <1>4 DEF SameTurns
<1>14. Slots'
  BY <1>2, <1>12, <1>13 DEF Slots, SlotTypes, SlotHeldOnce, CircuitCounts, PoolAsleep, TypeOK
<1>15. /\ received' \in Events \cup {0} /\ acks' \in SUBSET Acks /\ overran' \subseteq Channels /\ overran \subseteq overran'
       /\ \A d \in Channels \ overran' : d \in q'.inFlight <=> d \in q.inFlight
  BY <1>2, <1>11 DEF TypeOK, Acks
<1> QED BY <1>2, <1>4, <1>11, <1>12, <1>14, <1>15, Keeps


-----------------------------------------------------------------------------
(* The dispatch *)

Flush == [channel : Channels, events : Seq(Events), cancelled : Seq(Events)]

\* What a flush leaves in the queue and in its batch, for channel c.
FlushOf(f, c) ==
  /\ c \in Channels /\ f.batch \in Flush /\ f.batch.channel = c /\ TidyBatch(f.batch)
  /\ f.rest \in Queues /\ f.rest.inFlight = (q.inFlight \ q.overdue) \cup {c} /\ c \notin q.inFlight \ q.overdue
  /\ \A d \in Channels : Tidy(f.rest, d)
  /\ HeldFor(f.rest, c) \cap BatchEvents(f.batch) = {}
  /\ Fits(HeldFor(f.rest, c) \cup BatchEvents(f.batch), HeldFor(q, c))
  /\ \A d \in Channels : d # c => Fits(HeldFor(f.rest, d), HeldFor(q, d))
  /\ Isolated(c) => \A x, y \in BatchEvents(f.batch) : ThreadOf[x] = ThreadOf[y]

\* flush_next moves events of one channel into a batch.
LEMMA Flushes ==
  ASSUME IInv, NEW f \in FlushNext
  PROVE  FlushOf(f, f.batch.channel)
<1> USE DEF IInv, Steady
<1>1. PICK r : r = Refreshed
  OBVIOUS
<1>2. Fresh(r) /\ (config.parent => \A c \in Channels : r.cancelled[c] = <<>>)
  BY <1>1, Freshens
<1>3. /\ r \in Queues /\ r.inFlight = q.inFlight \ q.overdue
      /\ \A d \in Channels : Tidy(r, d) /\ Fits(HeldFor(r, d), HeldFor(q, d))
  BY <1>2 DEF Fresh
<1>4. PICK c \in Flushable(r) : f = [batch |-> FlushBatch(r, c, Isolated(c)), rest |-> Flushed(r, c, Isolated(c))]
  <2>1. f \in {[batch |-> FlushBatch(r, c, Isolated(c)), rest |-> Flushed(r, c, Isolated(c))] : c \in Flushable(r)}
    BY <1>1 DEF FlushNext
  <2> QED BY <2>1
<1>5. c \in Channels /\ c \notin r.inFlight
  BY <1>3, FlushChoice
<1>6. PICK i \in BOOLEAN : i = Isolated(c)
  BY DEF Isolated
<1>7. PICK b, p : b = FlushBatch(r, c, i) /\ p = Flushed(r, c, i)
  OBVIOUS
<1>8. f.batch = b /\ f.rest = p
  BY <1>4, <1>6, <1>7
<1>9. Tidy(r, c)
  BY <1>3, <1>5
<1>10. /\ p \in Queues /\ p.inFlight = r.inFlight \cup {c} /\ p.overdue = r.overdue
       /\ Tidy(p, c) /\ \A d \in Channels : d # c => Same(r, p, d)
       /\ b \in [channel : Channels, events : Seq(Events), cancelled : Seq(Events)] /\ b.channel = c
       /\ Distinct(b.events) /\ Distinct(b.cancelled) /\ Elems(b.events) \cap Elems(b.cancelled) = {}
       /\ HeldFor(r, c) = HeldFor(p, c) \cup Elems(b.events) \cup Elems(b.cancelled)
       /\ HeldFor(p, c) \cap (Elems(b.events) \cup Elems(b.cancelled)) = {}
       /\ i /\ r.cancelled[c] = <<>> =>
             \A x, y \in Elems(b.events) \cup Elems(b.cancelled) : ThreadOf[x] = ThreadOf[y]
  BY <1>3, <1>7, <1>9, FlushHolds
<1>11. /\ b \in Flush /\ b.channel = c /\ TidyBatch(b)
       /\ HeldFor(r, c) = HeldFor(p, c) \cup BatchEvents(b) /\ HeldFor(p, c) \cap BatchEvents(b) = {}
  BY <1>10 DEF Flush, TidyBatch, BatchEvents
<1>12. Isolated(c) => \A x, y \in BatchEvents(b) : ThreadOf[x] = ThreadOf[y]
  <2> HAVE Isolated(c)
  <2>1. i = TRUE /\ r.cancelled[c] = <<>>
    BY <1>2, <1>5, <1>6 DEF Isolated
  <2> QED BY <1>10, <2>1 DEF BatchEvents
<1>13. ASSUME NEW d \in Channels, d # c PROVE Tidy(p, d) /\ Fits(HeldFor(p, d), HeldFor(q, d))
  <2>1. Same(r, p, d) /\ Tidy(r, d) /\ Fits(HeldFor(r, d), HeldFor(q, d))
    BY <1>3, <1>10, <1>13
  <2>2. HeldFor(p, d) = HeldFor(r, d) /\ Tidy(p, d)
    BY <2>1 DEF Same, HeldFor, Tidy
  <2> QED BY <2>1, <2>2
<1>14. Fits(HeldFor(p, c) \cup BatchEvents(b), HeldFor(q, c))
  BY <1>3, <1>5, <1>11
<1>15. \A d \in Channels : Tidy(p, d)
  BY <1>10, <1>13
<1> QED BY <1>3, <1>5, <1>8, <1>10, <1>11, <1>12, <1>13, <1>14, <1>15 DEF FlushOf

\* The batch is given back to the queue, except for S, the events that leave.
LEMMA GivenBack ==
  ASSUME IInv, NEW f, NEW c, FlushOf(f, c), NEW U, NEW S, NEW why \in Fates, NEW p,
         Puts(f.rest, p, c, HeldFor(f.rest, c) \cup U), q' = mark_complete(p, c),
         U \cup S = BatchEvents(f.batch), U \cap S = {}, Settle(S, why), S = {} \/ why \notin {"none", "overflow"},
         UNCHANGED <<config, task, received, results, acks>>,
         overran' = overran \cup q.overdue, leases' \subseteq Channels, OneLease', Slots'
  PROVE  IInv' /\ LossStep
<1> USE DEF IInv, Steady
<1>1. /\ c \in Channels /\ f.rest \in Queues /\ f.rest.inFlight = (q.inFlight \ q.overdue) \cup {c}
      /\ c \notin q.inFlight \ q.overdue /\ (\A d \in Channels : Tidy(f.rest, d))
      /\ HeldFor(f.rest, c) \cap BatchEvents(f.batch) = {}
      /\ Fits(HeldFor(f.rest, c) \cup BatchEvents(f.batch), HeldFor(q, c))
      /\ \A d \in Channels : d # c => Fits(HeldFor(f.rest, d), HeldFor(q, d))
  BY DEF FlushOf
<1>2. /\ p \in Queues /\ p.inFlight = f.rest.inFlight /\ Tidy(p, c) /\ Fits(HeldFor(p, c), HeldFor(f.rest, c) \cup U)
      /\ \A d \in Channels : d # c => Same(f.rest, p, d)
  BY DEF Puts
<1>3. \A d \in Channels : d # c => HeldFor(p, d) = HeldFor(f.rest, d) /\ Tidy(p, d)
  BY <1>1, <1>2 DEF Same, HeldFor, Tidy
<1>4. Leaves(p, q') /\ q'.inFlight = p.inFlight \ {c}
  BY <1>1, <1>2, CompleteHolds
<1>5. /\ q' \in Queues /\ q'.inFlight = q.inFlight \ q.overdue
      /\ \A d \in Channels : Tidy(q', d) /\ HeldFor(q', d) = HeldFor(p, d)
  BY <1>1, <1>2, <1>3, <1>4, LeavesHolds DEF Leaves
<1>6. /\ HeldFor(q', c) \subseteq HeldFor(f.rest, c) \cup U /\ HeldFor(f.rest, c) \cup BatchEvents(f.batch) \subseteq HeldFor(q, c)
      /\ \A d \in Channels : d # c => HeldFor(q', d) \subseteq HeldFor(q, d)
  BY <1>1, <1>2, <1>3, <1>5 DEF Fits
<1>7. \A d \in Channels : Queued'[d] \subseteq Queued[d]
  BY <1>6, NextHolds
<1>8. SameTurns /\ task' \in [Agents -> Turns \cup {NoTask}] /\ Busy' = Busy /\ TurnShape'
  BY DEF SameTurns, Busy, TypeOK, TurnShape
<1>9. (\A b \in Agents : Taken'[b] = Taken[b]) /\ \A b \in Busy' : TidyBatch(task'[b].batch)
  BY <1>8, SameTaken DEF Apart
<1>10. S \subseteq HeldFor(q, c) /\ S \cap HeldFor(q', c) = {}
  BY <1>1, <1>6
<1>11. S \subseteq Held
  BY <1>1, <1>10, HeldWhole
<1>12. S \cap Held' = {}
  <2>1. \A d \in Channels : d # c => HeldFor(q, d) \cap HeldFor(q, c) = {}
    BY <1>1, NextHolds DEF Apart, Disjoint
  <2>2. \A b \in Agents : Taken[b] \cap HeldFor(q, c) = {}
    BY <1>1, NextHolds DEF Apart, Disjoint
  <2> SUFFICES ASSUME NEW x \in S, x \in Held' PROVE FALSE
    OBVIOUS
  <2> QED BY <1>6, <1>9, <1>10, <2>1, <2>2, NextHeld
<1>13. AtCap(S)
  <2>1. \A d \in Channels : HeldFor(q, d) \in SUBSET Load(d)
    BY LoadHeld
  <2>2. ASSUME NEW d \in Channels
        PROVE  HeldFor(q, d) \ S \subseteq Held' \/ Cardinality(Load(d)) + (received' - received) > MaxPending
    <3>1. ASSUME NEW Y \in SUBSET HeldFor(q, d), Cardinality(Y) > MaxPending
          PROVE  Cardinality(Load(d)) + (received' - received) > MaxPending
      <4>1. Y \in SUBSET Load(d)
        BY <2>1
      <4> QED BY <3>1, <4>1, CapOf
    <3>2. CASE d # c
      <4>1. HeldFor(q', d) = HeldFor(q, d) \/ Cardinality(HeldFor(q, d)) > MaxPending
        BY <1>1, <1>3, <1>5, <3>2 DEF Fits
      <4> QED BY <3>1, <4>1, NextHeld
    <3>3. CASE d = c
      <4>1. \/ HeldFor(f.rest, c) \cup BatchEvents(f.batch) = HeldFor(q, c)
            \/ Cardinality(HeldFor(q, c)) > MaxPending
        BY <1>1 DEF Fits
      <4>2. \/ HeldFor(q', c) = HeldFor(f.rest, c) \cup U
            \/ Cardinality(HeldFor(f.rest, c) \cup U) > MaxPending
        BY <1>1, <1>2, <1>5 DEF Fits
      <4>3. HeldFor(f.rest, c) \cup U \in SUBSET HeldFor(q, c)
        BY <1>6
      <4> QED BY <3>1, <3>3, <4>1, <4>2, <4>3, NextHeld
    <3> QED BY <3>2, <3>3
  <2>3. ASSUME NEW a \in Busy PROVE BatchEvents(task[a].batch) \ S \subseteq Held'
    <3>1. a \in Agents
      BY DEF Busy
    <3>2. Taken'[a] = BatchEvents(task[a].batch)
      BY <1>9, <3>1, NextHolds
    <3> QED BY <3>1, <3>2, NextHeld
  <2> QED BY <2>2, <2>3, CapReached
<1>14. Accounts' /\ LossStep
  BY <1>5, <1>7, <1>9, <1>11, <1>12, <1>13, Dwindle
<1>15. \A d \in Channels \ overran' : d \in q'.inFlight <=> d \in q.inFlight
  BY <1>5
<1>16. overran' \subseteq Channels /\ overran \subseteq overran' /\ received' \in Events \cup {0} /\ acks' \in SUBSET Acks
  BY DEF TypeOK, Queues, Acks
<1> QED BY <1>8, <1>14, <1>15, <1>16, Upholds


\* The slots are left alone by a dispatch that starts no turn.
LEMMA SlotsStay ==
  ASSUME IInv, loop = "dispatch", UNCHANGED <<config, slotVars, removed, pool, controls>>,
         loop' \in {"dispatch", "select"}, faults' \in 0..config.faults
  PROVE  Slots'
<1>1. pool = "ready" /\ Busy' = Busy
  BY DEF IInv, Steady, PoolAsleep, slotVars, Busy
<1> QED BY <1>1 DEF IInv, Steady, Slots, SlotTypes, SlotHeldOnce, CircuitCounts, PoolAsleep, TypeOK, slotVars

\* A batch that finds no agent, no lease or no welcome.
LEMMA ReturnedKeeps ==
  ASSUME IInv, DispatchNoAgent \/ DispatchDeferred \/ DispatchRefused
  PROVE  IInv' /\ LossStep
<1> USE DEF IInv, Steady
<1>1. /\ UNCHANGED <<config, task, received, results, acks, slotVars, removed, pool, controls>> /\ loop = "dispatch"
      /\ overran' = overran \cup q.overdue /\ loop' \in {"dispatch", "select"}
  BY DEF DispatchNoAgent, DispatchDeferred, DispatchRefused, slotVars
<1>2. faults' \in 0..config.faults
  <2>1. config.faults \in Nat /\ faults \in 0..config.faults
    BY HarnessAssumption DEF TypeOK
  <2> QED BY <2>1 DEF DispatchNoAgent, DispatchDeferred, DispatchRefused
<1>3. Slots'
  BY <1>1, <1>2, SlotsStay
<1>4. leases \subseteq Channels /\ Busy' = Busy
  BY <1>1 DEF TypeOK, Busy
<1>5. ASSUME leases' = leases PROVE OneLease'
  BY <1>1, <1>4, <1>5 DEF OneLease
<1>6. ASSUME NEW f \in FlushNext
      PROVE  /\ FlushOf(f, f.batch.channel) /\ f.batch.channel \in Channels /\ f.rest \in Queues
             /\ f.batch \in Flush /\ TidyBatch(f.batch) /\ Tidy(f.rest, f.batch.channel)
             /\ BatchEvents(f.batch) = Elems(f.batch.events) \cup Elems(f.batch.cancelled)
             /\ HeldFor(f.rest, f.batch.channel) \cap BatchEvents(f.batch) = {}
  BY Flushes DEF FlushOf, BatchEvents
<1>7. CASE DispatchNoAgent
  <2>1. PICK f \in FlushNext :
           /\ q' = mark_complete(requeue_preserve_timestamps(f.rest, f.batch), f.batch.channel)
           /\ Settle(Elems(f.batch.cancelled), "interrupted")
    BY <1>7 DEF DispatchNoAgent
  <2>2. PICK c, b, p, U, S : /\ c = f.batch.channel /\ b = f.batch /\ p = requeue_preserve_timestamps(f.rest, b)
                             /\ U = Elems(b.events) /\ S = Elems(b.cancelled)
    OBVIOUS
  <2>3. Puts(f.rest, p, c, HeldFor(f.rest, c) \cup U)
    BY <1>6, <2>2, PreserveHolds DEF Flush, TidyBatch
  <2>4. U \cup S = BatchEvents(f.batch) /\ U \cap S = {}
    BY <1>6, <2>2 DEF TidyBatch
  <2>5. "interrupted" \in Fates
    BY DEF Fates
  <2>6. leases' = leases /\ OneLease'
    BY <1>5, <1>7 DEF DispatchNoAgent
  <2> QED BY <1>1, <1>3, <1>4, <1>6, <2>1, <2>2, <2>3, <2>4, <2>5, <2>6, GivenBack
<1>8. CASE DispatchDeferred
  <2>1. PICK f \in FlushNext :
           /\ leases' \in IF leases # {} THEN {leases} ELSE {{}, {f.batch.channel}}
           /\ q' = mark_complete(defer(f.rest, f.batch), f.batch.channel)
           /\ Settle({}, "none")
    BY <1>8 DEF DispatchDeferred
  <2>2. PICK c, b, p, U, S : /\ c = f.batch.channel /\ b = f.batch /\ p = defer(f.rest, b)
                             /\ U = BatchEvents(b) /\ S = {}
    OBVIOUS
  <2>3. Puts(f.rest, p, c, HeldFor(f.rest, c) \cup U)
    <3>1. Puts(f.rest, p, c, HeldFor(f.rest, c) \cup Elems(b.events) \cup Elems(b.cancelled))
      BY <1>6, <2>2, DeferHolds DEF Flush, TidyBatch
    <3>2. HeldFor(f.rest, c) \cup Elems(b.events) \cup Elems(b.cancelled) = HeldFor(f.rest, c) \cup U
      BY <1>6, <2>2
    <3> QED BY <3>1, <3>2
  <2>4. U \cup S = BatchEvents(f.batch) /\ U \cap S = {}
    BY <2>2
  <2>5. "none" \in Fates
    BY DEF Fates
  <2>6. OneLease' /\ leases' \subseteq Channels
    <3>1. CASE leases' = leases
      BY <1>4, <1>5, <3>1
    <3>2. CASE leases = {} /\ leases' \in {{}, {c}}
      <4>1. config.parent => \A a \in Busy : task[a].channel \notin Channels
        BY <3>2 DEF OneLease
      <4>2. c \in Channels
        BY <1>6, <2>2
      <4> QED BY <1>1, <1>4, <3>2, <4>1, <4>2 DEF OneLease
    <3> QED BY <2>1, <2>2, <3>1, <3>2
  <2> QED BY <1>1, <1>3, <1>6, <2>1, <2>2, <2>3, <2>4, <2>5, <2>6, GivenBack
<1>9. CASE DispatchRefused
  <2>1. PICK f \in FlushNext : q' = mark_complete(f.rest, f.batch.channel) /\ Settle(BatchEvents(f.batch), "refused")
    BY <1>9 DEF DispatchRefused
  <2>2. PICK c, p, U, S : c = f.batch.channel /\ p = f.rest /\ U = {} /\ S = BatchEvents(f.batch)
    OBVIOUS
  <2>3. Puts(f.rest, p, c, HeldFor(f.rest, c) \cup U)
    <3>1. HeldFor(f.rest, c) \cup U = HeldFor(f.rest, c)
      BY <2>2
    <3> QED BY <1>6, <2>2, <3>1 DEF Puts, Fits, Same
  <2>4. U \cup S = BatchEvents(f.batch) /\ U \cap S = {}
    BY <2>2
  <2>5. "refused" \in Fates
    BY DEF Fates
  <2>6. leases' = leases /\ OneLease'
    BY <1>5, <1>9 DEF DispatchRefused
  <2> QED BY <1>1, <1>3, <1>4, <1>6, <2>1, <2>2, <2>3, <2>4, <2>5, <2>6, GivenBack
<1> QED BY <1>7, <1>8, <1>9


\* The turn a dispatch starts.
LEMMA NewTurnType ==
  ASSUME NEW c \in Channels, NEW b \in Flush, NEW i \in BOOLEAN, NEW t, t = NewTurn(c, b, i)
  PROVE  t \in Turns /\ t.channel = c /\ t.batch = b /\ t.isolated = i /\ t.phase = "running"
<1>1. <<>> \in Seq(Events)
  OBVIOUS
<1>2. b \in Batches
  BY DEF Flush, Batches
<1>3. PICK s \in Seq(Events) : s = <<>>
  BY <1>1
<1>4. t = [channel |-> c, batch |-> b, isolated |-> i, phase |-> "running", outcome |-> "ok",
           returned |-> FALSE, signal |-> "none", steers |-> s]
  BY <1>3 DEF NewTurn
<1>5. t \in Turns
  BY <1>2, <1>4 DEF Turns
<1> QED BY <1>4, <1>5

\* A turn is started for the batch.
LEMMA RunKeeps ==
  ASSUME IInv, DispatchRun
  PROVE  IInv' /\ LossStep
<1> USE DEF IInv, Steady
<1>1. PICK f, a, F, P :
         /\ f \in FlushNext /\ a \in idle
         /\ task' = [task EXCEPT ![a] = NewTurn(f.batch.channel, f.batch, Isolated(f.batch.channel))]
         /\ idle' = idle \ {a}
         /\ leases' = IF config.parent THEN {f.batch.channel} ELSE {}
         /\ F \in {q.flat, q.flat \cup {f.batch.channel}, q.flat \ {f.batch.channel}}
         /\ P \in {q.paused, q.paused \cup {f.batch.channel}}
         /\ q' = [f.rest EXCEPT !.flat = F, !.paused = P]
         /\ Settle({}, "none")
  <2>1. PICK f \in FlushNext, a \in idle :
           /\ task' = [task EXCEPT ![a] = NewTurn(f.batch.channel, f.batch, Isolated(f.batch.channel))]
           /\ idle' = idle \ {a}
           /\ leases' = IF config.parent THEN {f.batch.channel} ELSE {}
           /\ \E F \in {q.flat, q.flat \cup {f.batch.channel}, q.flat \ {f.batch.channel}},
                 P \in {q.paused, q.paused \cup {f.batch.channel}} : q' = [f.rest EXCEPT !.flat = F, !.paused = P]
           /\ Settle({}, "none")
    BY DEF DispatchRun
  <2> QED BY <2>1
<1>2. /\ loop = "dispatch" /\ leases = {} /\ overran' = overran \cup q.overdue
      /\ UNCHANGED <<config, received, respawning, crashes, circuit, results, acks, removed, loop, pool, faults, controls>>
  BY DEF DispatchRun
<1>3. PICK c, b, i, t : c = f.batch.channel /\ b = f.batch /\ i = Isolated(c) /\ t = NewTurn(c, b, i)
  OBVIOUS
<1>4. FlushOf(f, c)
  BY <1>1, <1>3, Flushes
<1>5. /\ c \in Channels /\ b \in Flush /\ TidyBatch(b) /\ f.rest \in Queues
      /\ f.rest.inFlight = (q.inFlight \ q.overdue) \cup {c} /\ c \notin q.inFlight \ q.overdue
      /\ (\A d \in Channels : Tidy(f.rest, d)) /\ HeldFor(f.rest, c) \cap BatchEvents(b) = {}
      /\ Fits(HeldFor(f.rest, c) \cup BatchEvents(b), HeldFor(q, c))
      /\ (\A d \in Channels : d # c => Fits(HeldFor(f.rest, d), HeldFor(q, d)))
      /\ i => \A x, y \in BatchEvents(b) : ThreadOf[x] = ThreadOf[y]
  BY <1>3, <1>4 DEF FlushOf
<1>6. i \in BOOLEAN /\ b.channel = c
  BY <1>3 DEF Isolated
<1>7. t \in Turns /\ t.channel = c /\ t.batch = b /\ t.isolated = i /\ t.phase = "running"
  BY <1>3, <1>5, <1>6, NewTurnType
<1>8. a \in Agents /\ a \notin Busy /\ pool = "ready" /\ Busy \subseteq Agents
  BY <1>1, <1>2 DEF SlotHeldOnce, TypeOK, PoolAsleep, Busy
<1>9. task' = [task EXCEPT ![a] = t]
  BY <1>1, <1>3
<1>10. /\ task' \in [Agents -> Turns \cup {NoTask}] /\ Busy' = Busy \cup {a}
       /\ \A d \in Agents : d # a => task'[d] = task[d] /\ Taken'[d] = Taken[d]
       /\ task'[a] = t /\ Taken'[a] = BatchEvents(b) /\ Taken[a] = {}
  BY <1>7, <1>8, <1>9, TurnBegun
<1>11. Leaves(f.rest, q') /\ q'.inFlight = f.rest.inFlight
  <2>1. F \in SUBSET Channels /\ P \in SUBSET Channels
    BY <1>1, <1>3, <1>5 DEF TypeOK, Queues
  <2> QED BY <1>1, <1>5, <2>1 DEF Leaves, Queues
<1>12. q' \in Queues /\ \A d \in Channels : Tidy(q', d) /\ HeldFor(q', d) = HeldFor(f.rest, d)
  BY <1>5, <1>11, LeavesHolds DEF Leaves
<1>13. /\ HeldFor(q', c) \cup BatchEvents(b) \subseteq HeldFor(q, c)
       /\ \A d \in Channels : d # c => HeldFor(q', d) \subseteq HeldFor(q, d)
  BY <1>5, <1>12 DEF Fits
<1>14. Accounts' /\ LossStep
  <2>1. PICK S : S = {}
    OBVIOUS
  <2>2. \A d \in Busy' : TidyBatch(task'[d].batch)
    BY <1>5, <1>7, <1>8, <1>10 DEF Apart
  <2>3. /\ \A d \in Channels : d # c => Queued'[d] \subseteq Queued[d]
        /\ \A d \in Agents : d # a => Taken'[d] \subseteq Taken[d]
        /\ Queued'[c] \cup Taken'[a] \subseteq Queued[c] \cup Taken[a] \cup Arriving
        /\ Queued'[c] \cap Taken'[a] = {}
    BY <1>5, <1>10, <1>12, <1>13, NextHolds
  <2>4. received' \in Nat /\ received <= received' /\ Arriving = {}
    <3>1. received \in Nat /\ Events \subseteq Nat
      BY QueueAssumption DEF TypeOK
    <3>2. \A x \in Arriving : x \in Nat /\ received < x /\ x <= received
      BY <1>2, <3>1 DEF Arriving
    <3> QED BY <1>2, <3>1, <3>2
  <2>5. AtCap(S)
    <3>1. ASSUME NEW d \in Channels
          PROVE  HeldFor(q, d) \ S \subseteq Held' \/ Cardinality(Load(d)) + (received' - received) > MaxPending
      <4>1. HeldFor(q, d) \in SUBSET Load(d)
        BY LoadHeld
      <4>2. CASE Cardinality(HeldFor(q, d)) > MaxPending
        BY <1>2, <4>1, <4>2, CapOf
      <4>3. CASE d # c /\ HeldFor(q', d) = HeldFor(q, d)
        BY <4>3, NextHeld
      <4>4. CASE d = c /\ HeldFor(q', c) \cup BatchEvents(b) = HeldFor(q, c)
        BY <1>8, <1>10, <4>4, NextHeld
      <4> QED BY <1>5, <1>12, <4>2, <4>3, <4>4 DEF Fits
    <3>2. ASSUME NEW d \in Busy PROVE BatchEvents(task[d].batch) \ S \subseteq Held'
      <4>1. d \in Agents /\ d # a
        BY <1>8
      <4>2. Taken'[d] = BatchEvents(task[d].batch)
        BY <1>10, <4>1, NextHolds
      <4> QED BY <4>1, <4>2, NextHeld
    <3> QED BY <3>1, <3>2, CapReached
  <2>6. "none" \in Fates /\ Settle(S, "none") /\ S \subseteq Held \cup Arriving /\ S \cap Held' = {} /\ Arriving \subseteq Held' \cup S
    BY <1>1, <2>1, <2>4 DEF Fates
  <2> QED BY <1>5, <1>8, <1>12, <2>1, <2>2, <2>3, <2>4, <2>5, <2>6, Transfer
<1>15. Slots'
  BY <1>1, <1>2, <1>8, <1>10, SlotTaken DEF TypeOK
<1>16. TypeOK'
  BY <1>1, <1>2, <1>3, <1>5, <1>10, <1>14, <1>15 DEF TypeOK, Accounts, Slots, SlotTypes, Queues
<1>17. TurnShape'
  BY <1>5, <1>6, <1>7, <1>8, <1>10, HarnessAssumption DEF TurnShape
<1>18. ResultsReady'
  <2>1. \A d \in Elems(results) : d \in Busy' /\ task'[d].phase = "returned"
    BY <1>8, <1>10 DEF ResultsReady
  <2> QED BY <1>2, <2>1 DEF ResultsReady, Elems, Distinct
<1>19. OneTurn'
  <2>1. ASSUME NEW d \in Channels \ overran' PROVE (\A x, y \in TurnsOn(d)' : x = y) /\ (d \in q'.inFlight <=> TurnsOn(d)' # {})
    <3>1. PICK Z : Z = TurnsOn(d)
      OBVIOUS
    <3>2. d \in Channels \ overran /\ d \notin q.overdue
      BY <1>2, <2>1
    <3>3. (\A x, y \in Z : x = y) /\ (d \in q.inFlight <=> Z # {})
      BY <3>1, <3>2 DEF OneTurn
    <3>4. CASE d # c
      <4>1. TurnsOn(d)' = Z
        BY <1>7, <1>8, <1>10, <3>1, <3>4 DEF TurnsOn
      <4> QED BY <1>5, <1>11, <3>2, <3>3, <3>4, <4>1
    <3>5. CASE d = c
      <4>1. Z = {}
        BY <1>5, <3>2, <3>3, <3>5
      <4>2. TurnsOn(d)' = {a}
        BY <1>7, <1>8, <1>10, <3>1, <3>5, <4>1 DEF TurnsOn
      <4> QED BY <1>5, <1>11, <3>5, <4>2
    <3> QED BY <3>4, <3>5
  <2> QED BY <2>1 DEF OneTurn
<1>20. OneThreadPerTurn'
  BY <1>5, <1>7, <1>8, <1>10 DEF OneThreadPerTurn, BatchEvents, Elems
<1>21. OneLease'
  <2>1. config.parent => \A d \in Busy : task[d].channel \notin Channels
    BY <1>2 DEF OneLease
  <2> QED BY <1>1, <1>2, <1>3, <1>7, <1>8, <1>10, <2>1 DEF OneLease
<1> QED BY <1>14, <1>15, <1>16, <1>17, <1>18, <1>19, <1>20, <1>21 DEF Accounts, Slots


-----------------------------------------------------------------------------
(* The end of a turn *)

\* The turn of slot a leaves queue p: the events S of its batch leave for the
\* reason why, the others go back to the queue.
Ends(p, S, why, a) ==
  LET c == task[a].channel
  IN  /\ why \in Fates /\ (S = {} \/ why \notin {"none", "overflow"})
      /\ \E U : /\ Puts(q, p, c, HeldFor(q, c) \cup U)
                /\ U \cup S = BatchEvents(task[a].batch) /\ U \cap S = {}

\* What can become of the batch of a turn.
LEMMA Endings ==
  ASSUME IInv, NEW a \in Busy, NEW c \in Channels, task[a].channel = c, NEW b, b = task[a].batch
  PROVE  /\ b.channel = c
         /\ \A why \in Fates \ {"none", "overflow"} : Ends(q, BatchEvents(b), why, a)
         /\ Ends(requeue_as_cancelled(q, b), {}, "none", a)
         /\ Exhausted(q, c) => \A why \in Fates \ {"none", "overflow"} : Ends(requeue(q, b), BatchEvents(b), why, a)
         /\ ~ Exhausted(q, c) => Ends(requeue(q, b), Elems(b.cancelled), "interrupted", a)
<1> USE DEF IInv, Steady
<1>1. b.channel = c /\ b \in Batches /\ a \in Agents
  BY TurnTypes DEF TurnShape
<1>2. b \in Flush
  BY <1>1 DEF Batches, Flush
<1>3. q \in Queues /\ Tidy(q, c) /\ TidyBatch(b)
  BY DEF TypeOK, Apart
<1>4. PICK T : T = BatchEvents(b)
  OBVIOUS
<1>5. T = Elems(b.events) \cup Elems(b.cancelled)
  BY <1>4 DEF BatchEvents
<1>6. T \cap HeldFor(q, c) = {}
  <2>1. Taken[a] = T /\ Queued[c] = HeldFor(q, c)
    BY <1>1, <1>4, NextHolds
  <2> QED BY <1>1, <2>1 DEF Apart, Disjoint
<1>7. ASSUME NEW p, Leaves(q, p), p.inFlight = q.inFlight, p.overdue = q.overdue,
             NEW why \in Fates \ {"none", "overflow"}
      PROVE  Ends(p, T, why, a)
  <2>1. \A d \in Channels : Tidy(q, d) => Tidy(p, d)
    BY <1>3, <1>7, LeavesHolds
  <2>2. \A d \in Channels : HeldFor(p, d) = HeldFor(q, d) /\ Same(q, p, d)
    BY <1>3, <1>7, LeavesHolds
  <2>3. PICK U : U = {}
    OBVIOUS
  <2>4. HeldFor(q, c) \cup U = HeldFor(q, c) /\ U \cup T = BatchEvents(task[a].batch) /\ U \cap T = {}
    BY <1>4, <2>3
  <2>5. Puts(q, p, c, HeldFor(q, c) \cup U)
    BY <1>3, <1>7, <2>1, <2>2, <2>4 DEF Puts, Fits, Leaves
  <2> QED BY <2>4, <2>5 DEF Ends
<1>8. \A why \in Fates \ {"none", "overflow"} : Ends(q, T, why, a)
  <2>1. Leaves(q, q)
    BY <1>3 DEF Leaves
  <2> QED BY <1>7, <2>1
<1>9. Ends(requeue_as_cancelled(q, b), {}, "none", a)
  <2>1. Puts(q, requeue_as_cancelled(q, b), c, HeldFor(q, c) \cup Elems(b.events) \cup Elems(b.cancelled))
    BY <1>1, <1>2, <1>3, <1>5, <1>6, InterruptHolds DEF Flush, TidyBatch
  <2>2. HeldFor(q, c) \cup Elems(b.events) \cup Elems(b.cancelled) = HeldFor(q, c) \cup T
    BY <1>5
  <2>3. "none" \in Fates
    BY DEF Fates
  <2> QED BY <1>4, <2>1, <2>2, <2>3 DEF Ends
<1>10. /\ requeue(q, b).inFlight = q.inFlight /\ requeue(q, b).overdue = q.overdue
       /\ Exhausted(q, c) => Leaves(q, requeue(q, b))
       /\ ~ Exhausted(q, c) => Puts(q, requeue(q, b), c, HeldFor(q, c) \cup Elems(b.events))
  <2>1. Elems(b.events) \cap HeldFor(q, c) = {}
    BY <1>5, <1>6
  <2> QED BY <1>1, <1>2, <1>3, <2>1, RetryHolds DEF Flush, TidyBatch
<1>11. Exhausted(q, c) => \A why \in Fates \ {"none", "overflow"} : Ends(requeue(q, b), T, why, a)
  BY <1>7, <1>10
<1>12. ~ Exhausted(q, c) => Ends(requeue(q, b), Elems(b.cancelled), "interrupted", a)
  <2>1. "interrupted" \in Fates
    BY DEF Fates
  <2>2. Elems(b.events) \cup Elems(b.cancelled) = BatchEvents(task[a].batch) /\ Elems(b.events) \cap Elems(b.cancelled) = {}
    BY <1>3, <1>4, <1>5 DEF TidyBatch
  <2> QED BY <1>10, <2>1, <2>2 DEF Ends
<1> QED BY <1>1, <1>4, <1>8, <1>9, <1>11, <1>12

\* The events of a turn that is over.
LEMMA EndAccounts ==
  ASSUME IInv, NEW a \in Busy, NEW c \in Channels, task[a].channel = c, task' = [task EXCEPT ![a] = NoTask],
         received' = received, NEW p, NEW S, NEW why, Ends(p, S, why, a), q' = mark_complete(p, c), Settle(S, why)
  PROVE  Accounts' /\ LossStep /\ q'.inFlight = q.inFlight \ {c}
<1> USE DEF IInv, Steady
<1>1. why \in Fates /\ (S = {} \/ why \notin {"none", "overflow"})
  BY DEF Ends
<1>2. PICK U : /\ Puts(q, p, c, HeldFor(q, c) \cup U)
               /\ U \cup S = BatchEvents(task[a].batch) /\ U \cap S = {}
  BY DEF Ends
<1>3. /\ p \in Queues /\ p.inFlight = q.inFlight /\ Tidy(p, c) /\ Fits(HeldFor(p, c), HeldFor(q, c) \cup U)
      /\ \A d \in Channels : d # c => Same(q, p, d)
  BY <1>2 DEF Puts
<1>4. \A d \in Channels : d # c => HeldFor(p, d) = HeldFor(q, d) /\ Tidy(p, d)
  BY <1>3 DEF Apart, Same, HeldFor, Tidy
<1>5. Leaves(p, q') /\ q'.inFlight = p.inFlight \ {c}
  BY <1>3, CompleteHolds
<1>6. q' \in Queues /\ \A d \in Channels : Tidy(q', d) /\ HeldFor(q', d) = HeldFor(p, d)
  BY <1>3, <1>4, <1>5, LeavesHolds DEF Leaves
<1>7. /\ task' \in [Agents -> Turns \cup {NoTask}] /\ Busy' = Busy \ {a}
      /\ \A b \in Agents : b # a => task'[b] = task[b] /\ Taken'[b] = Taken[b]
      /\ task'[a] = NoTask /\ Taken'[a] = {} /\ Taken[a] = BatchEvents(task[a].batch)
  BY TurnOver
<1>8. a \in Agents /\ Busy \subseteq Agents
  BY DEF Busy
<1>9. \A b \in Busy' : TidyBatch(task'[b].batch)
  BY <1>7, <1>8 DEF Apart
<1>10. /\ \A d \in Channels : d # c => Queued'[d] \subseteq Queued[d]
       /\ \A b \in Agents : b # a => Taken'[b] \subseteq Taken[b]
       /\ Queued'[c] \cup Taken'[a] \subseteq Queued[c] \cup Taken[a] \cup Arriving
       /\ Queued'[c] \cap Taken'[a] = {}
  BY <1>2, <1>3, <1>4, <1>6, <1>7, NextHolds DEF Fits
<1>11. received' \in Nat /\ received <= received' /\ Arriving = {}
  <2>1. received \in Nat /\ Events \subseteq Nat
    BY QueueAssumption DEF TypeOK
  <2>2. \A x \in Arriving : x \in Nat /\ received < x /\ x <= received
    BY <2>1 DEF Arriving
  <2> QED BY <2>1, <2>2
<1>12. S \subseteq Held
  BY <1>2, HeldWhole
<1>13. S \cap Held' = {}
  <2>1. S \subseteq Taken[a]
    BY <1>2, <1>7
  <2>2. (\A d \in Channels : HeldFor(q, d) \cap Taken[a] = {}) /\ \A b \in Agents : b # a => Taken[b] \cap Taken[a] = {}
    BY <1>8, NextHolds DEF Apart, Disjoint
  <2>3. HeldFor(q', c) \subseteq HeldFor(q, c) \cup U
    BY <1>3, <1>6 DEF Fits
  <2> SUFFICES ASSUME NEW x \in S, x \in Held' PROVE FALSE
    OBVIOUS
  <2>4. CASE \E d \in Channels : x \in HeldFor(q', d)
    BY <1>2, <1>4, <1>6, <2>1, <2>2, <2>3, <2>4
  <2>5. CASE \E b \in Agents : x \in Taken'[b]
    BY <1>7, <2>1, <2>2, <2>5
  <2> QED BY <2>4, <2>5, NextHeld
<1>14. AtCap(S)
  <2>1. (HeldFor(q, c) \subseteq HeldFor(q', c) /\ U \subseteq HeldFor(q', c)) \/ Cardinality(Load(c)) + (received' - received) > MaxPending
    <3>1. CASE HeldFor(q', c) = HeldFor(q, c) \cup U
      BY <3>1
    <3>2. CASE Cardinality(HeldFor(q, c) \cup U) > MaxPending
      <4>1. a \in TurnsOn(c)
        BY DEF TurnsOn
      <4>2. HeldFor(q, c) \cup U \in SUBSET Load(c)
        BY <1>2, <4>1, LoadHeld
      <4> QED BY <3>2, <4>2, CapOf
    <3> QED BY <1>3, <1>6, <3>1, <3>2 DEF Fits
  <2>2. ASSUME NEW d \in Channels
        PROVE  HeldFor(q, d) \ S \subseteq Held' \/ Cardinality(Load(d)) + (received' - received) > MaxPending
    <3>1. CASE d = c
      BY <2>1, <3>1, NextHeld
    <3>2. CASE d # c
      BY <1>4, <1>6, <3>2, NextHeld
    <3> QED BY <3>1, <3>2
  <2>3. ASSUME NEW b \in Busy
        PROVE  \/ BatchEvents(task[b].batch) \ S \subseteq Held'
               \/ \A d \in Channels : b \in TurnsOn(d) => Cardinality(Load(d)) + (received' - received) > MaxPending
    <3>1. CASE b # a
      <4>1. b \in Agents /\ Taken'[b] = BatchEvents(task[b].batch)
        BY <1>7, <1>8, <3>1, NextHolds
      <4> QED BY <4>1, NextHeld
    <3>2. CASE b = a
      <4>1. \A d \in Channels : a \in TurnsOn(d) => d = c
        BY DEF TurnsOn
      <4>2. BatchEvents(task[a].batch) \ S \subseteq U
        BY <1>2
      <4> QED BY <2>1, <3>2, <4>1, <4>2, NextHeld
    <3> QED BY <3>1, <3>2
  <2> QED BY <2>2, <2>3, CapReached
<1>15. Accounts' /\ LossStep
  <2>1. S \subseteq Held \cup Arriving /\ Arriving \subseteq Held' \cup S
    BY <1>11, <1>12
  <2> QED BY <1>1, <1>6, <1>8, <1>9, <1>10, <1>11, <1>13, <1>14, <2>1, Transfer
<1> QED BY <1>3, <1>5, <1>15


\* A heartbeat that is over held no event.
LEMMA BeatAccounts ==
  ASSUME IInv, NEW a \in Busy, task[a].channel = "heartbeat", task' = [task EXCEPT ![a] = NoTask],
         received' = received, q' = q, Settle({}, "none")
  PROVE  Accounts' /\ LossStep
<1> USE DEF IInv, Steady
<1>1. /\ Busy' = Busy \ {a} /\ Taken'[a] = {} /\ Taken[a] = BatchEvents(task[a].batch)
      /\ \A b \in Agents : b # a => task'[b] = task[b] /\ Taken'[b] = Taken[b]
  BY TurnOver
<1>2. BatchEvents(task[a].batch) = {}
  BY DEF TurnShape, NoBatch, BatchEvents, Elems
<1>3. \A b \in Agents : Taken'[b] = Taken[b]
  BY <1>1, <1>2
<1>4. Busy \subseteq Agents
  BY DEF Busy
<1>5. q' \in Queues /\ (\A d \in Channels : Tidy(q', d)) /\ \A b \in Busy' : TidyBatch(task'[b].batch)
  BY <1>1, <1>4 DEF Apart, TypeOK
<1>6. \A d \in Channels : Queued'[d] = Queued[d] /\ HeldFor(q', d) = HeldFor(q, d)
  BY NextHolds
<1>7. PICK S : S = {}
  OBVIOUS
<1>8. AtCap(S)
  <2>1. \A d \in Channels : HeldFor(q, d) \ S \subseteq Held'
    BY <1>6, NextHeld
  <2>2. \A b \in Busy : BatchEvents(task[b].batch) \ S \subseteq Held'
    BY <1>3, <1>4, NextHolds, NextHeld
  <2> QED BY <2>1, <2>2, CapReached
<1>9. "none" \in Fates /\ S \subseteq Held /\ S \cap Held' = {} /\ Settle(S, "none")
  BY <1>7 DEF Fates
<1> QED BY <1>3, <1>5, <1>6, <1>7, <1>8, <1>9, Dwindle

\* The other turns and the queue after a turn is over.
LEMMA EndKeeps ==
  ASSUME IInv, NEW a \in Busy, task' = [task EXCEPT ![a] = NoTask], Accounts', Slots',
         UNCHANGED <<config, received, acks, overran>>,
         \A d \in Channels : d \in q'.inFlight <=> d \in q.inFlight /\ d # task[a].channel,
         \/ task[a].phase = "panicked" /\ results' = results
         \/ results # <<>> /\ a = Head(results) /\ results' = Tail(results),
         leases' \subseteq Channels, OneLease'
  PROVE  IInv'
<1> USE DEF IInv, Steady
<1>1. /\ task' \in [Agents -> Turns \cup {NoTask}] /\ Busy' = Busy \ {a}
      /\ \A b \in Agents : b # a => task'[b] = task[b]
  BY TurnOver
<1>2. a \in Agents /\ Busy \subseteq Agents
  BY DEF Busy
<1>3. results \in Seq(Agents) /\ Distinct(results) /\ \A b \in Elems(results) : b \in Busy /\ task[b].phase = "returned"
  BY DEF TypeOK, ResultsReady
<1>4. results' \in Seq(Agents) /\ Distinct(results') /\ Elems(results') \subseteq Elems(results) /\ a \notin Elems(results')
  <2>1. CASE task[a].phase = "panicked" /\ results' = results
    BY <1>3, <2>1
  <2>2. CASE results # <<>> /\ a = Head(results) /\ results' = Tail(results)
    BY <1>3, <2>2, ResultQueue
  <2> QED BY <2>1, <2>2
<1>5. ResultsReady'
  <2>1. \A b \in Elems(results') : b \in Busy' /\ task'[b].phase = "returned"
    BY <1>1, <1>2, <1>3, <1>4
  <2> QED BY <1>4, <2>1 DEF ResultsReady, Elems, Distinct
<1>6. TypeOK'
  BY <1>1, <1>4 DEF TypeOK, Accounts, Slots, SlotTypes
<1>7. TurnShape'
  BY <1>1, <1>2 DEF TurnShape
<1>8. OneThreadPerTurn'
  BY <1>1, <1>2 DEF OneThreadPerTurn, BatchEvents, Elems
<1>9. OneTurn'
  <2>1. ASSUME NEW d \in Channels \ overran' PROVE (\A x, y \in TurnsOn(d)' : x = y) /\ (d \in q'.inFlight <=> TurnsOn(d)' # {})
    <3>1. PICK Z : Z = TurnsOn(d)
      OBVIOUS
    <3>2. (\A x, y \in Z : x = y) /\ (d \in q.inFlight <=> Z # {})
      BY <2>1, <3>1 DEF OneTurn
    <3>3. TurnsOn(d)' = Z \ {a}
      BY <1>1, <1>2, <3>1 DEF TurnsOn
    <3>4. a \in Z <=> task[a].channel = d
      BY <3>1 DEF TurnsOn
    <3>5. CASE a \in Z
      <4>1. Z \ {a} = {}
        BY <3>2, <3>5
      <4> QED BY <3>3, <3>4, <3>5, <4>1
    <3>6. CASE a \notin Z
      <4>1. Z \ {a} = Z
        BY <3>6
      <4> QED BY <3>2, <3>3, <3>4, <3>6, <4>1
    <3> QED BY <3>5, <3>6
  <2> QED BY <2>1 DEF OneTurn
<1> QED BY <1>5, <1>6, <1>7, <1>8, <1>9 DEF Accounts, Slots

\* A slot whose agent is gone, and its circuit breaker.
LEMMA SlotGone ==
  ASSUME IInv, NEW a \in Busy, Busy' = Busy \ {a}, NEW next \in {"drain", "dispatch"}, ReplaceAgent(a, next),
         UNCHANGED <<config, removed, pool, controls>>, faults' \in 0..config.faults
  PROVE  Slots'
<1> USE DEF IInv, Steady
<1>1. a \in Agents /\ a \notin idle /\ a \notin respawning /\ circuit[a] # "future" /\ pool = "ready"
  BY DEF SlotHeldOnce, Busy, PoolAsleep
<1>2. /\ crashes \in [Agents -> 0..Threshold] /\ circuit \in [Agents -> {"unset", "future", "passed"}]
      /\ Threshold \in Nat /\ Threshold > 0 /\ Threshold - 1 \in 0..Threshold /\ Threshold - 1 < Threshold
      /\ idle \subseteq Agents /\ respawning \subseteq Agents /\ idle' = idle
  BY HarnessAssumption DEF TypeOK, ReplaceAgent
<1>3. PICK n, v : crashes' = [crashes EXCEPT ![a] = n] /\ circuit' = [circuit EXCEPT ![a] = v]
                  /\ n = (CASE circuit[a] = "passed" -> Threshold - 1 [] circuit[a] = "future" -> crashes[a] [] OTHER -> crashes[a] + 1)
                  /\ v = (CASE circuit[a] = "passed" -> "unset" [] circuit[a] = "unset" /\ ~MayRespawn(a) -> "future" [] OTHER -> circuit[a])
  BY DEF ReplaceAgent, record_crash
<1>4. /\ n \in 0..Threshold /\ v \in {"unset", "future"} /\ (v = "unset" => n < Threshold) /\ (v = "future" => ~ MayRespawn(a))
  <2>1. CASE circuit[a] = "passed"
    BY <1>2, <1>3, <2>1
  <2>2. CASE circuit[a] = "unset"
    <3>1. crashes[a] \in Nat /\ crashes[a] < Threshold /\ n = crashes[a] + 1
      BY <1>1, <1>2, <1>3, <2>2 DEF CircuitCounts
    <3>2. v = IF MayRespawn(a) THEN "unset" ELSE "future"
      BY <1>3, <2>2
    <3>3. MayRespawn(a) => n < Threshold
      BY <2>2, <3>1 DEF MayRespawn
    <3> QED BY <1>2, <3>1, <3>2, <3>3
  <2> QED BY <1>1, <1>2, <2>1, <2>2
<1>5. /\ crashes' \in [Agents -> 0..Threshold] /\ circuit' \in [Agents -> {"unset", "future", "passed"}]
      /\ crashes'[a] = n /\ circuit'[a] = v
      /\ \A b \in Agents : b # a => crashes'[b] = crashes[b] /\ circuit'[b] = circuit[b]
  BY <1>1, <1>2, <1>3, <1>4
<1>6. /\ respawning' \subseteq respawning \cup {a} /\ respawning \subseteq respawning' /\ (a \in respawning' => MayRespawn(a))
      /\ loop' \in {"exited", "drain", "dispatch"}
  BY <1>1 DEF ReplaceAgent
<1>7. SlotTypes'
  BY <1>1, <1>2, <1>5, <1>6 DEF SlotTypes, TypeOK
<1>8. CircuitCounts'
  BY <1>4, <1>5 DEF CircuitCounts
<1>9. SlotHeldOnce'
  <2>1. ASSUME NEW b \in Agents
        PROVE  /\ b \in idle' => b \notin Busy' \cup respawning'
               /\ b \in Busy' => b \notin respawning'
               /\ circuit'[b] = "future" => b \notin idle' \cup Busy' \cup respawning'
    <3>1. CASE b = a
      BY <1>1, <1>2, <1>4, <1>5, <1>6, <3>1
    <3>2. CASE b # a
      BY <1>2, <1>5, <1>6, <3>2 DEF SlotHeldOnce
    <3> QED BY <3>1, <3>2
  <2> QED BY <2>1 DEF SlotHeldOnce
<1>10. PoolAsleep'
  BY <1>1 DEF PoolAsleep
<1> QED BY <1>7, <1>8, <1>9, <1>10 DEF Slots

\* A slot whose turn is over and whose agent lives on.
LEMMA SlotFreed ==
  ASSUME IInv, NEW a \in Busy, Busy' = Busy \ {a}, idle' = idle \cup {a}, loop' = "drain",
         UNCHANGED <<config, respawning, crashes, circuit, removed, pool, controls>>, faults' \in 0..config.faults
  PROVE  Slots'
<1>1. a \in Agents /\ pool = "ready"
  BY DEF IInv, Steady, Busy, PoolAsleep
<1> QED BY <1>1 DEF IInv, Steady, Slots, SlotTypes, SlotHeldOnce, CircuitCounts, PoolAsleep, TypeOK


\* The turn of a task that panicked is recovered.
LEMMA PanicKeeps ==
  ASSUME IInv, NEW a \in Agents, RecoverPanicked(a)
  PROVE  IInv' /\ LossStep
<1> USE DEF IInv, Steady
<1>1. /\ a \in Busy /\ task[a].phase = "panicked" /\ task' = [task EXCEPT ![a] = NoTask]
      /\ UNCHANGED <<config, received, results, acks, removed, pool, controls, overran>>
  BY DEF RecoverPanicked, Panicked
<1>2. PICK next \in {"drain", "dispatch"} :
         ReplaceAgent(a, next) /\ (UNCHANGED <<leases, faults>> \/ BeginDispatch(leases, faults))
  BY DEF RecoverPanicked
<1>3. /\ Busy' = Busy \ {a} /\ \A b \in Agents : b # a => task'[b] = task[b]
  BY <1>1, TurnOver
<1>4. /\ faults' \in 0..config.faults /\ leases' \subseteq leases
      /\ \A b \in Agents : task'[b].channel \in leases => task'[b].channel \in leases'
  <2>1. CASE UNCHANGED <<leases, faults>>
    BY <2>1 DEF TypeOK
  <2>2. CASE BeginDispatch(leases, faults)
    BY <1>1, <2>2, BeginKeeps
  <2> QED BY <1>2, <2>1, <2>2
<1>5. Slots'
  BY <1>1, <1>2, <1>3, <1>4, SlotGone
<1>6. OneLease' /\ leases' \subseteq Channels
  <2>1. Busy' \subseteq Busy /\ \A b \in Busy' : b \in Agents /\ b # a
    BY <1>3 DEF Busy
  <2>2. \A b \in Busy' : task'[b].channel = task[b].channel /\ (task[b].channel \in leases => task[b].channel \in leases')
    BY <1>3, <1>4, <2>1
  <2>3. OneLease'
    BY <1>1, <1>4, <2>1, <2>2, LeaseKept
  <2> QED BY <1>4, <2>3 DEF TypeOK
<1>7. /\ Accounts' /\ LossStep
      /\ \A d \in Channels : d \in q'.inFlight <=> d \in q.inFlight /\ d # task[a].channel
  <2>1. task[a].channel \in Channels \cup {"heartbeat"} /\ "heartbeat" \notin Channels
    BY <1>1, TurnTypes
  <2>2. CASE task[a].channel = "heartbeat"
    <3>1. q' = q /\ Settle({}, "none")
      BY <2>2 DEF RecoverPanicked
    <3> QED BY <1>1, <2>1, <2>2, <3>1, BeatAccounts
  <2>3. CASE task[a].channel \in Channels
    <3>1. PICK c, b : c \in Channels /\ c = task[a].channel /\ b = task[a].batch
      BY <2>3
    <3>2. /\ \A why \in Fates \ {"none", "overflow"} : Ends(q, BatchEvents(b), why, a)
          /\ Exhausted(q, c) => \A why \in Fates \ {"none", "overflow"} : Ends(requeue(q, b), BatchEvents(b), why, a)
          /\ ~ Exhausted(q, c) => Ends(requeue(q, b), Elems(b.cancelled), "interrupted", a)
      BY <1>1, <3>1, Endings
    <3>3. {"dropped", "drained", "silent"} \subseteq Fates \ {"none", "overflow"}
      BY DEF Fates
    <3>4. /\ q' = mark_complete(IF config.drop \/ c \in removed THEN q ELSE requeue(q, b), c)
          /\ CASE config.drop -> Settle(BatchEvents(b), "dropped")
               [] ~config.drop /\ c \in removed -> Settle(BatchEvents(b), "drained")
               [] OTHER -> IF Exhausted(q, c) THEN Settle(BatchEvents(b), "silent")
                           ELSE Settle(Elems(b.cancelled), "interrupted")
      <4>1. c # "heartbeat"
        BY <2>1, <3>1
      <4> QED BY <3>1, <4>1 DEF RecoverPanicked
    <3>5. PICK p, S, why : Ends(p, S, why, a) /\ q' = mark_complete(p, c) /\ Settle(S, why)
      <4>1. CASE config.drop
        BY <3>2, <3>3, <3>4, <4>1
      <4>2. CASE ~config.drop /\ c \in removed
        BY <3>2, <3>3, <3>4, <4>2
      <4>3. CASE ~config.drop /\ c \notin removed
        BY <3>2, <3>3, <3>4, <4>3
      <4> QED BY <4>1, <4>2, <4>3
    <3>6. Accounts' /\ LossStep /\ q'.inFlight = q.inFlight \ {c}
      BY <1>1, <3>1, <3>5, EndAccounts
    <3> QED BY <3>1, <3>6
  <2> QED BY <2>1, <2>2, <2>3
<1> QED BY <1>1, <1>5, <1>6, <1>7, EndKeeps

\* What handle_prompt_result does with the batch of a turn.
LEMMA ResultEnds ==
  ASSUME IInv, NEW a \in Busy, NEW c \in Channels, task[a].channel = c, NEW has \in BOOLEAN, NEW outcome
  PROVE  Ends(IF has THEN RequeueResult(task[a].batch, outcome) ELSE q,
              ResultFate(task[a], has, outcome)[1], ResultFate(task[a], has, outcome)[2], a)
<1>1. PICK t, b, T : t = task[a] /\ b = task[a].batch /\ T = BatchEvents(b)
  OBVIOUS
<1>2. /\ b.channel = c /\ (\A why \in Fates \ {"none", "overflow"} : Ends(q, T, why, a))
      /\ Ends(requeue_as_cancelled(q, b), {}, "none", a)
      /\ Exhausted(q, c) => \A why \in Fates \ {"none", "overflow"} : Ends(requeue(q, b), T, why, a)
      /\ ~ Exhausted(q, c) => Ends(requeue(q, b), Elems(b.cancelled), "interrupted", a)
  BY <1>1, Endings
<1>3. {"answered", "dropped", "stopped", "drained", "dead"} \subseteq Fates \ {"none", "overflow"}
  BY DEF Fates
<1>4. t.batch = b /\ t.channel = c
  BY <1>1
<1>5. PICK p, left : p = (IF has THEN RequeueResult(b, outcome) ELSE q) /\ left = ResultFate(t, has, outcome)
  OBVIOUS
<1>6. CASE ~has
  <2>1. p = q /\ left[1] = T /\ left[2] \in {"answered", "dropped", "stopped"}
    BY <1>1, <1>4, <1>5, <1>6 DEF ResultFate
  <2> QED BY <1>1, <1>2, <1>3, <1>5, <2>1
<1>7. CASE has /\ c \in removed
  <2>1. p = q
    BY <1>2, <1>5, <1>7 DEF RequeueResult
  <2>2. left[1] = T /\ left[2] = "drained"
    BY <1>1, <1>4, <1>5, <1>7 DEF ResultFate
  <2> QED BY <1>1, <1>2, <1>3, <1>5, <2>1, <2>2
<1>8. CASE has /\ c \notin removed /\ outcome \in {"cancelled", "drain"}
  <2>1. p = requeue_as_cancelled(q, b)
    BY <1>2, <1>5, <1>8 DEF RequeueResult
  <2>2. left[1] = {} /\ left[2] = "none"
    BY <1>4, <1>5, <1>8 DEF ResultFate
  <2> QED BY <1>1, <1>2, <1>5, <2>1, <2>2
<1>9. CASE has /\ c \notin removed /\ outcome \in {"hard", "auth"}
  <2>1. p = q
    BY <1>2, <1>5, <1>9 DEF RequeueResult
  <2>2. left[1] = T /\ left[2] = "dead"
    BY <1>1, <1>4, <1>5, <1>9 DEF ResultFate
  <2> QED BY <1>1, <1>2, <1>3, <1>5, <2>1, <2>2
<1>10. CASE has /\ c \notin removed /\ outcome \notin {"cancelled", "drain", "hard", "auth"}
  <2>1. p = requeue(q, b)
    BY <1>2, <1>5, <1>10 DEF RequeueResult
  <2>2. IF Exhausted(q, c) THEN left[1] = T /\ left[2] = "dead" ELSE left[1] = Elems(b.cancelled) /\ left[2] = "interrupted"
    BY <1>1, <1>4, <1>5, <1>10 DEF ResultFate
  <2>3. Ends(p, left[1], left[2], a)
    BY <1>2, <1>3, <2>1, <2>2
  <2> QED BY <1>1, <1>5, <2>3
<1> QED BY <1>6, <1>7, <1>8, <1>9, <1>10

\* The result of a turn is handled.
LEMMA ResultKeeps ==
  ASSUME IInv, HandleResult
  PROVE  IInv' /\ LossStep
<1> USE DEF IInv, Steady
<1>1. PICK a : a = Head(results)
  OBVIOUS
<1>2. results # <<>> /\ results' = Tail(results) /\ UNCHANGED <<config, received, acks, removed, pool, controls, overran>>
  BY DEF HandleResult
<1>3. a \in Busy /\ a \in Agents
  <2>1. a \in Elems(results)
    BY <1>1, <1>2, ResultQueue DEF TypeOK, ResultsReady
  <2> QED BY <2>1 DEF ResultsReady, Busy
<1>4. PICK fin, has, outcome :
         /\ fin \in FinishChannel(task[a].channel, task[a].outcome) /\ has \in BOOLEAN
         /\ leases' = fin.leases /\ faults' = fin.failed /\ task' = [task EXCEPT ![a] = NoTask]
         /\ IF task[a].channel = "heartbeat"
            THEN q' = q /\ Settle({}, "none")
            ELSE /\ q' = mark_complete(IF has THEN RequeueResult(task[a].batch, outcome) ELSE q, task[a].channel)
                 /\ Settle(ResultFate(task[a], has, outcome)[1], ResultFate(task[a], has, outcome)[2])
         /\ \/ ReplaceAgent(a, "drain")
            \/ idle' = idle \cup {a} /\ loop' = "drain" /\ UNCHANGED <<respawning, crashes, circuit>>
  <2>1. PICK fin \in FinishChannel(task[a].channel, task[a].outcome) :
           LET has     == task[a].returned \/ (fin.owed /\ ~config.drop)
               outcome == IF fin.owed /\ task[a].outcome = "ok" THEN "app" ELSE task[a].outcome
           IN  /\ leases' = fin.leases /\ faults' = fin.failed /\ task' = [task EXCEPT ![a] = NoTask]
               /\ IF task[a].channel = "heartbeat"
                  THEN q' = q /\ Settle({}, "none")
                  ELSE /\ q' = mark_complete(IF has THEN RequeueResult(task[a].batch, outcome) ELSE q, task[a].channel)
                       /\ Settle(ResultFate(task[a], has, outcome)[1], ResultFate(task[a], has, outcome)[2])
               /\ \/ ReplaceAgent(a, "drain")
                  \/ idle' = idle \cup {a} /\ loop' = "drain" /\ UNCHANGED <<respawning, crashes, circuit>>
    BY <1>1 DEF HandleResult
  <2>2. PICK has, outcome : /\ has = (task[a].returned \/ (fin.owed /\ ~config.drop))
                            /\ outcome = IF fin.owed /\ task[a].outcome = "ok" THEN "app" ELSE task[a].outcome
    OBVIOUS
  <2>3. task[a] \in Turns
    BY <1>3, TurnTypes
  <2>4. has \in BOOLEAN
    BY <2>2, <2>3 DEF Turns
  <2> QED BY <2>1, <2>2, <2>4
<1>5. Busy' = Busy \ {a} /\ \A b \in Agents : b # a => task'[b] = task[b]
  BY <1>3, <1>4, TurnOver
<1>6. /\ faults' \in 0..config.faults /\ leases' \subseteq leases /\ leases \subseteq leases' \cup {task[a].channel}
      /\ task[a].channel \notin leases => leases' = leases
  <2>1. config.faults \in Nat /\ faults \in 0..config.faults
    BY HarnessAssumption DEF TypeOK
  <2> QED BY <1>4, <2>1 DEF FinishChannel
<1>7. Slots'
  <2>1. CASE ReplaceAgent(a, "drain")
    BY <1>2, <1>3, <1>5, <1>6, <2>1, SlotGone
  <2>2. CASE idle' = idle \cup {a} /\ loop' = "drain" /\ UNCHANGED <<respawning, crashes, circuit>>
    BY <1>2, <1>3, <1>5, <1>6, <2>2, SlotFreed
  <2> QED BY <1>4, <2>1, <2>2
<1>8. OneLease' /\ leases' \subseteq Channels
  <2>1. leases' \subseteq Channels
    BY <1>6 DEF TypeOK
  <2>2. Busy' \subseteq Busy /\ \A b \in Busy' : b \in Agents /\ b # a /\ task'[b].channel = task[b].channel
    BY <1>5 DEF Busy
  <2>3. OneLease'
    <3>1. CASE ~ config.parent
      BY <1>2, <3>1 DEF OneLease
    <3>2. CASE config.parent
      <4>1. \A b \in Busy' : task[b].channel \in Channels => task[a].channel \notin Channels
        BY <1>3, <2>2, <3>2 DEF OneLease
      <4>2. \A b \in Busy' : task[b].channel \in leases => task[b].channel \in leases'
        BY <1>6, <4>1 DEF TypeOK
      <4> QED BY <1>2, <1>6, <2>2, <4>2, LeaseKept
    <3> QED BY <3>1, <3>2
  <2> QED BY <2>1, <2>3
<1>9. /\ Accounts' /\ LossStep
      /\ \A d \in Channels : d \in q'.inFlight <=> d \in q.inFlight /\ d # task[a].channel
  <2>1. task[a].channel \in Channels \cup {"heartbeat"} /\ "heartbeat" \notin Channels
    BY <1>3, TurnTypes
  <2>2. CASE task[a].channel = "heartbeat"
    BY <1>2, <1>3, <1>4, <2>1, <2>2, BeatAccounts
  <2>3. CASE task[a].channel \in Channels
    <3>1. PICK c, p, S, why :
             /\ c \in Channels /\ c = task[a].channel /\ p = (IF has THEN RequeueResult(task[a].batch, outcome) ELSE q)
             /\ S = ResultFate(task[a], has, outcome)[1] /\ why = ResultFate(task[a], has, outcome)[2]
      BY <2>3
    <3>2. Ends(p, S, why, a)
      BY <1>3, <1>4, <3>1, ResultEnds
    <3>3. q' = mark_complete(p, c) /\ Settle(S, why)
      BY <1>4, <2>1, <2>3, <3>1
    <3>4. Accounts' /\ LossStep /\ q'.inFlight = q.inFlight \ {c}
      BY <1>2, <1>3, <1>4, <3>1, <3>2, <3>3, EndAccounts
    <3> QED BY <3>1, <3>4
  <2> QED BY <2>1, <2>2, <2>3
<1> QED BY <1>1, <1>2, <1>3, <1>4, <1>7, <1>8, <1>9, EndKeeps


-----------------------------------------------------------------------------
(* The invariant *)

\* The harness starts with nothing.
LEMMA Starts ==
  ASSUME Init
  PROVE  IInv
<1>1. /\ Events \subseteq Nat \ {0} /\ MaxRetries \in Nat /\ Threshold \in Nat \ {0}
      /\ config \in Configs /\ config.faults \in Nat /\ config.controls \in Nat /\ config.agents \subseteq Agents
  BY QueueAssumption, HarnessAssumption DEF Init
<1>2. Busy = {} /\ task \in [Agents -> Turns \cup {NoTask}]
  BY DEF Init, Busy
<1>3. q \in Queues /\ (\A c \in Channels : q.queues[c] = <<>> /\ q.withheld[c] = <<>> /\ q.cancelled[c] = <<>>)
      /\ q.inFlight = {}
  <2>1. <<>> \in Seq(Events)
    OBVIOUS
  <2>2. PICK s \in Seq(Events) : s = <<>>
    BY <2>1
  <2>3. PICK m \in [Channels -> Seq(Events)] : m = [c \in Channels |-> <<>>]
    BY <2>2
  <2>4. PICK n \in [Channels -> 0..MaxRetries] : n = [c \in Channels |-> 0]
    <3>1. 0 \in 0..MaxRetries
      BY <1>1
    <3> QED BY <3>1
  <2>5. q = [queues |-> m, inFlight |-> {}, overdue |-> {}, throttled |-> {}, paused |-> {}, flat |-> {},
             retries |-> n, cancelled |-> m, withheld |-> m]
    BY <2>3, <2>4 DEF Init, EmptyQueue
  <2>6. q \in Queues
    BY <2>5 DEF Queues
  <2> QED BY <2>3, <2>5, <2>6
<1>4. \A c \in Channels : HeldFor(q, c) = {} /\ Tidy(q, c)
  BY <1>3 DEF HeldFor, Tidy, Elems, Distinct
<1>5. Held = {}
  BY <1>2, <1>4, HeldWhole
<1>6. /\ results = <<>> /\ results \in Seq(Agents) /\ Elems(results) = {} /\ Distinct(results)
  BY DEF Init, Elems, Distinct
<1>7. /\ idle \subseteq Agents /\ pool \in {"listening", "ready"} /\ (pool # "ready" => idle = {})
  BY <1>1 DEF Init
<1>8. TypeOK
  <2>1. "none" \in Fates
    BY DEF Fates
  <2>2. fate \in [Events -> Fates] /\ crashes \in [Agents -> 0..Threshold]
        /\ circuit \in [Agents -> {"unset", "future", "passed"}]
    BY <1>1, <2>1 DEF Init
  <2>3. faults \in 0..config.faults /\ controls \in 0..config.controls
    BY <1>1 DEF Init
  <2> QED BY <1>1, <1>2, <1>3, <1>6, <1>7, <2>2, <2>3 DEF Init, TypeOK
<1>9. SlotHeldOnce /\ CircuitCounts /\ PoolAsleep
  BY <1>1, <1>2, <1>7 DEF Init, SlotHeldOnce, CircuitCounts, PoolAsleep
<1>10. TurnShape /\ OneThreadPerTurn /\ OneLease /\ ResultsReady
  BY <1>2, <1>6 DEF Init, TurnShape, OneThreadPerTurn, OneLease, ResultsReady
<1>11. OneTurn
  BY <1>2, <1>3 DEF OneTurn, TurnsOn
<1>12. Apart
  <2>1. (\A c \in Channels : Queued[c] = {}) /\ \A a \in Agents : Taken[a] = {}
    BY <1>2, <1>4, NextHolds
  <2> QED BY <1>2, <1>4, <2>1 DEF Apart, Disjoint
<1>13. Ledger
  <2>1. received = 0 /\ \A e \in Events : fate[e] = "none" /\ ~ (e <= 0)
    BY <1>1 DEF Init
  <2> QED BY <1>5, <2>1 DEF Ledger
<1> QED BY <1>8, <1>9, <1>10, <1>11, <1>12, <1>13 DEF IInv, Steady

\* Every step keeps the invariant, and loses an event only at the cap.
LEMMA StepKeeps ==
  ASSUME IInv, Next
  PROVE  IInv' /\ LossStep
<1>1. CASE \E a \in Agents : TaskStep(a)
  BY <1>1, TaskKeeps
<1>2. CASE LoopStep
  <2>1. CASE DispatchDone \/ Maintain \/ DispatchTick
    BY <2>1, TimersKeep
  <2>2. CASE DispatchNoAgent \/ DispatchDeferred \/ DispatchRefused
    BY <2>2, ReturnedKeeps
  <2>3. CASE DispatchRun
    BY <2>3, RunKeeps
  <2>4. CASE HandleResult
    BY <2>4, ResultKeeps
  <2>5. CASE \E a \in Agents : RecoverPanicked(a)
    BY <2>5, PanicKeeps
  <2>6. CASE \E k \in acks : HandleSteerAck(k)
    BY <2>6, SteerAckKeeps
  <2>7. CASE \E a \in Agents : Heartbeat(a)
    BY <2>7, HeartbeatKeeps
  <2>8. CASE \/ DrainDone \/ WakeStart \/ WakeDone \/ WakeFailed
             \/ \E a \in Agents : RespawnOk(a) \/ RespawnFailed(a)
    BY <2>8, PoolKeeps
  <2> QED BY <1>2, <2>1, <2>2, <2>3, <2>4, <2>5, <2>6, <2>7, <2>8 DEF LoopStep, LoopGoesOn
<1>3. CASE Input
  <2>1. CASE \E c \in Channels, e \in Events : Receive(c, e)
    BY <2>1, ReceiveKeeps
  <2>2. CASE \E c \in Channels : RemoveMember(c)
    BY <2>2, RemoveKeeps
  <2>3. CASE \/ \E c \in Channels, s \in {"stop", "requeue"} : Control(c, s)
             \/ \E c \in Channels : AddMember(c)
             \/ Shutdown \/ Reap
    BY <2>3, InputKeeps
  <2> QED BY <1>3, <2>1, <2>2, <2>3 DEF Input
<1>4. CASE Clock
  BY <1>4, ClockKeeps
<1> QED BY <1>1, <1>2, <1>3, <1>4 DEF Next

\* A step that changes nothing keeps the invariant.
LEMMA StutterKeeps ==
  ASSUME IInv, UNCHANGED vars
  PROVE  IInv'
<1> USE DEF IInv, Steady, vars
<1>1. Busy' = Busy /\ \A c \in Channels : TurnsOn(c)' = TurnsOn(c)
  BY DEF Busy, TurnsOn
<1>2. Leaves(q, q') /\ SameTurns
  BY <1>1 DEF Leaves, SameTurns, TypeOK
<1>3. Accounts'
  BY <1>2, Still
<1>4. LeasesKept
  BY <1>1 DEF LeasesKept
<1>5. Slots'
  BY <1>1 DEF Slots, SlotTypes, SlotHeldOnce, CircuitCounts, PoolAsleep, TypeOK
<1>6. TurnShape'
  BY <1>1 DEF TurnShape
<1>7. /\ task' \in [Agents -> Turns \cup {NoTask}] /\ received' \in Events \cup {0} /\ acks' \in SUBSET Acks
      /\ overran' \subseteq Channels
  BY DEF TypeOK, Acks
<1> QED BY <1>2, <1>3, <1>4, <1>5, <1>6, <1>7, Keeps

\* The harness always satisfies its invariant.
THEOREM Invariance == Spec => []IInv
<1>1. Init => IInv
  BY Starts
<1>2. IInv /\ [Next]_vars => IInv'
  BY StepKeeps, StutterKeeps
<1> QED BY <1>1, <1>2, PTL DEF Spec


-----------------------------------------------------------------------------
(* The properties *)

\* Every variable keeps its type.
THEOREM TypeCorrect == Spec => []TypeOK
<1>1. IInv => TypeOK
  BY DEF IInv, Steady
<1> QED BY <1>1, Invariance, PTL

\* A set whose members are all equal has at most one.
LEMMA AtMostOne ==
  ASSUME NEW S, \A x, y \in S : x = y
  PROVE  Cardinality(S) <= 1
<1>1. CASE S = {}
  <2>1. Cardinality(S) = 0
    BY <1>1, FS_EmptySet
  <2> QED BY <2>1
<1>2. CASE S # {}
  <2>1. PICK x : S = {x}
    BY <1>2
  <2>2. Cardinality(S) = 1
    BY <2>1, FS_Singleton
  <2> QED BY <2>2
<1> QED BY <1>1, <1>2

\* No agent serves two turns and no channel is served by two, whatever
\* crashes, respawns, cooldowns, panics and late results overlap.
THEOREM Exclusive == Spec => []TurnsExclusive
<1>1. IInv => TurnsExclusive
  <2> SUFFICES ASSUME IInv, NEW c \in Channels \ (overran \cup q.overdue)
               PROVE  Cardinality(TurnsOn(c)) <= 1 /\ (c \in q.inFlight <=> TurnsOn(c) # {})
    BY DEF TurnsExclusive, OneTurnPerChannel, IInv, Steady
  <2>1. PICK Z : Z = TurnsOn(c)
    OBVIOUS
  <2>2. (\A a, b \in Z : a = b) /\ (c \in q.inFlight <=> Z # {})
    BY <2>1 DEF IInv, Steady, OneTurn
  <2> QED BY <2>1, <2>2, AtMostOne
<1> QED BY <1>1, Invariance, PTL

\* The parent runtime runs one turn at a time, under the lease of that turn
\* and no other.
THEOREM Leased == Spec => []ParentTurnLeased
<1>1. IInv => ParentTurnLeased
  BY AtMostOne DEF ParentTurnLeased, OneLease, IInv, Steady
<1> QED BY <1>1, Invariance, PTL

\* A turn flushed for a single thread mixes no two.
THEOREM SingleThread == Spec => []OneThreadPerTurn
<1>1. IInv => OneThreadPerTurn
  BY DEF IInv, Steady
<1> QED BY <1>1, Invariance, PTL

\* The members of Places.
LEMMA InPlaces ==
  ASSUME NEW e, NEW x
  PROVE  x \in Places(e) <=>
            \/ \E c \in Channels : e \in Elems(q.queues[c]) /\ x = <<"queue", c>>
            \/ \E c \in Channels : e \in Elems(q.withheld[c]) /\ x = <<"withheld", c>>
            \/ \E c \in Channels : e \in Elems(q.cancelled[c]) /\ x = <<"cancelled", c>>
            \/ \E a \in Busy : e \in BatchEvents(task[a].batch) /\ x = <<"turn", a>>
BY DEF Places

\* An event that is held is held in one place, any other in none.
LEMMA OnePlace ==
  ASSUME IInv, NEW e \in Events
  PROVE  Cardinality(Places(e)) = IF e \in Held THEN 1 ELSE 0
<1> USE DEF IInv, Steady
<1>1. \A c \in Channels : HeldFor(q, c) = Elems(q.queues[c]) \cup Elems(q.withheld[c]) \cup Elems(q.cancelled[c])
  BY DEF HeldFor
<1>2. \A c, d \in Channels : e \in HeldFor(q, c) /\ e \in HeldFor(q, d) => c = d
  BY NextHolds DEF Apart, Disjoint
<1>3. Busy \subseteq Agents /\ \A a \in Busy : Taken[a] = BatchEvents(task[a].batch)
  BY NextHolds DEF Busy
<1>4. \A a, b \in Busy : e \in BatchEvents(task[a].batch) /\ e \in BatchEvents(task[b].batch) => a = b
  BY <1>3 DEF Apart, Disjoint
<1>5. \A c \in Channels, a \in Busy : ~ (e \in HeldFor(q, c) /\ e \in BatchEvents(task[a].batch))
  BY <1>3, NextHolds DEF Apart, Disjoint
<1>6. \A c \in Channels : /\ ~ (e \in Elems(q.queues[c]) /\ e \in Elems(q.withheld[c]))
                          /\ ~ (e \in Elems(q.queues[c]) /\ e \in Elems(q.cancelled[c]))
                          /\ ~ (e \in Elems(q.withheld[c]) /\ e \in Elems(q.cancelled[c]))
  BY DEF Apart, Tidy
<1>7. PICK Z : Z = Places(e)
  OBVIOUS
<1>8. \A x : x \in Z <=>
            \/ \E c \in Channels : e \in Elems(q.queues[c]) /\ x = <<"queue", c>>
            \/ \E c \in Channels : e \in Elems(q.withheld[c]) /\ x = <<"withheld", c>>
            \/ \E c \in Channels : e \in Elems(q.cancelled[c]) /\ x = <<"cancelled", c>>
            \/ \E a \in Busy : e \in BatchEvents(task[a].batch) /\ x = <<"turn", a>>
  BY <1>7, InPlaces
<1>9. \A x, y \in Z : x = y
  BY <1>1, <1>2, <1>4, <1>5, <1>6, <1>8
<1>10. e \in Held <=> Z # {}
  <2>1. ASSUME e \in Held PROVE Z # {}
    <3>1. (\E c \in Channels : e \in HeldFor(q, c)) \/ (\E a \in Busy : e \in BatchEvents(task[a].batch))
      BY <2>1, HeldWhole
    <3> QED BY <1>1, <1>8, <3>1
  <2>2. ASSUME Z # {} PROVE e \in Held
    <3>1. PICK x : x \in Z
      BY <2>2
    <3>2. (\E c \in Channels : e \in HeldFor(q, c)) \/ (\E a \in Busy : e \in BatchEvents(task[a].batch))
      BY <1>1, <1>8, <3>1
    <3> QED BY <3>2, HeldWhole
  <2> QED BY <2>1, <2>2
<1>11. CASE Z = {}
  BY <1>7, <1>10, <1>11, FS_EmptySet
<1>12. CASE Z # {}
  <2>1. PICK x : Z = {x}
    BY <1>9, <1>12
  <2>2. Cardinality(Z) = 1
    BY <2>1, FS_Singleton
  <2> QED BY <1>7, <1>10, <1>12, <2>2
<1> QED BY <1>11, <1>12

\* A received event is in exactly one place until it has a fate, and in none
\* once it has one.
THEOREM Conserved == Spec => []HeldOnce
<1>1. IInv => HeldOnce
  <2> SUFFICES ASSUME IInv PROVE HeldOnce
    OBVIOUS
  <2>1. ASSUME NEW e \in Events
        PROVE  Cardinality(Places(e)) = IF e <= received /\ fate[e] = "none" THEN 1 ELSE 0
    <3>1. e \in Held <=> e <= received /\ fate[e] = "none"
      BY DEF IInv, Ledger
    <3> QED BY <3>1, OnePlace
  <2>2. ASSUME NEW c \in Channels
        PROVE  NoRepeat(q.queues[c]) /\ NoRepeat(q.withheld[c]) /\ NoRepeat(q.cancelled[c])
    <3>1. q.queues[c] \in Seq(Events) /\ q.withheld[c] \in Seq(Events) /\ q.cancelled[c] \in Seq(Events)
      BY HeldFinite DEF IInv, Steady, TypeOK
    <3>2. Distinct(q.queues[c]) /\ Distinct(q.withheld[c]) /\ Distinct(q.cancelled[c])
      BY DEF IInv, Apart, Tidy
    <3> QED BY <3>1, <3>2, CountDistinct DEF NoRepeat
  <2> QED BY <2>1, <2>2 DEF HeldOnce
<1> QED BY <1>1, Invariance, PTL

\* An event leaves without a fate of its own only while the harness holds more
\* events for its channel than the depth cap, the one that arrives included.
THEOREM LossBounded == Spec => LostOnlyAtCap
<1>1. IInv /\ [Next]_vars => [LossStep]_vars
  BY StepKeeps
<1>2. [LossStep]_vars =>
        [\A e \in Events : fate[e] # fate'[e] /\ fate'[e] = "overflow" =>
            \E c \in Channels : /\ e \in Load(c)
                                /\ Cardinality(Load(c)) + (received' - received) > MaxPending]_vars
  BY DEF LossStep
<1> QED BY <1>1, <1>2, Invariance, PTL DEF Spec, LostOnlyAtCap


=============================================================================
