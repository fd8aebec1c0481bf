------------------------------ MODULE ReplyLedger ------------------------------
(***************************************************************************)
(* What the conversation promises about replies, without events, receipts, *)
(* cycles, leases or retries.  Hermes sends a reply only on a grant that    *)
(* was given under the ownership version still in force; there is one grant *)
(* at a time, it is used up by its reply, and a change of owner revokes it. *)
(***************************************************************************)
EXTENDS Integers

CONSTANT Ids  \* grants the conversation can ever give

VARIABLES
  owner,    \* who answers the parent
  version,  \* ownership version; every change of the conditions raises it
  grants,   \* outstanding grants, as <<id, version it was given under>>
  replies   \* replies[i]: version under which grant i was answered, or 0

ledger == <<owner, version, grants, replies>>

Init ==
  /\ owner = "hermes"
  /\ version = 1
  /\ grants = {}
  /\ replies = [i \in Ids |-> 0]

\* A takeover, a resume, a staff command: no grant outlives a change of owner.
Refence ==
  /\ version' = version + 1
  /\ owner' \in {"hermes", "human"}
  /\ grants' \in {{}, grants}
  /\ owner' # owner => grants' = {}
  /\ UNCHANGED replies

Grant(i) ==
  /\ owner = "hermes"
  /\ replies[i] = 0
  /\ grants' = {<<i, version>>}
  /\ UNCHANGED <<owner, version, replies>>

Revoke ==
  /\ grants' = {}
  /\ UNCHANGED <<owner, version, replies>>

Reply(i) ==
  /\ owner = "hermes"
  /\ <<i, version>> \in grants
  /\ grants' = {}
  /\ replies' = [replies EXCEPT ![i] = version]
  /\ \/ UNCHANGED <<owner, version>>
     \/ owner' = "human" /\ version' = version + 1

Next == Refence \/ Revoke \/ \E i \in Ids : Grant(i) \/ Reply(i)

Spec == Init /\ [][Next]_ledger
=============================================================================
