-------------------------------- MODULE Fund --------------------------------
(***************************************************************************)
(* What the two contracts promise a community, without counters, clocks or *)
(* storage: a pool of money and ballots.  The money of a ballot leaves the *)
(* pool once, and only after more accounts supported it than opposed it;   *)
(* whoever administers the pool may spend from it as well.                 *)
(***************************************************************************)
EXTENDS Integers, FiniteSets

CONSTANTS Voters, Ids

VARIABLES
  pool,     \* the balance accounted for
  ballots,  \* id -> what is asked for, who is for and against, the outcome
  paid      \* ids whose money left the pool

vars == <<pool, ballots, paid>>

Outcomes == {"Active", "Passed", "Rejected", "Expired", "Executed"}
Ballot ==
  [amount : Nat, for : SUBSET Voters, against : SUBSET Voters, outcome : Outcomes]

TypeOK ==
  /\ pool \in Nat
  /\ DOMAIN ballots \in SUBSET Ids
  /\ ballots \in [DOMAIN ballots -> Ballot]
  /\ paid \in SUBSET DOMAIN ballots

Init == pool = 0 /\ ballots = [id \in {} |-> 0] /\ paid = {}

Contribute ==
  /\ pool' \in Nat /\ pool' > pool
  /\ UNCHANGED <<ballots, paid>>

Spend ==
  /\ pool' \in Nat /\ pool' < pool
  /\ UNCHANGED <<ballots, paid>>

Open(id) ==
  /\ id \notin DOMAIN ballots
  /\ DOMAIN ballots' = DOMAIN ballots \cup {id}
  /\ ballots'[id].for = {} /\ ballots'[id].against = {}
  /\ ballots'[id].outcome = "Active"
  /\ \A i \in DOMAIN ballots : ballots'[i] = ballots[i]
  /\ UNCHANGED <<pool, paid>>

Support(v, id) ==
  /\ ballots[id].outcome = "Active"
  /\ v \notin ballots[id].for \cup ballots[id].against
  /\ ballots' = [ballots EXCEPT ![id].for = @ \cup {v}]
  /\ UNCHANGED <<pool, paid>>

Oppose(v, id) ==
  /\ ballots[id].outcome = "Active"
  /\ v \notin ballots[id].for \cup ballots[id].against
  /\ ballots' = [ballots EXCEPT ![id].against = @ \cup {v}]
  /\ UNCHANGED <<pool, paid>>

Closes(id, outcome) ==
  /\ ballots[id].outcome = "Active"
  /\ ballots' = [ballots EXCEPT ![id].outcome = outcome]
  /\ UNCHANGED <<pool, paid>>
Pass(id) ==
  Cardinality(ballots[id].for) > Cardinality(ballots[id].against) /\ Closes(id, "Passed")
Reject(id) ==
  Cardinality(ballots[id].for) <= Cardinality(ballots[id].against) /\ Closes(id, "Rejected")
Lapse(id) == Closes(id, "Expired")

\* The money leaves the pool, or is declared to have been paid otherwise.
Release(id) ==
  /\ ballots[id].outcome = "Passed"
  /\ ballots' = [ballots EXCEPT ![id].outcome = "Executed"]
  /\ \/ /\ pool >= ballots[id].amount
        /\ pool' = pool - ballots[id].amount
        /\ paid' = paid \cup {id}
     \/ UNCHANGED <<pool, paid>>

Next ==
  \/ Contribute
  \/ Spend
  \/ \E id \in Ids : Open(id)
  \/ \E id \in DOMAIN ballots :
       \/ \E v \in Voters : Support(v, id) \/ Oppose(v, id)
       \/ Pass(id) \/ Reject(id) \/ Lapse(id) \/ Release(id)

Spec == Init /\ [][Next]_vars

=============================================================================
