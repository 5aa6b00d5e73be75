------------------------------ MODULE Proposals ------------------------------
(***************************************************************************)
(* The proposals contract: anyone proposes to fund something, anyone votes *)
(* until the proposal expires, and then its tally, or its age, decides it. *)
(* The part of execute_withdraw that runs in the treasury contract is left *)
(* to the module Governance.                                               *)
(***************************************************************************)
EXTENDS Integers, FiniteSets

CONSTANTS
  Voters,        \* accounts that vote
  EarlyCalls,    \* calls may reach the contract between deploy and initialize
  MaxProposals,  \* bound: proposals created since initialize
  MaxTime,       \* bound: ledger timestamp
  MaxFunds       \* bound: amount asked for

VARIABLES
  now,          \* env.ledger().timestamp()
  initialized,  \* Admin is set
  nextId,       \* NextProposalId
  ballots,      \* Proposal(id), by id
  cast          \* Vote(id, voter)

proposalVars == <<initialized, nextId, ballots, cast>>

Ballot ==
  [amount : Nat, expiresAt : Nat, yes : Nat, no : Nat,
   status : {"Active", "Passed", "Rejected", "Expired", "Executed"}]
Vote == [id : Nat, voter : Voters, support : BOOLEAN]

TypeOK ==
  /\ initialized \in BOOLEAN
  /\ nextId \in Nat
  /\ DOMAIN ballots \in SUBSET Nat
  /\ ballots \in [DOMAIN ballots -> Ballot]
  /\ cast \in SUBSET Vote

-----------------------------------------------------------------------------
HasVoted(v, id, support) == \E c \in cast : c.id = id /\ c.voter = v

\* finalize_proposal
TiePasses(b) == b.yes >= b.no  \* mutant: off by one
Carried(b) == b.yes > b.no

\* execute_proposal and execute_withdraw
Executable(id) == id \in DOMAIN ballots /\ ballots[id].status = "Passed"

Decide(id, status) == ballots' = [ballots EXCEPT ![id].status = status]

\* What execute_withdraw records once the money has moved
Unmarked(id) == ballots' = ballots  \* mutant: the status is not written back
Marked(id) == Decide(id, "Executed")

-----------------------------------------------------------------------------
Init ==
  /\ initialized = FALSE
  /\ nextId = 0
  /\ ballots = [id \in {} |-> 0]
  /\ cast = {}

\* initialize sets the counter, whatever was created before.
Initialize ==
  /\ ~initialized
  /\ initialized' = TRUE
  /\ nextId' = 0
  /\ UNCHANGED <<ballots, cast>>

\* create_proposal asks for no initialization.
CreateProposal(amount, expiresAt) ==
  /\ initialized \/ EarlyCalls
  /\ amount > 0
  /\ expiresAt > now
  /\ nextId < MaxProposals
  /\ ballots' =
       [id \in DOMAIN ballots \cup {nextId} |->
          IF id = nextId
          THEN [amount |-> amount, expiresAt |-> expiresAt, yes |-> 0, no |-> 0,
                status |-> "Active"]
          ELSE ballots[id]]
  /\ nextId' = nextId + 1
  /\ UNCHANGED <<initialized, cast>>

CastVote(v, id, support) ==
  /\ ballots[id].status = "Active"
  /\ now < ballots[id].expiresAt
  /\ ~HasVoted(v, id, support)
  /\ cast' = cast \cup {[id |-> id, voter |-> v, support |-> support]}
  /\ ballots' = IF support THEN [ballots EXCEPT ![id].yes = @ + 1]
                           ELSE [ballots EXCEPT ![id].no = @ + 1]
  /\ UNCHANGED <<initialized, nextId>>

FinalizeProposal(id) ==
  /\ ballots[id].status = "Active"
  /\ now >= ballots[id].expiresAt
  /\ Decide(id, IF Carried(ballots[id]) THEN "Passed" ELSE "Rejected")
  /\ UNCHANGED <<initialized, nextId, cast>>

\* Without counting: the outcome is Expired even for a majority.
FinalizeExpiredProposal(id) ==
  /\ ballots[id].status = "Active"
  /\ now > ballots[id].expiresAt
  /\ Decide(id, "Expired")
  /\ UNCHANGED <<initialized, nextId, cast>>

\* No money moves: an off-chain observer may act on the event.
ExecuteProposal(id) ==
  /\ Executable(id)
  /\ Decide(id, "Executed")
  /\ UNCHANGED <<initialized, nextId, cast>>

\* This contract's part of execute_withdraw
Settle(id) ==
  /\ Executable(id)
  /\ Marked(id)
  /\ UNCHANGED <<initialized, nextId, cast>>

Call ==
  \/ Initialize
  \/ \E amount \in 1..MaxFunds, expiresAt \in 1..MaxTime : CreateProposal(amount, expiresAt)
  \/ \E id \in DOMAIN ballots :
       \/ \E v \in Voters, support \in BOOLEAN : CastVote(v, id, support)
       \/ FinalizeProposal(id)
       \/ FinalizeExpiredProposal(id)
       \/ ExecuteProposal(id)

-----------------------------------------------------------------------------
Supporters(id, support) ==
  {v \in Voters : [id |-> id, voter |-> v, support |-> support] \in cast}

\* A proposal's tally is the votes recorded under its id, one a voter: no vote
\* of an earlier proposal is under it, and none of its own was lost.
TalliesMatchVotes ==
  /\ \A id \in DOMAIN ballots :
       /\ ballots[id].yes = Cardinality(Supporters(id, TRUE))
       /\ ballots[id].no = Cardinality(Supporters(id, FALSE))
       /\ Supporters(id, TRUE) \cap Supporters(id, FALSE) = {}
  /\ \A c \in cast : c.id \in DOMAIN ballots

\* The outcome is what the recorded votes say, and stays so until and after the
\* money moved: no vote counted late can contradict it.
OutcomeFollowsVotes ==
  \A id \in DOMAIN ballots :
    LET lead == Cardinality(Supporters(id, TRUE)) > Cardinality(Supporters(id, FALSE))
    IN  /\ ballots[id].status \in {"Passed", "Executed"} => lead
        /\ ballots[id].status = "Rejected" => ~lead
        /\ ballots[id].status # "Active" => ballots[id].expiresAt <= now

=============================================================================
