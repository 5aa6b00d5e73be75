----------------------------- MODULE Governance -----------------------------
(***************************************************************************)
(* The proposals contract paying from the group treasury.  The treasury's  *)
(* admin is an account: it signs withdraw on its own, and it co-signs the  *)
(* execute_withdraw of a treasury member, whose call into the treasury     *)
(* runs in the same transaction.  MaxProposals bounds the withdraw         *)
(* proposals of the treasury, MaxBallots those of the proposals contract.  *)
(***************************************************************************)
EXTENDS GroupTreasury

CONSTANTS
  MaxBallots,  \* bound: ids of the proposals contract
  MaxBoth      \* bound: proposals of both contracts together

ASSUME GovernanceAssumption == MaxBallots \in Nat /\ MaxBoth \in Nat

VARIABLES
  initialized, nextId, ballots, cast,  \* of Proposals
  paid  \* history: ids execute_withdraw has moved money for, once for each time

proposalVars == <<initialized, nextId, ballots, cast>>
allVars == <<vars, proposalVars, paid>>

Community == INSTANCE Proposals WITH Voters <- Addresses, MaxProposals <- MaxBallots

BothTypeOK ==
  /\ TypeOK
  /\ Community!TypeOK
  /\ paid \in [DOMAIN ballots -> Nat]

BothInit ==
  /\ Init
  /\ Community!Init
  /\ paid = [id \in {} |-> 0]

\* A history variable follows the ids in use.
Payments(ids) == [id \in ids |-> IF id \in DOMAIN paid THEN paid[id] ELSE 0]

\* execute_withdraw: is_member, balance and withdraw of the treasury, then the
\* status; a panic anywhere rolls everything back.
ExecuteWithdraw(caller, id) ==
  /\ caller \in members
  /\ Withdraw(ballots[id].amount)
  /\ Community!Settle(id)
  /\ paid' = [paid EXCEPT ![id] = @ + 1]
  /\ UNCHANGED now

BothNext ==
  \/ Next /\ proposalCount' + nextId <= MaxBoth /\ UNCHANGED <<proposalVars, paid>>
  \/ /\ Community!Call
     /\ proposalCount + nextId' <= MaxBoth
     /\ paid' = Payments(DOMAIN ballots')
     /\ UNCHANGED vars
  \/ \E caller \in Addresses, id \in DOMAIN ballots : ExecuteWithdraw(caller, id)

BothSpec == BothInit /\ [][BothNext]_allVars

-----------------------------------------------------------------------------
(* Safety *)

OutcomeFollowsVotes == Community!OutcomeFollowsVotes

(* Refinement *)

Pool ==
  INSTANCE Fund WITH
    Voters <- Addresses,
    Ids <- 0..(MaxBallots - 1),
    pool <- balance,
    ballots <- [id \in DOMAIN ballots |->
                  [amount |-> ballots[id].amount,
                   for |-> Community!Supporters(id, TRUE),
                   against |-> Community!Supporters(id, FALSE),
                   outcome |-> ballots[id].status]],
    paid <- {id \in DOMAIN ballots : paid[id] > 0}

\* The two contracts implement a pool that pays what a majority carried, once.
ImplementsFund == Pool!Spec

=============================================================================
