---------------------------- MODULE GroupTreasury ----------------------------
(***************************************************************************)
(* The group_treasury contract for one token: the balance it accounts for, *)
(* its members, and the withdraw proposals they vote on.                   *)
(*                                                                         *)
(* A call runs alone and a panic rolls it back, so each entry point is one *)
(* action that is enabled when the call does not panic.  What needs care   *)
(* is what happens between the calls: membership changes under an open     *)
(* vote, the clock runs, and tokens reach the contract's address past it.  *)
(***************************************************************************)
EXTENDS Integers, FiniteSets

CONSTANTS
  Addresses,     \* accounts that may become members
  EarlyCalls,    \* calls may reach the contract between deploy and initialize
  MaxThreshold,  \* bound: threshold given to initialize
  MaxProposals,  \* bound: withdraw proposals created
  MaxTtl,        \* bound: ttl_ledgers
  MaxTime,       \* bound: ledger timestamp, in ledgers of 5 s
  MaxFunds       \* bound: tokens at the contract's address

ASSUME TreasuryAssumption ==
  /\ IsFiniteSet(Addresses)
  /\ EarlyCalls \in BOOLEAN
  /\ {MaxThreshold, MaxProposals, MaxTtl, MaxTime, MaxFunds} \subseteq Nat

VARIABLES
  now,            \* env.ledger().timestamp()
  threshold,      \* Threshold; 0 until initialize has run
  members,        \* Members
  balance,        \* Balances[token]
  held,           \* the token contract's balance of the treasury's address
  proposalCount,  \* ProposalCount: the next id
  withdrawals,    \* Proposal(id), by id
  votes           \* Vote(id, voter)

treasuryVars ==
  <<threshold, members, balance, held, proposalCount, withdrawals, votes>>
vars == <<now, treasuryVars>>

Initialized == threshold # 0

Withdrawal ==
  [amount : Nat, approvals : Nat, rejections : Nat,
   status : {"Active", "Passed", "Rejected"}, expiresAt : Nat]
Vote == [id : Nat, voter : Addresses, approve : BOOLEAN]

TypeOK ==
  /\ now \in Nat
  /\ threshold \in Nat
  /\ members \in SUBSET Addresses
  /\ balance \in Nat
  /\ held \in Nat
  /\ proposalCount \in Nat
  /\ withdrawals \in [0..(proposalCount - 1) -> Withdrawal]
  /\ votes \in SUBSET Vote

-----------------------------------------------------------------------------
HasVoted(m, id) == \E v \in votes : v.id = id /\ v.voter = m

\* require_votable
Votable(m, id) ==
  /\ m \in members
  /\ id \in DOMAIN withdrawals
  /\ withdrawals[id].status = "Active"
  /\ now < withdrawals[id].expiresAt
  /\ ~HasVoted(m, id)

\* approve_withdraw: does this many approvals carry the proposal?
Reaches(approvals) == approvals >= threshold

\* reject_withdraw: member_count.saturating_sub(threshold) + 1
Spare == IF Cardinality(members) >= threshold THEN Cardinality(members) - threshold ELSE 0
SpareOnly == Spare  \* mutant: off by one
BlockingMinority == Spare + 1

\* withdraw: the balance after amount was taken out, and whether it may be
Covers(amount) == balance >= amount
Debited(amount) == balance - amount

-----------------------------------------------------------------------------
Init ==
  /\ now = 0
  /\ threshold = 0
  /\ members = {}
  /\ balance = 0
  /\ held = 0
  /\ proposalCount = 0
  /\ withdrawals = [id \in {} |-> 0]
  /\ votes = {}

\* initialize sets every entry, Balances included, whatever they were.
Initialize(t) ==
  /\ ~Initialized
  /\ t \in 1..MaxThreshold
  /\ threshold' = t
  /\ balance' = 0
  /\ members' = {}
  /\ proposalCount' = 0
  /\ UNCHANGED <<held, withdrawals, votes>>

\* add_member and remove_member, signed by the admin
AddMember(m) ==
  /\ Initialized
  /\ m \notin members
  /\ members' = members \cup {m}
  /\ UNCHANGED <<threshold, balance, held, proposalCount, withdrawals, votes>>

RemoveMember(m) ==
  /\ Initialized
  /\ m \in members
  /\ members' = members \ {m}
  /\ UNCHANGED <<threshold, balance, held, proposalCount, withdrawals, votes>>

\* deposit asks for no initialization.
Deposit(amount) ==
  /\ Initialized \/ EarlyCalls
  /\ amount > 0
  /\ held + amount <= MaxFunds
  /\ held' = held + amount
  /\ balance' = balance + amount
  /\ UNCHANGED <<threshold, members, proposalCount, withdrawals, votes>>

\* Tokens sent to the contract's address without its knowing: transfer of
\* token_transfer, or of the token itself.
DirectTransfer(amount) ==
  /\ amount > 0
  /\ held + amount <= MaxFunds
  /\ held' = held + amount
  /\ UNCHANGED <<threshold, members, balance, proposalCount, withdrawals, votes>>

\* withdraw, signed by the admin; the token contract panics on an overdraft.
Withdraw(amount) ==
  /\ Initialized
  /\ amount > 0
  /\ Covers(amount)
  /\ amount <= held
  /\ held' = held - amount
  /\ balance' = Debited(amount)
  /\ UNCHANGED <<threshold, members, proposalCount, withdrawals, votes>>

\* propose_withdraw: the proposer's approval is recorded with the proposal.
ProposeWithdraw(m, amount, ttl) ==
  /\ m \in members
  /\ amount > 0
  /\ balance >= amount
  /\ proposalCount < MaxProposals
  /\ proposalCount' = proposalCount + 1
  /\ withdrawals' =
       [id \in 0..proposalCount |->
          IF id = proposalCount
          THEN [amount |-> amount, approvals |-> 1, rejections |-> 0,
                status |-> "Active", expiresAt |-> now + ttl]
          ELSE withdrawals[id]]
  /\ votes' = votes \cup {[id |-> proposalCount, voter |-> m, approve |-> TRUE]}
  /\ UNCHANGED <<threshold, members, balance, held>>

ApproveWithdraw(m, id) ==
  /\ Votable(m, id)
  /\ votes' = votes \cup {[id |-> id, voter |-> m, approve |-> TRUE]}
  /\ LET n == withdrawals[id].approvals + 1 IN
       withdrawals' =
         [withdrawals EXCEPT ![id].approvals = n,
                             ![id].status = IF Reaches(n) THEN "Passed" ELSE @]
  /\ UNCHANGED <<threshold, members, balance, held, proposalCount>>

RejectWithdraw(m, id) ==
  /\ Votable(m, id)
  /\ votes' = votes \cup {[id |-> id, voter |-> m, approve |-> FALSE]}
  /\ LET n == withdrawals[id].rejections + 1 IN
       withdrawals' =
         [withdrawals EXCEPT ![id].rejections = n,
                             ![id].status = IF n >= BlockingMinority THEN "Rejected" ELSE @]
  /\ UNCHANGED <<threshold, members, balance, held, proposalCount>>

\* The entry points anybody signs for; withdraw is left to who holds the
\* admin's signature.
Call ==
  \/ \E t \in 1..MaxThreshold : Initialize(t)
  \/ \E m \in Addresses :
       \/ AddMember(m)
       \/ RemoveMember(m)
       \/ \E amount \in 1..MaxFunds, ttl \in 0..MaxTtl : ProposeWithdraw(m, amount, ttl)
       \/ \E id \in DOMAIN withdrawals : ApproveWithdraw(m, id) \/ RejectWithdraw(m, id)
  \/ \E amount \in 1..MaxFunds : Deposit(amount) \/ DirectTransfer(amount)

\* A ledger closes.
Tick == now < MaxTime /\ now' = now + 1

Next ==
  \/ Call /\ UNCHANGED now
  \/ (\E amount \in 1..MaxFunds : Withdraw(amount)) /\ UNCHANGED now
  \/ Tick /\ UNCHANGED treasuryVars

Spec == Init /\ [][Next]_vars

-----------------------------------------------------------------------------
(* Safety *)

VotersFor(id, choice) == {m \in Addresses : [id |-> id, voter |-> m, approve |-> choice] \in votes}
Unvoted(id) == {m \in members : ~HasVoted(m, id)}

\* The counters of a proposal are the votes recorded under it, one a voter,
\* whatever became of the voters' membership (approve_withdraw,
\* reject_withdraw, propose_withdraw).
TalliesMatchVotes ==
  /\ \A id \in DOMAIN withdrawals :
       /\ withdrawals[id].approvals = Cardinality(VotersFor(id, TRUE))
       /\ withdrawals[id].rejections = Cardinality(VotersFor(id, FALSE))
       /\ VotersFor(id, TRUE) \cap VotersFor(id, FALSE) = {}
  /\ \A v \in votes : v.id \in DOMAIN withdrawals

\* With a threshold the proposer's own approval does not reach, a proposal has
\* Passed exactly when its approvals reach the threshold: none is carried with
\* less, left open with enough, or rejected after it had enough.
PassedAtThreshold ==
  \A id \in DOMAIN withdrawals :
    threshold > 1 =>
      (withdrawals[id].status = "Passed" <=> withdrawals[id].approvals >= threshold)

\* A decision is final: neither the proposal nor a vote under it changes again.
DecisionsFinal ==
  [][\A id \in DOMAIN withdrawals :
       withdrawals[id].status # "Active" =>
         /\ withdrawals'[id] = withdrawals[id]
         /\ {v \in votes' : v.id = id} = {v \in votes : v.id = id}]_vars

\* A rejecting vote closes a proposal exactly when the members yet to vote can
\* no longer carry it, provided that everybody who voted is still a member
\* (the blocking minority of reject_withdraw).
RejectionExact ==
  [][\A id \in DOMAIN withdrawals :
       /\ withdrawals'[id].rejections > withdrawals[id].rejections
       /\ VotersFor(id, TRUE) \cup VotersFor(id, FALSE) \subseteq members
       => (withdrawals'[id].status = "Rejected" <=>
             withdrawals[id].approvals + Cardinality(Unvoted(id)') < threshold)]_vars

\* The treasury never accounts for tokens it does not hold, so a withdrawal the
\* balance covers is never refused by the token contract.
BalanceBacked == balance <= held

=============================================================================
