--------------------------- MODULE Governance_proofs ---------------------------
(***************************************************************************)
(* What the two contracts keep for every set of accounts and every bound.  *)
(*                                                                         *)
(* First the treasury by itself (IInv).  The tallies are the heart of it:  *)
(* a proposal's status is computed from its counters, so that it follows   *)
(* the votes rests on the counters being the votes.  Fresh is needed for   *)
(* initialize alone, which resets the proposal counter: nothing can have   *)
(* been proposed before it.                                                *)
(*                                                                         *)
(* Then both together.  The proposals contract withdraws amounts anybody   *)
(* could have asked for (AskInv), so the treasury stays the treasury.  Its *)
(* own ballots need more (BallotInv): ids handed out in order, counters    *)
(* that are the votes, an outcome only after the expiry.  Its initialize   *)
(* resets the id counter as well, but create_proposal does not wait for    *)
(* it; those theorems assume that no call came before initialize.          *)
(***************************************************************************)
EXTENDS Governance, FiniteSetTheorems, TLAPS

Fresh == ~Initialized => members = {} /\ proposalCount = 0

IInv ==
  /\ TypeOK
  /\ Fresh
  /\ TalliesMatchVotes
  /\ PassedAtThreshold
  /\ BalanceBacked

-----------------------------------------------------------------------------
(* Sets of voters *)

\* The voters of a proposal are accounts, so there are finitely many.
LEMMA VotersFinite ==
  ASSUME NEW id, NEW choice
  PROVE  /\ IsFiniteSet(VotersFor(id, choice))
         /\ Cardinality(VotersFor(id, choice)) \in Nat
<1>1. VotersFor(id, choice) \subseteq Addresses
  BY DEF VotersFor
<1>2. IsFiniteSet(VotersFor(id, choice))
  BY <1>1, FS_Subset, TreasuryAssumption DEF TreasuryAssumption
<1> QED BY <1>2, FS_CardinalityType

\* A recorded vote adds its voter to one set of voters and leaves the others.
LEMMA VoteRecorded ==
  ASSUME NEW m \in Addresses, NEW i, NEW c \in BOOLEAN,
         votes' = votes \cup {[id |-> i, voter |-> m, approve |-> c]}
  PROVE  /\ VotersFor(i, c)' = VotersFor(i, c) \cup {m}
         /\ \A j, d : j # i \/ d # c => VotersFor(j, d)' = VotersFor(j, d)
<1> DEFINE new == [id |-> i, voter |-> m, approve |-> c]
<1>1. ASSUME NEW j, NEW d, NEW a
      PROVE  [id |-> j, voter |-> a, approve |-> d] = new <=> j = i /\ a = m /\ d = c
  OBVIOUS
<1>2. VotersFor(i, c)' = VotersFor(i, c) \cup {m}
  BY <1>1 DEF VotersFor
<1>3. ASSUME NEW j, NEW d, j # i \/ d # c
      PROVE  VotersFor(j, d)' = VotersFor(j, d)
  BY <1>1, <1>3 DEF VotersFor
<1> QED BY <1>2, <1>3

\* A set of voters depends on nothing but the votes.
LEMMA VotersUnchanged ==
  ASSUME votes' = votes, NEW id, NEW choice
  PROVE  VotersFor(id, choice)' = VotersFor(id, choice)
BY DEF VotersFor

\* Counting a voter who had not voted yet.
LEMMA OneMoreVoter ==
  ASSUME NEW i, NEW c, NEW m, m \notin VotersFor(i, c)
  PROVE  Cardinality(VotersFor(i, c) \cup {m}) = Cardinality(VotersFor(i, c)) + 1
BY VotersFinite, FS_AddElement

\* require_votable leaves no vote of this account under this proposal.
LEMMA VotableHasNoVote ==
  ASSUME NEW m, NEW i, ~HasVoted(m, i)
  PROVE  \A c : m \notin VotersFor(i, c)
BY DEF HasVoted, VotersFor

-----------------------------------------------------------------------------
(* The invariant is inductive. *)

LEMMA InitIInv == Init => IInv
<1> SUFFICES ASSUME Init PROVE IInv
  OBVIOUS
<1>1. TypeOK
  BY DEF Init, TypeOK
<1>2. Fresh /\ TalliesMatchVotes /\ PassedAtThreshold /\ BalanceBacked
  BY DEF Init, Fresh, TalliesMatchVotes, PassedAtThreshold, BalanceBacked
<1> QED BY <1>1, <1>2 DEF IInv

\* A call that leaves the proposals and the votes alone leaves what is said
\* about them alone.
LEMMA VotesUntouched ==
  ASSUME IInv, UNCHANGED <<threshold, proposalCount, withdrawals, votes>>
  PROVE  TalliesMatchVotes' /\ PassedAtThreshold'
<1>1. \A id, choice : VotersFor(id, choice)' = VotersFor(id, choice)
  BY VotersUnchanged
<1> QED BY <1>1 DEF IInv, TalliesMatchVotes, PassedAtThreshold

LEMMA InitializeStep ==
  ASSUME IInv, NEW t \in 1..MaxThreshold, Initialize(t), UNCHANGED now
  PROVE  IInv'
<1>1. DOMAIN withdrawals = {} /\ proposalCount = 0
  BY DEF IInv, Fresh, TypeOK, Initialize
<1>2. TypeOK'
  BY <1>1, TreasuryAssumption DEF IInv, TypeOK, Initialize, TreasuryAssumption
<1>3. Fresh' /\ BalanceBacked'
  BY DEF IInv, TypeOK, Fresh, Initialize, Initialized, BalanceBacked
<1>4. TalliesMatchVotes' /\ PassedAtThreshold'
  BY <1>1 DEF IInv, TalliesMatchVotes, PassedAtThreshold, Initialize
<1> QED BY <1>2, <1>3, <1>4 DEF IInv

LEMMA MembershipStep ==
  ASSUME IInv, NEW m \in Addresses, AddMember(m) \/ RemoveMember(m), UNCHANGED now
  PROVE  IInv'
<1>1. TypeOK'
  BY DEF IInv, TypeOK, AddMember, RemoveMember
<1>2. Fresh' /\ BalanceBacked'
  BY DEF IInv, Fresh, BalanceBacked, Initialized, AddMember, RemoveMember
<1>3. TalliesMatchVotes' /\ PassedAtThreshold'
  BY VotesUntouched DEF AddMember, RemoveMember
<1> QED BY <1>1, <1>2, <1>3 DEF IInv

LEMMA FundsStep ==
  ASSUME IInv, NEW amount \in 1..MaxFunds,
         Deposit(amount) \/ DirectTransfer(amount) \/ Withdraw(amount), UNCHANGED now
  PROVE  IInv'
<1>0. amount \in Nat
  BY TreasuryAssumption DEF TreasuryAssumption
<1>1. TypeOK'
  BY <1>0 DEF IInv, TypeOK, Deposit, DirectTransfer, Withdraw, Covers, Debited
<1>2. Fresh' /\ BalanceBacked'
  BY <1>0 DEF IInv, TypeOK, Fresh, BalanceBacked, Initialized,
              Deposit, DirectTransfer, Withdraw, Covers, Debited
<1>3. TalliesMatchVotes' /\ PassedAtThreshold'
  BY VotesUntouched DEF Deposit, DirectTransfer, Withdraw
<1> QED BY <1>1, <1>2, <1>3 DEF IInv

LEMMA ProposeStep ==
  ASSUME IInv, NEW m \in Addresses, NEW amount \in 1..MaxFunds, NEW ttl \in 0..MaxTtl,
         ProposeWithdraw(m, amount, ttl), UNCHANGED now
  PROVE  IInv'
<1>a. PICK id0 : id0 = proposalCount
  OBVIOUS
<1> DEFINE new == [amount |-> amount, approvals |-> 1, rejections |-> 0,
                   status |-> "Active", expiresAt |-> now + ttl]
<1>0. amount \in Nat /\ ttl \in Nat
  BY TreasuryAssumption DEF TreasuryAssumption
<1>1. /\ id0 \in Nat /\ id0 \notin DOMAIN withdrawals
      /\ DOMAIN withdrawals' = DOMAIN withdrawals \cup {id0}
      /\ withdrawals'[id0] = new
      /\ \A id \in DOMAIN withdrawals : withdrawals'[id] = withdrawals[id]
  <2>1. id0 \in Nat /\ DOMAIN withdrawals = 0..(id0 - 1)
    BY <1>a DEF IInv, TypeOK
  <2>2. withdrawals' = [id \in 0..id0 |-> IF id = id0 THEN new ELSE withdrawals[id]]
    BY <1>a DEF ProposeWithdraw
  <2>3. 0..id0 = (0..(id0 - 1)) \cup {id0} /\ id0 \notin 0..(id0 - 1)
    BY <2>1
  <2> HIDE DEF new
  <2> QED BY <2>1, <2>2, <2>3
<1>2. TypeOK'
  <2>1. new \in Withdrawal
    BY <1>0 DEF IInv, TypeOK, Withdrawal
  <2>2. [id |-> id0, voter |-> m, approve |-> TRUE] \in Vote
    BY <1>1 DEF Vote
  <2>3. withdrawals' \in [0..(proposalCount' - 1) -> Withdrawal]
    <3>1. withdrawals' = [id \in 0..id0 |-> IF id = id0 THEN new ELSE withdrawals[id]]
      BY <1>a DEF ProposeWithdraw
    <3>2. proposalCount' - 1 = id0 /\ id0 \in Nat
      BY <1>a, <1>1 DEF ProposeWithdraw
    <3>3. withdrawals \in [0..(id0 - 1) -> Withdrawal]
      BY <1>a DEF IInv, TypeOK
    <3> HIDE DEF new
    <3> QED BY <2>1, <3>1, <3>2, <3>3
  <2>4. votes' \in SUBSET Vote
    BY <1>a, <2>2 DEF IInv, TypeOK, ProposeWithdraw
  <2> QED BY <2>3, <2>4 DEF IInv, TypeOK, ProposeWithdraw
<1>3. Fresh' /\ BalanceBacked'
  BY DEF IInv, Fresh, BalanceBacked, Initialized, ProposeWithdraw
<1>4. /\ VotersFor(id0, TRUE)' = VotersFor(id0, TRUE) \cup {m}
      /\ VotersFor(id0, FALSE)' = VotersFor(id0, FALSE)
      /\ \A j, d : j # id0 => VotersFor(j, d)' = VotersFor(j, d)
  <2>1. votes' = votes \cup {[id |-> id0, voter |-> m, approve |-> TRUE]}
    BY <1>a DEF ProposeWithdraw
  <2>2. /\ VotersFor(id0, TRUE)' = VotersFor(id0, TRUE) \cup {m}
        /\ \A j, d : j # id0 \/ d # TRUE => VotersFor(j, d)' = VotersFor(j, d)
    <3> HIDE DEF new
    <3>1. VotersFor(id0, TRUE)' = VotersFor(id0, TRUE) \cup {m}
      BY <2>1, VoteRecorded
    <3>2. ASSUME NEW j, NEW d, j # id0 \/ d # TRUE
          PROVE  VotersFor(j, d)' = VotersFor(j, d)
      <4>1. \A a : [id |-> j, voter |-> a, approve |-> d]
                     # [id |-> id0, voter |-> m, approve |-> TRUE]
        BY <3>2
      <4> QED BY <2>1, <4>1 DEF VotersFor
    <3> QED BY <3>1, <3>2
  <2> QED BY <2>2
<1>5. VotersFor(id0, TRUE) = {} /\ VotersFor(id0, FALSE) = {}
  BY <1>1 DEF IInv, TalliesMatchVotes, VotersFor
<1>6. TalliesMatchVotes'
  <2>1. Cardinality(VotersFor(id0, TRUE)') = 1 /\ Cardinality(VotersFor(id0, FALSE)') = 0
    <3>1. VotersFor(id0, TRUE)' = {m} /\ VotersFor(id0, FALSE)' = {}
      BY <1>4, <1>5
    <3>2. Cardinality({m}) = 1
      BY FS_Singleton
    <3>3. Cardinality({}) = 0
      BY FS_EmptySet
    <3> QED BY ONLY <3>1, <3>2, <3>3
  <2>2. ASSUME NEW id \in DOMAIN withdrawals'
        PROVE  /\ withdrawals'[id].approvals = Cardinality(VotersFor(id, TRUE)')
               /\ withdrawals'[id].rejections = Cardinality(VotersFor(id, FALSE)')
               /\ VotersFor(id, TRUE)' \cap VotersFor(id, FALSE)' = {}
    <3>1. CASE id = id0
      <4>1. withdrawals'[id0].approvals = 1 /\ withdrawals'[id0].rejections = 0
        BY <1>1
      <4>2. VotersFor(id0, TRUE)' \cap VotersFor(id0, FALSE)' = {}
        BY <1>4, <1>5
      <4> QED BY <3>1, <4>1, <4>2, <2>1
    <3>2. CASE id # id0
      BY <3>2, <1>1, <1>4 DEF IInv, TalliesMatchVotes
    <3> QED BY <3>1, <3>2
  <2>3. \A v \in votes' : v.id \in DOMAIN withdrawals'
    BY <1>a, <1>1 DEF IInv, TalliesMatchVotes, ProposeWithdraw
  <2> QED BY <2>2, <2>3 DEF TalliesMatchVotes
<1>7. PassedAtThreshold'
  BY <1>1 DEF IInv, TypeOK, PassedAtThreshold, ProposeWithdraw
<1> QED BY <1>2, <1>3, <1>6, <1>7 DEF IInv

\* Counting a vote where it is recorded keeps the tallies the votes.
LEMMA CountedVote ==
  ASSUME IInv, NEW m \in Addresses, NEW i \in DOMAIN withdrawals, NEW c \in BOOLEAN,
         ~HasVoted(m, i),
         votes' = votes \cup {[id |-> i, voter |-> m, approve |-> c]},
         DOMAIN withdrawals' = DOMAIN withdrawals,
         withdrawals'[i].approvals = withdrawals[i].approvals + (IF c THEN 1 ELSE 0),
         withdrawals'[i].rejections = withdrawals[i].rejections + (IF c THEN 0 ELSE 1),
         \A id \in DOMAIN withdrawals : id # i => withdrawals'[id] = withdrawals[id]
  PROVE  TalliesMatchVotes'
<1>1. /\ VotersFor(i, c)' = VotersFor(i, c) \cup {m}
      /\ \A j, d : j # i \/ d # c => VotersFor(j, d)' = VotersFor(j, d)
  BY VoteRecorded
<1>2. \A d : m \notin VotersFor(i, d)
  BY VotableHasNoVote
<1>3. Cardinality(VotersFor(i, c)') = Cardinality(VotersFor(i, c)) + 1
  BY <1>1, <1>2, OneMoreVoter
<1>4. /\ withdrawals[i].approvals = Cardinality(VotersFor(i, TRUE))
      /\ withdrawals[i].rejections = Cardinality(VotersFor(i, FALSE))
      /\ VotersFor(i, TRUE) \cap VotersFor(i, FALSE) = {}
      /\ Cardinality(VotersFor(i, TRUE)) \in Nat /\ Cardinality(VotersFor(i, FALSE)) \in Nat
  BY VotersFinite DEF IInv, TalliesMatchVotes
<1>5. /\ withdrawals'[i].approvals = Cardinality(VotersFor(i, TRUE)')
      /\ withdrawals'[i].rejections = Cardinality(VotersFor(i, FALSE)')
      /\ VotersFor(i, TRUE)' \cap VotersFor(i, FALSE)' = {}
  <2>1. CASE c = TRUE
    <3>1. /\ VotersFor(i, TRUE)' = VotersFor(i, TRUE) \cup {m}
          /\ VotersFor(i, FALSE)' = VotersFor(i, FALSE)
      BY <2>1, <1>1
    <3>2. /\ withdrawals'[i].approvals = withdrawals[i].approvals + 1
          /\ withdrawals'[i].rejections = withdrawals[i].rejections + 0
          /\ Cardinality(VotersFor(i, TRUE)') = Cardinality(VotersFor(i, TRUE)) + 1
      BY <2>1, <1>3
    <3>3. VotersFor(i, TRUE)' \cap VotersFor(i, FALSE)' = {}
      BY <3>1, <1>2, <1>4
    <3>4. withdrawals'[i].approvals = Cardinality(VotersFor(i, TRUE)')
      BY <3>1, <3>2, <1>4
    <3>5. withdrawals'[i].rejections = Cardinality(VotersFor(i, FALSE)')
      <4>0. withdrawals[i].rejections \in Nat
        BY <1>4
      <4>1. withdrawals'[i].rejections = withdrawals[i].rejections
        BY <3>2, <4>0
      <4> QED BY <4>1, <3>1, <1>4
    <3> QED BY <3>3, <3>4, <3>5
  <2>2. CASE c = FALSE
    <3>1. /\ VotersFor(i, FALSE)' = VotersFor(i, FALSE) \cup {m}
          /\ VotersFor(i, TRUE)' = VotersFor(i, TRUE)
      BY <2>2, <1>1
    <3>2. /\ withdrawals'[i].approvals = withdrawals[i].approvals + 0
          /\ withdrawals'[i].rejections = withdrawals[i].rejections + 1
          /\ Cardinality(VotersFor(i, FALSE)') = Cardinality(VotersFor(i, FALSE)) + 1
      BY <2>2, <1>3
    <3>3. VotersFor(i, TRUE)' \cap VotersFor(i, FALSE)' = {}
      BY <3>1, <1>2, <1>4
    <3>4. withdrawals'[i].approvals = Cardinality(VotersFor(i, TRUE)')
      <4>0. withdrawals[i].approvals \in Nat
        BY <1>4
      <4>1. withdrawals'[i].approvals = withdrawals[i].approvals
        BY <3>2, <4>0
      <4> QED BY <4>1, <3>1, <1>4
    <3>5. withdrawals'[i].rejections = Cardinality(VotersFor(i, FALSE)')
      BY <3>1, <3>2, <1>4
    <3> QED BY <3>3, <3>4, <3>5
  <2> QED BY <2>1, <2>2
<1>6. ASSUME NEW id \in DOMAIN withdrawals', id # i
      PROVE  /\ withdrawals'[id].approvals = Cardinality(VotersFor(id, TRUE)')
             /\ withdrawals'[id].rejections = Cardinality(VotersFor(id, FALSE)')
             /\ VotersFor(id, TRUE)' \cap VotersFor(id, FALSE)' = {}
  <2>1. VotersFor(id, TRUE)' = VotersFor(id, TRUE) /\ VotersFor(id, FALSE)' = VotersFor(id, FALSE)
    BY <1>6, <1>1
  <2> QED BY <1>6, <2>1 DEF IInv, TalliesMatchVotes
<1>7. \A v \in votes' : v.id \in DOMAIN withdrawals'
  BY DEF IInv, TalliesMatchVotes
<1>8. ASSUME NEW id \in DOMAIN withdrawals'
      PROVE  /\ withdrawals'[id].approvals = Cardinality(VotersFor(id, TRUE)')
             /\ withdrawals'[id].rejections = Cardinality(VotersFor(id, FALSE)')
             /\ VotersFor(id, TRUE)' \cap VotersFor(id, FALSE)' = {}
  <2>1. CASE id = i
    BY <2>1, <1>5
  <2>2. CASE id # i
    BY <2>2, <1>6
  <2> QED BY <2>1, <2>2
<1> QED BY <1>7, <1>8 DEF TalliesMatchVotes

LEMMA ApproveStep ==
  ASSUME IInv, NEW m \in Addresses, NEW i \in DOMAIN withdrawals,
         ApproveWithdraw(m, i), UNCHANGED now
  PROVE  IInv'
<1> DEFINE n == withdrawals[i].approvals + 1
           w == [withdrawals[i] EXCEPT !.approvals = n,
                                       !.status = IF n >= threshold THEN "Passed" ELSE @]
<1>1. /\ withdrawals \in [0..(proposalCount - 1) -> Withdrawal]
      /\ withdrawals[i] \in Withdrawal /\ threshold \in Nat
  BY DEF IInv, TypeOK
<1>2. /\ withdrawals' = [withdrawals EXCEPT ![i] = w]
      /\ UNCHANGED <<threshold, members, balance, held, proposalCount>>
  BY <1>1 DEF ApproveWithdraw, Reaches
<1>3. /\ w \in Withdrawal
      /\ w.approvals = n /\ w.rejections = withdrawals[i].rejections
      /\ w.status = IF n >= threshold THEN "Passed" ELSE withdrawals[i].status
  <2>1. n \in Nat
    BY <1>1 DEF Withdrawal
  <2>2. CASE n >= threshold
    BY <2>1, <2>2, <1>1 DEF Withdrawal
  <2>3. CASE ~(n >= threshold)
    BY <2>1, <2>3, <1>1 DEF Withdrawal
  <2> QED BY <2>2, <2>3
<1> HIDE DEF w
<1>4. /\ DOMAIN withdrawals' = DOMAIN withdrawals
      /\ withdrawals'[i] = w
      /\ \A id \in DOMAIN withdrawals : id # i => withdrawals'[id] = withdrawals[id]
  BY <1>1, <1>2
<1>5. TypeOK'
  <2>1. votes' \in SUBSET Vote
    <3>1. i \in Nat
      BY <1>1 DEF IInv, TypeOK
    <3>2. [id |-> i, voter |-> m, approve |-> TRUE] \in Vote
      BY <3>1 DEF Vote
    <3> QED BY <3>2 DEF IInv, TypeOK, ApproveWithdraw
  <2>2. withdrawals' \in [0..(proposalCount' - 1) -> Withdrawal]
    BY <1>1, <1>2, <1>3
  <2> QED BY <1>2, <2>1, <2>2 DEF IInv, TypeOK
<1>6. Fresh' /\ BalanceBacked'
  BY <1>2 DEF IInv, Fresh, Initialized, BalanceBacked
<1>7. TalliesMatchVotes'
  <2>1. /\ withdrawals'[i].approvals = withdrawals[i].approvals + 1
        /\ withdrawals'[i].rejections = withdrawals[i].rejections + 0
    BY <1>1, <1>3, <1>4 DEF Withdrawal
  <2>2. ~HasVoted(m, i) /\ votes' = votes \cup {[id |-> i, voter |-> m, approve |-> TRUE]}
    BY DEF ApproveWithdraw, Votable
  <2> QED BY <2>1, <2>2, <1>4, CountedVote
<1>8. PassedAtThreshold'
  <2>1. withdrawals[i].status = "Active"
    BY DEF ApproveWithdraw, Votable
  <2> QED BY <2>1, <1>1, <1>2, <1>3, <1>4 DEF IInv, PassedAtThreshold
<1> QED BY <1>5, <1>6, <1>7, <1>8 DEF IInv

LEMMA RejectStep ==
  ASSUME IInv, NEW m \in Addresses, NEW i \in DOMAIN withdrawals,
         RejectWithdraw(m, i), UNCHANGED now
  PROVE  IInv'
<1> DEFINE n == withdrawals[i].rejections + 1
           w == [withdrawals[i] EXCEPT !.rejections = n,
                                       !.status = IF n >= BlockingMinority THEN "Rejected" ELSE @]
<1>1. /\ withdrawals \in [0..(proposalCount - 1) -> Withdrawal]
      /\ withdrawals[i] \in Withdrawal /\ threshold \in Nat
  BY DEF IInv, TypeOK
<1>2. /\ withdrawals' = [withdrawals EXCEPT ![i] = w]
      /\ UNCHANGED <<threshold, members, balance, held, proposalCount>>
  BY <1>1 DEF RejectWithdraw
<1>3. /\ w \in Withdrawal
      /\ w.rejections = n /\ w.approvals = withdrawals[i].approvals
      /\ w.status \in {"Rejected", withdrawals[i].status}
  <2>1. n \in Nat
    BY <1>1 DEF Withdrawal
  <2>2. CASE n >= BlockingMinority
    BY <2>1, <2>2, <1>1 DEF Withdrawal
  <2>3. CASE ~(n >= BlockingMinority)
    BY <2>1, <2>3, <1>1 DEF Withdrawal
  <2> QED BY <2>2, <2>3
<1> HIDE DEF w
<1>4. /\ DOMAIN withdrawals' = DOMAIN withdrawals
      /\ withdrawals'[i] = w
      /\ \A id \in DOMAIN withdrawals : id # i => withdrawals'[id] = withdrawals[id]
  BY <1>1, <1>2
<1>5. TypeOK'
  <2>1. votes' \in SUBSET Vote
    <3>1. i \in Nat
      BY <1>1 DEF IInv, TypeOK
    <3>2. [id |-> i, voter |-> m, approve |-> FALSE] \in Vote
      BY <3>1 DEF Vote
    <3> QED BY <3>2 DEF IInv, TypeOK, RejectWithdraw
  <2>2. withdrawals' \in [0..(proposalCount' - 1) -> Withdrawal]
    BY <1>1, <1>2, <1>3
  <2> QED BY <1>2, <2>1, <2>2 DEF IInv, TypeOK
<1>6. Fresh' /\ BalanceBacked'
  BY <1>2 DEF IInv, Fresh, Initialized, BalanceBacked
<1>7. TalliesMatchVotes'
  <2>1. /\ withdrawals'[i].approvals = withdrawals[i].approvals + 0
        /\ withdrawals'[i].rejections = withdrawals[i].rejections + 1
    BY <1>1, <1>3, <1>4 DEF Withdrawal
  <2>2. ~HasVoted(m, i) /\ votes' = votes \cup {[id |-> i, voter |-> m, approve |-> FALSE]}
    BY DEF RejectWithdraw, Votable
  <2> QED BY <2>1, <2>2, <1>4, CountedVote
<1>8. PassedAtThreshold'
  <2>1. withdrawals[i].status = "Active"
    BY DEF RejectWithdraw, Votable
  <2> QED BY <2>1, <1>1, <1>2, <1>3, <1>4 DEF IInv, PassedAtThreshold
<1> QED BY <1>5, <1>6, <1>7, <1>8 DEF IInv

LEMMA TickStep ==
  ASSUME IInv, Tick, UNCHANGED treasuryVars
  PROVE  IInv'
<1>1. TypeOK' /\ Fresh' /\ BalanceBacked'
  BY DEF IInv, TypeOK, Fresh, Initialized, BalanceBacked, Tick, treasuryVars
<1>2. TalliesMatchVotes' /\ PassedAtThreshold'
  BY VotesUntouched DEF treasuryVars
<1> QED BY <1>1, <1>2 DEF IInv

LEMMA NextIInv == IInv /\ [Next]_vars => IInv'
<1> SUFFICES ASSUME IInv, [Next]_vars PROVE IInv'
  OBVIOUS
<1>1. ASSUME Call, UNCHANGED now PROVE IInv'
  <2>1. ASSUME NEW t \in 1..MaxThreshold, Initialize(t) PROVE IInv'
    BY <1>1, <2>1, InitializeStep
  <2>2. ASSUME NEW m \in Addresses, AddMember(m) \/ RemoveMember(m) PROVE IInv'
    BY <1>1, <2>2, MembershipStep
  <2>3. ASSUME NEW m \in Addresses, NEW amount \in 1..MaxFunds, NEW ttl \in 0..MaxTtl,
               ProposeWithdraw(m, amount, ttl)
        PROVE  IInv'
    BY <1>1, <2>3, ProposeStep
  <2>4. ASSUME NEW m \in Addresses, NEW id \in DOMAIN withdrawals, ApproveWithdraw(m, id)
        PROVE  IInv'
    BY <1>1, <2>4, ApproveStep
  <2>5. ASSUME NEW m \in Addresses, NEW id \in DOMAIN withdrawals, RejectWithdraw(m, id)
        PROVE  IInv'
    BY <1>1, <2>5, RejectStep
  <2>6. ASSUME NEW amount \in 1..MaxFunds, Deposit(amount) \/ DirectTransfer(amount)
        PROVE  IInv'
    BY <1>1, <2>6, FundsStep
  <2> QED BY <1>1, <2>1, <2>2, <2>3, <2>4, <2>5, <2>6 DEF Call
<1>2. ASSUME NEW amount \in 1..MaxFunds, Withdraw(amount), UNCHANGED now PROVE IInv'
  BY <1>2, FundsStep
<1>3. ASSUME Tick, UNCHANGED treasuryVars PROVE IInv'
  BY <1>3, TickStep
<1>4. ASSUME UNCHANGED vars PROVE IInv'
  <2>1. TypeOK' /\ Fresh' /\ BalanceBacked'
    BY <1>4 DEF IInv, TypeOK, Fresh, Initialized, BalanceBacked, vars, treasuryVars
  <2>2. TalliesMatchVotes' /\ PassedAtThreshold'
    BY <1>4, VotesUntouched DEF vars, treasuryVars
  <2> QED BY <2>1, <2>2 DEF IInv
<1> QED BY <1>1, <1>2, <1>3, <1>4 DEF Next

LEMMA SpecIInv == Spec => []IInv
BY InitIInv, NextIInv, PTL DEF Spec

-----------------------------------------------------------------------------
(* The invariants *)

\* Every call leaves the contract's entries what they should be.
THEOREM TypeCorrect == Spec => []TypeOK
BY SpecIInv, PTL DEF IInv

\* The counters of a withdraw proposal are the votes recorded under it.
THEOREM Tallied == Spec => []TalliesMatchVotes
BY SpecIInv, PTL DEF IInv

\* A withdraw proposal has Passed exactly when enough voters approved it.
THEOREM PassedExactly == Spec => []PassedAtThreshold
BY SpecIInv, PTL DEF IInv

\* The treasury holds every token it accounts for.
THEOREM Backed == Spec => []BalanceBacked
BY SpecIInv, PTL DEF IInv

-----------------------------------------------------------------------------
(* What a step may not do to a decided proposal *)

\* A vote changes the proposal it is under and no other.
LEMMA VoteTouchesOne ==
  ASSUME IInv, NEW m \in Addresses, NEW i \in DOMAIN withdrawals,
         ApproveWithdraw(m, i) \/ RejectWithdraw(m, i),
         NEW id \in DOMAIN withdrawals, id # i
  PROVE  /\ withdrawals'[id] = withdrawals[id]
         /\ {v \in votes' : v.id = id} = {v \in votes : v.id = id}
<1>1. withdrawals \in [0..(proposalCount - 1) -> Withdrawal]
  BY DEF IInv, TypeOK
<1>2. withdrawals'[id] = withdrawals[id]
  BY <1>1 DEF ApproveWithdraw, RejectWithdraw
<1>3. PICK c : votes' = votes \cup {[id |-> i, voter |-> m, approve |-> c]}
  BY DEF ApproveWithdraw, RejectWithdraw
<1>4. {v \in votes' : v.id = id} = {v \in votes : v.id = id}
  BY <1>3
<1> QED BY <1>2, <1>4

\* A new proposal touches none of the others.
LEMMA ProposeTouchesNone ==
  ASSUME IInv, NEW m, NEW amount, NEW ttl, ProposeWithdraw(m, amount, ttl),
         NEW id \in DOMAIN withdrawals
  PROVE  /\ withdrawals'[id] = withdrawals[id]
         /\ {v \in votes' : v.id = id} = {v \in votes : v.id = id}
<1>1. proposalCount \in Nat /\ DOMAIN withdrawals = 0..(proposalCount - 1)
  BY DEF IInv, TypeOK
<1>2. id # proposalCount /\ id \in 0..proposalCount
  BY <1>1
<1>3. withdrawals'[id] = withdrawals[id]
  BY <1>2 DEF ProposeWithdraw
<1>4. {v \in votes' : v.id = id} = {v \in votes : v.id = id}
  BY <1>2 DEF ProposeWithdraw
<1> QED BY <1>3, <1>4

\* Once decided, a withdraw proposal and the votes under it stay as they are.
THEOREM DecidedForGood == Spec => DecisionsFinal
<1> DEFINE Kept(id) == /\ withdrawals'[id] = withdrawals[id]
                       /\ {v \in votes' : v.id = id} = {v \in votes : v.id = id}
           Final == \A id \in DOMAIN withdrawals :
                      withdrawals[id].status # "Active" => Kept(id)
<1>1. IInv /\ [Next]_vars => [Final]_vars
  <2> SUFFICES ASSUME IInv, Next, NEW id \in DOMAIN withdrawals,
                      withdrawals[id].status # "Active"
               PROVE  Kept(id)
    OBVIOUS
  <2>1. ASSUME UNCHANGED <<withdrawals, votes>> PROVE Kept(id)
    BY <2>1
  <2>2. ASSUME NEW m \in Addresses, NEW i \in DOMAIN withdrawals,
               ApproveWithdraw(m, i) \/ RejectWithdraw(m, i)
        PROVE  Kept(id)
    <3>1. id # i
      BY <2>2 DEF ApproveWithdraw, RejectWithdraw, Votable
    <3> QED BY <2>2, <3>1, VoteTouchesOne
  <2>3. ASSUME NEW m \in Addresses, NEW amount, NEW ttl, ProposeWithdraw(m, amount, ttl)
        PROVE  Kept(id)
    BY <2>3, ProposeTouchesNone
  <2>4. ASSUME NEW t, Initialize(t) PROVE Kept(id)
    BY <2>1, <2>4 DEF Initialize
  <2>5. ASSUME NEW m, AddMember(m) \/ RemoveMember(m) PROVE Kept(id)
    BY <2>1, <2>5 DEF AddMember, RemoveMember
  <2>6. ASSUME NEW amount, Deposit(amount) \/ DirectTransfer(amount) \/ Withdraw(amount)
        PROVE  Kept(id)
    BY <2>1, <2>6 DEF Deposit, DirectTransfer, Withdraw
  <2>7. ASSUME UNCHANGED treasuryVars PROVE Kept(id)
    BY <2>1, <2>7 DEF treasuryVars
  <2> HIDE DEF Kept
  <2> QED BY <2>2, <2>3, <2>4, <2>5, <2>6, <2>7 DEF Next, Call
<1> QED BY <1>1, SpecIInv, PTL DEF Spec, DecisionsFinal

-----------------------------------------------------------------------------
(* The blocking minority *)

\* How many of M are left when A, R and m are gone.
LEMMA Remaining ==
  ASSUME NEW M, IsFiniteSet(M), NEW A, NEW R, NEW m \in M,
         A \cup R \subseteq M, A \cap R = {}, m \notin A \cup R
  PROVE  /\ Cardinality(M) \in Nat
         /\ Cardinality(M \ (A \cup R \cup {m}))
              = Cardinality(M) - Cardinality(A) - Cardinality(R) - 1
<1>1. /\ IsFiniteSet(A) /\ IsFiniteSet(R)
      /\ Cardinality(A) \in Nat /\ Cardinality(R) \in Nat /\ Cardinality(M) \in Nat
  BY FS_Subset, FS_CardinalityType
<1>2. /\ IsFiniteSet(A \cup R)
      /\ Cardinality(A \cup R) = Cardinality(A) + Cardinality(R)
  <2>1. Cardinality({}) = 0
    BY FS_EmptySet
  <2>2. Cardinality(A \cup R) = Cardinality(A) + Cardinality(R) - Cardinality(A \cap R)
    BY <1>1, FS_Union
  <2>3. Cardinality(A \cup R) = Cardinality(A) + Cardinality(R) - 0
    BY <2>1, <2>2
  <2>4. IsFiniteSet(A \cup R)
    BY <1>1, FS_Union
  <2> QED BY <1>1, <2>3, <2>4
<1>3. Cardinality(A \cup R \cup {m}) = Cardinality(A) + Cardinality(R) + 1
  BY <1>2, FS_AddElement
<1>4. M \cap (A \cup R \cup {m}) = A \cup R \cup {m}
  OBVIOUS
<1>5. Cardinality(M \ (A \cup R \cup {m})) = Cardinality(M) - Cardinality(A \cup R \cup {m})
  BY <1>4, FS_Difference
<1> QED BY <1>1, <1>3, <1>5

\* Who has not voted is who is in neither set of voters.
LEMMA UnvotedMembers ==
  ASSUME TypeOK', NEW id
  PROVE  Unvoted(id)' = members' \ (VotersFor(id, TRUE)' \cup VotersFor(id, FALSE)')
<1>1. \A v \in votes' : v = [id |-> v.id, voter |-> v.voter, approve |-> v.approve]
                        /\ v.approve \in BOOLEAN
  BY DEF TypeOK, Vote
<1>2. ASSUME NEW m \in Addresses
      PROVE  HasVoted(m, id)' <=> m \in VotersFor(id, TRUE)' \cup VotersFor(id, FALSE)'
  BY <1>1 DEF HasVoted, VotersFor
<1>3. members' \subseteq Addresses
  BY DEF TypeOK
<1> QED BY <1>2, <1>3 DEF Unvoted

\* The arithmetic of reject_withdraw: counting down what the threshold leaves to
\* spare is counting up what is left to carry the proposal.
LEMMA BlockingArithmetic ==
  ASSUME NEW n \in Nat, NEW a \in Nat, NEW r \in Nat, NEW t \in Nat
  PROVE  r + 1 >= (IF n >= t THEN n - t ELSE 0) + 1 <=> a + (n - a - r - 1) < t
<1>1. CASE n >= t
  BY <1>1
<1>2. CASE ~(n >= t)
  BY <1>2
<1> QED BY <1>1, <1>2

\* A rejecting vote closes a withdraw proposal exactly when it is hopeless, as
\* long as everybody who voted is still a member.
THEOREM BlockingMinorityExact == Spec => RejectionExact
<1> DEFINE Exact(id) ==
             withdrawals'[id].status = "Rejected" <=>
               withdrawals[id].approvals + Cardinality(Unvoted(id)') < threshold
           Premise(id) ==
             /\ withdrawals'[id].rejections > withdrawals[id].rejections
             /\ VotersFor(id, TRUE) \cup VotersFor(id, FALSE) \subseteq members
<1>1. ASSUME IInv, IInv', NEW m \in Addresses, NEW id \in DOMAIN withdrawals,
             RejectWithdraw(m, id), Premise(id)
      PROVE  Exact(id)
  <2> DEFINE A == VotersFor(id, TRUE)
             R == VotersFor(id, FALSE)
  <2>1. /\ withdrawals \in [0..(proposalCount - 1) -> Withdrawal]
        /\ threshold \in Nat /\ members \subseteq Addresses
    BY <1>1 DEF IInv, TypeOK
  <2>2. /\ withdrawals[id].approvals = Cardinality(A)
        /\ withdrawals[id].rejections = Cardinality(R)
        /\ Cardinality(A) \in Nat /\ Cardinality(R) \in Nat
        /\ A \cap R = {} /\ A \cup R \subseteq members
    BY <1>1, VotersFinite DEF IInv, TalliesMatchVotes
  <2>3. /\ m \in members /\ ~HasVoted(m, id) /\ withdrawals[id].status = "Active"
        /\ votes' = votes \cup {[id |-> id, voter |-> m, approve |-> FALSE]}
        /\ members' = members
    BY <1>1 DEF RejectWithdraw, Votable
  <2>4. withdrawals'[id].status = "Rejected"
          <=> withdrawals[id].rejections + 1 >= BlockingMinority
    BY <1>1, <2>1, <2>3 DEF RejectWithdraw, Withdrawal
  <2>5. Unvoted(id)' = members \ (A \cup R \cup {m})
    <3>1. VotersFor(id, TRUE)' = VotersFor(id, TRUE)
      BY <2>3, VoteRecorded
    <3>2. VotersFor(id, FALSE)' = VotersFor(id, FALSE) \cup {m}
      BY <2>3, VoteRecorded
    <3>3. Unvoted(id)' = members' \ (VotersFor(id, TRUE)' \cup VotersFor(id, FALSE)')
      BY <1>1, UnvotedMembers DEF IInv
    <3> QED BY <2>3, <3>1, <3>2, <3>3
  <2>6. /\ Cardinality(members) \in Nat
        /\ Cardinality(members \ (A \cup R \cup {m}))
             = Cardinality(members) - Cardinality(A) - Cardinality(R) - 1
    <3>1. IsFiniteSet(members)
      BY <2>1, FS_Subset, TreasuryAssumption DEF TreasuryAssumption
    <3>2. m \notin A \cup R
      BY <2>3, VotableHasNoVote
    <3> HIDE DEF A, R
    <3> QED BY <2>2, <2>3, <3>1, <3>2, Remaining
  <2>7. Cardinality(R) + 1 >= BlockingMinority
          <=> Cardinality(A)
                + (Cardinality(members) - Cardinality(A) - Cardinality(R) - 1) < threshold
    BY <2>1, <2>2, <2>6, BlockingArithmetic DEF BlockingMinority, Spare
  <2> QED BY <2>2, <2>4, <2>5, <2>6, <2>7
<1>2. IInv /\ IInv' /\ [Next]_vars
        => [\A id \in DOMAIN withdrawals : Premise(id) => Exact(id)]_vars
  <2> SUFFICES ASSUME IInv, IInv', Next, NEW id \in DOMAIN withdrawals, Premise(id)
               PROVE  Exact(id)
    OBVIOUS
  <2>0. /\ withdrawals \in [0..(proposalCount - 1) -> Withdrawal]
        /\ withdrawals[id].rejections \in Nat
    BY DEF IInv, TypeOK, Withdrawal
  <2>1. withdrawals'[id].rejections # withdrawals[id].rejections
    BY <2>0
  <2>2. withdrawals' # withdrawals
    BY <2>1
  <2>3. ASSUME NEW m \in Addresses, NEW amount, NEW ttl, ProposeWithdraw(m, amount, ttl)
        PROVE  FALSE
    BY <2>1, <2>3, ProposeTouchesNone
  <2>4. ASSUME NEW m \in Addresses, NEW i \in DOMAIN withdrawals, ApproveWithdraw(m, i)
        PROVE  FALSE
    <3>1. CASE i = id
      BY <2>0, <2>1, <2>4, <3>1 DEF ApproveWithdraw, Withdrawal
    <3>2. CASE i # id
      BY <2>1, <2>4, <3>2, VoteTouchesOne
    <3> QED BY <3>1, <3>2
  <2>5. ASSUME NEW m \in Addresses, NEW i \in DOMAIN withdrawals, RejectWithdraw(m, i)
        PROVE  Exact(id)
    <3>1. i = id
      BY <2>1, <2>5, VoteTouchesOne
    <3> QED BY <1>1, <2>5, <3>1
  <2> HIDE DEF Exact
  <2> QED BY <2>2, <2>3, <2>4, <2>5
          DEF Next, Call, Initialize, AddMember, RemoveMember, Deposit, DirectTransfer,
              Withdraw, treasuryVars
<1> QED BY <1>2, SpecIInv, PTL DEF Spec, RejectionExact

-----------------------------------------------------------------------------
(* The treasury within the two contracts *)

\* What a ballot asks for is an amount a withdrawal may have.
Asked == \A id \in DOMAIN ballots : ballots[id].amount \in 1..MaxFunds
AskInv == Community!TypeOK /\ Asked

LEMMA InitAsk == BothInit => AskInv
<1> SUFFICES ASSUME BothInit PROVE AskInv
  OBVIOUS
<1>1. DOMAIN ballots = {} /\ ballots = [id \in {} |-> 0] /\ initialized = FALSE /\ nextId = 0 /\ cast = {}
  BY DEF BothInit, Community!Init
<1>2. ballots \in [DOMAIN ballots -> Community!Ballot]
  BY <1>1
<1>3. Community!TypeOK
  BY <1>1, <1>2 DEF Community!TypeOK
<1> QED BY <1>1, <1>3 DEF AskInv, Asked

\* A decided ballot differs in its status only.
LEMMA DecideKeeps ==
  ASSUME Community!TypeOK, NEW id \in DOMAIN ballots,
         NEW st \in {"Active", "Passed", "Rejected", "Expired", "Executed"}, Community!Decide(id, st)
  PROVE  /\ DOMAIN ballots' = DOMAIN ballots /\ ballots' \in [DOMAIN ballots -> Community!Ballot]
         /\ ballots'[id] \in Community!Ballot
         /\ ballots'[id].status = st /\ ballots'[id].amount = ballots[id].amount
         /\ ballots'[id].expiresAt = ballots[id].expiresAt
         /\ ballots'[id].yes = ballots[id].yes /\ ballots'[id].no = ballots[id].no
         /\ \A i \in DOMAIN ballots \ {id} : ballots'[i] = ballots[i]
<1>1. PICK b : b = [ballots[id] EXCEPT !.status = st]
  OBVIOUS
<1>2. ballots[id] \in Community!Ballot /\ ballots \in [DOMAIN ballots -> Community!Ballot]
  BY DEF Community!TypeOK
<1>3. /\ b \in Community!Ballot /\ b.status = st /\ b.amount = ballots[id].amount
      /\ b.expiresAt = ballots[id].expiresAt /\ b.yes = ballots[id].yes /\ b.no = ballots[id].no
  BY <1>1, <1>2 DEF Community!Ballot
<1>4. ballots' = [ballots EXCEPT ![id] = b]
  BY <1>1 DEF Community!Decide
<1> QED BY <1>2, <1>3, <1>4

\* A vote changes its ballot's tally only.
LEMMA VoteKeeps ==
  ASSUME Community!TypeOK, NEW v \in Addresses, NEW id \in DOMAIN ballots, NEW support \in BOOLEAN,
         Community!CastVote(v, id, support)
  PROVE  /\ DOMAIN ballots' = DOMAIN ballots /\ ballots' \in [DOMAIN ballots -> Community!Ballot]
         /\ ballots'[id].status = ballots[id].status /\ ballots'[id].amount = ballots[id].amount
         /\ ballots'[id].expiresAt = ballots[id].expiresAt
         /\ ballots'[id].yes = IF support THEN ballots[id].yes + 1 ELSE ballots[id].yes
         /\ ballots'[id].no = IF support THEN ballots[id].no ELSE ballots[id].no + 1
         /\ \A i \in DOMAIN ballots \ {id} : ballots'[i] = ballots[i]
<1>1. PICK b : b = IF support THEN [ballots[id] EXCEPT !.yes = @ + 1] ELSE [ballots[id] EXCEPT !.no = @ + 1]
  OBVIOUS
<1>2. ballots[id] \in Community!Ballot /\ ballots \in [DOMAIN ballots -> Community!Ballot]
  BY DEF Community!TypeOK
<1>3. /\ b \in Community!Ballot /\ b.status = ballots[id].status /\ b.amount = ballots[id].amount
      /\ b.expiresAt = ballots[id].expiresAt
      /\ b.yes = IF support THEN ballots[id].yes + 1 ELSE ballots[id].yes
      /\ b.no = IF support THEN ballots[id].no ELSE ballots[id].no + 1
  BY <1>1, <1>2 DEF Community!Ballot
<1>4. ballots' = [ballots EXCEPT ![id] = b]
  BY <1>1 DEF Community!CastVote
<1> QED BY <1>2, <1>3, <1>4

\* A new ballot is open, and nobody has voted on it.
LEMMA CreateKeeps ==
  ASSUME Community!TypeOK, NEW amount \in 1..MaxFunds, NEW expiresAt \in 1..MaxTime,
         Community!CreateProposal(amount, expiresAt)
  PROVE  /\ DOMAIN ballots' = DOMAIN ballots \cup {nextId}
         /\ ballots' \in [DOMAIN ballots \cup {nextId} -> Community!Ballot]
         /\ ballots'[nextId] = [amount |-> amount, expiresAt |-> expiresAt, yes |-> 0, no |-> 0,
                                status |-> "Active"]
         /\ ballots'[nextId] \in Community!Ballot
         /\ \A i \in DOMAIN ballots \ {nextId} : ballots'[i] = ballots[i]
<1>1. PICK b : b = [amount |-> amount, expiresAt |-> expiresAt, yes |-> 0, no |-> 0, status |-> "Active"]
  OBVIOUS
<1>2. b \in Community!Ballot
  BY <1>1, TreasuryAssumption DEF Community!Ballot, TreasuryAssumption
<1>3. ballots \in [DOMAIN ballots -> Community!Ballot]
  BY DEF Community!TypeOK
<1>4. ballots' = [i \in DOMAIN ballots \cup {nextId} |-> IF i = nextId THEN b ELSE ballots[i]]
  BY <1>1 DEF Community!CreateProposal
<1>5. ballots'[nextId] = b /\ DOMAIN ballots' = DOMAIN ballots \cup {nextId}
      /\ \A i \in DOMAIN ballots \ {nextId} : ballots'[i] = ballots[i]
  BY <1>4
<1>6. ballots' \in [DOMAIN ballots \cup {nextId} -> Community!Ballot]
  BY <1>2, <1>3, <1>4
<1> QED BY <1>1, <1>2, <1>5, <1>6

\* The calls that decide a ballot, in one form.
LEMMA Decisions ==
  ASSUME NEW id,
         \/ Community!FinalizeProposal(id)
         \/ Community!FinalizeExpiredProposal(id)
         \/ Community!ExecuteProposal(id)
         \/ Community!Settle(id)
  PROVE  /\ \E st \in {"Passed", "Rejected", "Expired", "Executed"} : Community!Decide(id, st)
         /\ UNCHANGED <<initialized, nextId, cast>>
BY DEF Community!FinalizeProposal, Community!FinalizeExpiredProposal, Community!ExecuteProposal,
       Community!Settle, Community!Marked

LEMMA StepAsk == AskInv /\ [BothNext]_allVars => AskInv'
<1> SUFFICES ASSUME AskInv, [BothNext]_allVars PROVE AskInv'
  OBVIOUS
<1> USE TreasuryAssumption DEF TreasuryAssumption
<1>1. ASSUME UNCHANGED <<initialized, nextId, ballots, cast>> PROVE AskInv'
  BY <1>1 DEF AskInv, Asked, Community!TypeOK
<1>2. ASSUME Community!Initialize PROVE AskInv'
  BY <1>2 DEF AskInv, Asked, Community!TypeOK, Community!Initialize
<1>3. ASSUME NEW amount \in 1..MaxFunds, NEW expiresAt \in 1..MaxTime,
             Community!CreateProposal(amount, expiresAt)
      PROVE  AskInv'
  <2>1. UNCHANGED <<initialized, cast>> /\ nextId' = nextId + 1 /\ nextId \in Nat
    BY <1>3 DEF AskInv, Community!TypeOK, Community!CreateProposal
  <2>2. /\ DOMAIN ballots' = DOMAIN ballots \cup {nextId}
        /\ ballots' \in [DOMAIN ballots' -> Community!Ballot]
        /\ ballots'[nextId].amount = amount
        /\ \A i \in DOMAIN ballots \ {nextId} : ballots'[i] = ballots[i]
    <3>1. /\ DOMAIN ballots' = DOMAIN ballots \cup {nextId}
          /\ ballots' \in [DOMAIN ballots \cup {nextId} -> Community!Ballot]
          /\ ballots'[nextId] = [amount |-> amount, expiresAt |-> expiresAt, yes |-> 0, no |-> 0,
                                 status |-> "Active"]
          /\ \A i \in DOMAIN ballots \ {nextId} : ballots'[i] = ballots[i]
      BY <1>3, CreateKeeps DEF AskInv
    <3>2. ballots' \in [DOMAIN ballots' -> Community!Ballot]
      BY <3>1
    <3>3. ballots'[nextId].amount = amount
      BY <3>1
    <3> QED BY <3>1, <3>2, <3>3
  <2>3. Community!TypeOK'
    BY <2>1, <2>2 DEF AskInv, Community!TypeOK
  <2>4. Asked'
    BY <2>2 DEF AskInv, Asked
  <2> QED BY <2>3, <2>4 DEF AskInv
<1>4. ASSUME NEW id \in DOMAIN ballots, NEW v \in Addresses, NEW support \in BOOLEAN,
             Community!CastVote(v, id, support)
      PROVE  AskInv'
  <2>1. UNCHANGED <<initialized, nextId>>
        /\ cast' = cast \cup {[id |-> id, voter |-> v, support |-> support]}
    BY <1>4 DEF Community!CastVote
  <2>2. Community!TypeOK'
    BY <1>4, <2>1, VoteKeeps DEF AskInv, Community!TypeOK, Community!Vote
  <2>3. Asked'
    BY <1>4, VoteKeeps DEF AskInv, Asked
  <2> QED BY <2>2, <2>3 DEF AskInv
<1>5. ASSUME NEW id \in DOMAIN ballots, NEW st \in {"Active", "Passed", "Rejected", "Expired", "Executed"},
             Community!Decide(id, st), UNCHANGED <<initialized, nextId, cast>>
      PROVE  AskInv'
  <2>1. Community!TypeOK'
    BY <1>5, DecideKeeps DEF AskInv, Community!TypeOK
  <2>2. Asked'
    BY <1>5, DecideKeeps DEF AskInv, Asked
  <2> QED BY <2>1, <2>2 DEF AskInv
<1>6. ASSUME Community!Call PROVE AskInv'
  <2>1. ASSUME NEW id \in DOMAIN ballots,
               \/ Community!FinalizeProposal(id)
               \/ Community!FinalizeExpiredProposal(id)
               \/ Community!ExecuteProposal(id)
        PROVE  AskInv'
    BY <1>5, <2>1, Decisions
  <2> QED BY <1>2, <1>3, <1>4, <1>6, <2>1 DEF Community!Call
<1>7. ASSUME NEW caller \in Addresses, NEW id \in DOMAIN ballots, ExecuteWithdraw(caller, id)
      PROVE  AskInv'
  <2>1. Community!Settle(id)
    BY <1>7 DEF ExecuteWithdraw
  <2> QED BY <1>5, <2>1, Decisions
<1> QED BY <1>1, <1>6, <1>7 DEF BothNext, allVars, proposalVars

\* The proposals contract does nothing to the treasury that the treasury's own
\* entry points do not allow: execute_withdraw is one more withdraw.
LEMMA TreasuryStep == AskInv /\ [BothNext]_allVars => [Next]_vars
<1>1. ASSUME AskInv, NEW caller \in Addresses, NEW id \in DOMAIN ballots, ExecuteWithdraw(caller, id)
      PROVE  Next
  BY <1>1 DEF AskInv, Asked, ExecuteWithdraw, Next
<1> QED BY <1>1 DEF BothNext, allVars

\* The treasury that pays for the proposals contract is still the treasury.
THEOREM TreasuryKept == BothSpec => Spec
BY InitAsk, StepAsk, TreasuryStep, PTL DEF BothSpec, BothInit, Spec

\* Hence a rejecting vote closes a withdraw proposal exactly when it is
\* hopeless, whatever the proposals contract withdraws meanwhile.
THEOREM RejectionStaysExact == BothSpec => RejectionExact
BY TreasuryKept, BlockingMinorityExact, PTL

-----------------------------------------------------------------------------
(* The ballots of the proposals contract *)

S(id, support) == Community!Supporters(id, support)

\* Ids are handed out in order, and none before initialize.
Dense ==
  /\ nextId \in 0..MaxBallots
  /\ DOMAIN ballots = 0..(nextId - 1)
  /\ ~initialized => nextId = 0

\* Money moved for ballots that were executed only.
PaidAreExecuted ==
  /\ paid \in [DOMAIN ballots -> Nat]
  /\ \A id \in DOMAIN ballots : paid[id] > 0 => ballots[id].status = "Executed"

\* The outcome of a ballot, as its own counters tell it.
Sound(b, t) ==
  /\ b.status \in {"Passed", "Executed"} => b.yes > b.no
  /\ b.status = "Rejected" => ~(b.yes > b.no)
  /\ b.status # "Active" => b.expiresAt <= t
OutcomesSound == \A id \in DOMAIN ballots : Sound(ballots[id], now)

\* Nothing reaches the contract before initialize, which resets the counter.
BallotInv ==
  /\ AskInv
  /\ now \in Nat
  /\ Dense
  /\ PaidAreExecuted
  /\ Community!TalliesMatchVotes
  /\ OutcomesSound

\* The instances count as the module does.
LEMMA SameCardinality ==
  ASSUME NEW T
  PROVE  Community!Cardinality(T) = Cardinality(T) /\ Pool!Cardinality(T) = Cardinality(T)
BY DEF Cardinality, Community!Cardinality, Pool!Cardinality

\* The voters of a ballot are accounts, so there are finitely many.
LEMMA SupportersFinite ==
  ASSUME NEW id, NEW support
  PROVE  IsFiniteSet(S(id, support)) /\ Cardinality(S(id, support)) \in Nat
<1>1. S(id, support) \subseteq Addresses
  BY DEF S, Community!Supporters
<1>2. IsFiniteSet(S(id, support))
  BY <1>1, FS_Subset, TreasuryAssumption DEF TreasuryAssumption
<1> QED BY <1>2, FS_CardinalityType

LEMMA SupportersUnchanged ==
  ASSUME UNCHANGED cast
  PROVE  \A id, support : S(id, support)' = S(id, support)
BY DEF S, Community!Supporters

\* A vote cast joins its voter to one side of one ballot.
LEMMA VoteCast ==
  ASSUME NEW v \in Addresses, NEW id, NEW support \in BOOLEAN,
         cast' = cast \cup {[id |-> id, voter |-> v, support |-> support]}
  PROVE  /\ S(id, support)' = S(id, support) \cup {v}
         /\ \A j, side : j # id \/ side # support => S(j, side)' = S(j, side)
<1>1. ASSUME NEW j, NEW side, NEW a
      PROVE  [id |-> j, voter |-> a, support |-> side] = [id |-> id, voter |-> v, support |-> support]
               <=> j = id /\ a = v /\ side = support
  OBVIOUS
<1>2. S(id, support)' = S(id, support) \cup {v}
  BY <1>1 DEF S, Community!Supporters
<1>3. ASSUME NEW j, NEW side, j # id \/ side # support
      PROVE  S(j, side)' = S(j, side)
  BY <1>1, <1>3 DEF S, Community!Supporters
<1> QED BY <1>2, <1>3

\* Nobody has voted under an id that was not handed out.
LEMMA NobodyVotedYet ==
  ASSUME Community!TalliesMatchVotes, NEW id, id \notin DOMAIN ballots, NEW support
  PROVE  S(id, support) = {}
BY DEF Community!TalliesMatchVotes, S, Community!Supporters

LEMMA InitBallot == BothInit => BallotInv
<1> SUFFICES ASSUME BothInit PROVE BallotInv
  OBVIOUS
<1>1. /\ DOMAIN ballots = {} /\ initialized = FALSE /\ nextId = 0 /\ cast = {} /\ now = 0
      /\ DOMAIN paid = {} /\ paid = [id \in {} |-> 0]
  BY DEF BothInit, Community!Init, Init
<1>2. 0..(nextId - 1) = {} /\ nextId \in 0..MaxBallots
  BY <1>1, GovernanceAssumption DEF GovernanceAssumption
<1>3. Dense /\ PaidAreExecuted
  BY <1>1, <1>2 DEF Dense, PaidAreExecuted
<1>4. Community!TalliesMatchVotes /\ OutcomesSound
  BY <1>1 DEF Community!TalliesMatchVotes, OutcomesSound
<1> QED BY <1>1, <1>3, <1>4, InitAsk DEF BallotInv

\* A call of the treasury, a tick or a stutter: the clock may have moved on.
LEMMA ElsewhereBallot ==
  ASSUME BallotInv, UNCHANGED <<proposalVars, paid>>, now' \in Nat, now <= now'
  PROVE  Dense' /\ PaidAreExecuted' /\ Community!TalliesMatchVotes' /\ OutcomesSound'
<1>1. UNCHANGED <<initialized, nextId, ballots, cast, paid>>
  BY DEF proposalVars
<1>2. Dense' /\ PaidAreExecuted'
  BY <1>1 DEF BallotInv, Dense, PaidAreExecuted
<1>3. Community!TalliesMatchVotes'
  BY <1>1 DEF BallotInv, Community!TalliesMatchVotes, Community!Supporters
<1>4. OutcomesSound'
  <2> SUFFICES ASSUME NEW id \in DOMAIN ballots PROVE Sound(ballots[id], now')
    BY <1>1 DEF OutcomesSound
  <2>1. Sound(ballots[id], now) /\ ballots[id].expiresAt \in Nat
    BY DEF BallotInv, OutcomesSound, AskInv, Community!TypeOK, Community!Ballot
  <2> QED BY <1>1, <2>1 DEF BallotInv, Sound
<1> QED BY <1>2, <1>3, <1>4

LEMMA InitializeBallot ==
  ASSUME BallotInv, Community!Initialize, UNCHANGED now, paid' = Payments(DOMAIN ballots')
  PROVE  Dense' /\ PaidAreExecuted' /\ Community!TalliesMatchVotes' /\ OutcomesSound'
<1>1. /\ nextId = 0 /\ nextId' = 0 /\ DOMAIN ballots = {} /\ UNCHANGED <<ballots, cast>>
      /\ paid' = [id \in {} |-> IF id \in DOMAIN paid THEN paid[id] ELSE 0]
  BY DEF BallotInv, Dense, Community!Initialize, Payments
<1>2. Dense'
  BY <1>1 DEF BallotInv, Dense, Community!Initialize
<1>3. PaidAreExecuted' /\ OutcomesSound'
  BY <1>1 DEF PaidAreExecuted, OutcomesSound
<1>4. Community!TalliesMatchVotes'
  BY <1>1 DEF BallotInv, Community!TalliesMatchVotes
<1> QED BY <1>2, <1>3, <1>4

LEMMA CreateBallot ==
  ASSUME BallotInv, ~EarlyCalls, NEW amount \in 1..MaxFunds, NEW expiresAt \in 1..MaxTime,
         Community!CreateProposal(amount, expiresAt), UNCHANGED now, paid' = Payments(DOMAIN ballots')
  PROVE  Dense' /\ PaidAreExecuted' /\ Community!TalliesMatchVotes' /\ OutcomesSound'
<1>1. /\ initialized /\ nextId < MaxBallots /\ nextId \in Nat /\ nextId' = nextId + 1
      /\ DOMAIN ballots = 0..(nextId - 1) /\ UNCHANGED <<initialized, cast>>
  BY GovernanceAssumption DEF BallotInv, Dense, Community!CreateProposal, GovernanceAssumption
<1>2. PICK new : new = nextId
  OBVIOUS
<1>3. PICK b : b = [amount |-> amount, expiresAt |-> expiresAt, yes |-> 0, no |-> 0, status |-> "Active"]
  OBVIOUS
<1>4. /\ DOMAIN ballots' = DOMAIN ballots \cup {new} /\ new \notin DOMAIN ballots
      /\ ballots'[new] = b
      /\ \A i \in DOMAIN ballots : ballots'[i] = ballots[i]
  <2>1. new \notin DOMAIN ballots
    BY <1>1, <1>2
  <2> QED BY <1>2, <1>3, <2>1, CreateKeeps DEF BallotInv, AskInv
<1>5. Dense'
  BY <1>1, <1>2, <1>4, GovernanceAssumption DEF Dense, GovernanceAssumption
<1>6. PaidAreExecuted'
  <2>1. paid' = [id \in DOMAIN ballots \cup {new} |-> IF id \in DOMAIN paid THEN paid[id] ELSE 0]
        /\ DOMAIN paid = DOMAIN ballots
    BY <1>4 DEF Payments, BallotInv, PaidAreExecuted
  <2>2. paid' \in [DOMAIN ballots' -> Nat] /\ paid'[new] = 0 /\ \A i \in DOMAIN ballots : paid'[i] = paid[i]
    <3>1. \A i \in DOMAIN ballots : paid[i] \in Nat
      BY DEF BallotInv, PaidAreExecuted
    <3>2. paid'[new] = 0 /\ \A i \in DOMAIN ballots : paid'[i] = paid[i]
      BY <1>4, <2>1
    <3>3. DOMAIN paid' = DOMAIN ballots' /\ paid' = [i \in DOMAIN ballots' |-> paid'[i]]
      BY <1>4, <2>1
    <3>4. \A i \in DOMAIN ballots' : paid'[i] \in Nat
      BY <1>4, <3>1, <3>2
    <3> QED BY <3>2, <3>3, <3>4
  <2> QED BY <1>4, <2>2 DEF BallotInv, PaidAreExecuted
<1>7. OutcomesSound'
  <2>1. Sound(b, now')
    BY <1>3 DEF Sound
  <2>2. \A i \in DOMAIN ballots : Sound(ballots[i], now')
    BY <1>4 DEF BallotInv, OutcomesSound, Sound
  <2> QED BY <1>4, <2>1, <2>2 DEF OutcomesSound
<1>8. Community!TalliesMatchVotes'
  <2>1. \A i, side : S(i, side)' = S(i, side)
    BY <1>1, SupportersUnchanged
  <2>2. \A side : S(new, side) = {}
    BY <1>4, NobodyVotedYet DEF BallotInv
  <2>3. b.yes = Cardinality({}) /\ b.no = Cardinality({})
    BY <1>3, FS_EmptySet
  <2>4. \A i \in DOMAIN ballots : /\ ballots[i].yes = Cardinality(S(i, TRUE))
                                  /\ ballots[i].no = Cardinality(S(i, FALSE))
                                  /\ S(i, TRUE) \cap S(i, FALSE) = {}
    BY SameCardinality DEF BallotInv, Community!TalliesMatchVotes, S
  <2>5. ASSUME NEW i \in DOMAIN ballots'
        PROVE  /\ ballots'[i].yes = Cardinality(S(i, TRUE)')
               /\ ballots'[i].no = Cardinality(S(i, FALSE)')
               /\ S(i, TRUE)' \cap S(i, FALSE)' = {}
    <3>1. CASE i = new
      BY <1>4, <2>1, <2>2, <2>3, <3>1
    <3>2. CASE i \in DOMAIN ballots
      BY <1>4, <2>1, <2>4, <3>2
    <3> QED BY <1>4, <3>1, <3>2
  <2>6. \A c \in cast' : c.id \in DOMAIN ballots'
    BY <1>1, <1>4 DEF BallotInv, Community!TalliesMatchVotes
  <2> QED BY <2>5, <2>6, SameCardinality DEF S, Community!TalliesMatchVotes
<1> QED BY <1>5, <1>6, <1>7, <1>8

\* Payments that follow the same ids stay as they are.
LEMMA SamePayments ==
  ASSUME PaidAreExecuted, DOMAIN ballots' = DOMAIN ballots, paid' = Payments(DOMAIN ballots')
  PROVE  paid' = paid
BY DEF PaidAreExecuted, Payments

LEMMA VoteBallot ==
  ASSUME BallotInv, NEW v \in Addresses, NEW id \in DOMAIN ballots, NEW support \in BOOLEAN,
         Community!CastVote(v, id, support), UNCHANGED now, paid' = Payments(DOMAIN ballots')
  PROVE  Dense' /\ PaidAreExecuted' /\ Community!TalliesMatchVotes' /\ OutcomesSound'
<1>1. /\ UNCHANGED <<initialized, nextId>> /\ ballots[id].status = "Active"
      /\ cast' = cast \cup {[id |-> id, voter |-> v, support |-> support]}
      /\ ~Community!HasVoted(v, id, support)
  BY DEF Community!CastVote
<1>2. /\ DOMAIN ballots' = DOMAIN ballots
      /\ ballots'[id].status = ballots[id].status
      /\ ballots'[id].yes = IF support THEN ballots[id].yes + 1 ELSE ballots[id].yes
      /\ ballots'[id].no = IF support THEN ballots[id].no ELSE ballots[id].no + 1
      /\ \A i \in DOMAIN ballots \ {id} : ballots'[i] = ballots[i]
  BY VoteKeeps DEF BallotInv, AskInv
<1>3. paid' = paid
  BY <1>2, SamePayments DEF BallotInv
<1>4. Dense'
  BY <1>1, <1>2 DEF BallotInv, Dense
<1>5. PaidAreExecuted'
  BY <1>1, <1>2, <1>3 DEF BallotInv, PaidAreExecuted
<1>6. OutcomesSound'
  <2>1. Sound(ballots'[id], now')
    BY <1>1, <1>2 DEF Sound
  <2>2. \A i \in DOMAIN ballots \ {id} : Sound(ballots'[i], now')
    BY <1>2 DEF BallotInv, OutcomesSound, Sound
  <2> QED BY <1>2, <2>1, <2>2 DEF OutcomesSound
<1>7. v \notin S(id, TRUE) /\ v \notin S(id, FALSE) /\ v \notin S(id, support)
  BY <1>1 DEF Community!HasVoted, S, Community!Supporters
<1>8. S(id, support)' = S(id, support) \cup {v} /\ \A j, side : j # id \/ side # support => S(j, side)' = S(j, side)
  BY <1>1, VoteCast
<1>9. Cardinality(S(id, support)') = Cardinality(S(id, support)) + 1
  <2>1. PICK T : T = S(id, support)
    OBVIOUS
  <2>2. IsFiniteSet(T) /\ v \notin T /\ S(id, support)' = T \cup {v}
    BY <1>7, <1>8, <2>1, SupportersFinite
  <2> QED BY <2>1, <2>2, FS_AddElement
<1>10. \A i \in DOMAIN ballots : /\ ballots[i].yes = Cardinality(S(i, TRUE))
                                 /\ ballots[i].no = Cardinality(S(i, FALSE))
                                 /\ S(i, TRUE) \cap S(i, FALSE) = {}
  BY SameCardinality DEF BallotInv, Community!TalliesMatchVotes, S
<1>11. ASSUME NEW i \in DOMAIN ballots'
       PROVE  /\ ballots'[i].yes = Cardinality(S(i, TRUE)')
              /\ ballots'[i].no = Cardinality(S(i, FALSE)')
              /\ S(i, TRUE)' \cap S(i, FALSE)' = {}
  <2>1. CASE i # id
    BY <1>2, <1>8, <1>10, <2>1
  <2>2. CASE i = id /\ support
    <3>1. S(i, TRUE)' = S(i, TRUE) \cup {v} /\ S(i, FALSE)' = S(i, FALSE)
      BY <1>8, <2>2
    <3>2. Cardinality(S(i, TRUE)') = Cardinality(S(i, TRUE)) + 1
      BY <1>9, <2>2
    <3>3. ballots'[i].yes = ballots[i].yes + 1 /\ ballots'[i].no = ballots[i].no /\ i \in DOMAIN ballots
      BY <1>2, <2>2
    <3>4. S(i, TRUE)' \cap S(i, FALSE)' = {}
      BY <1>7, <1>10, <2>2, <3>1, <3>3
    <3> QED BY <1>10, <3>1, <3>2, <3>3, <3>4
  <2>3. CASE i = id /\ ~support
    <3>1. S(i, FALSE)' = S(i, FALSE) \cup {v} /\ S(i, TRUE)' = S(i, TRUE)
      BY <1>8, <2>3
    <3>2. Cardinality(S(i, FALSE)') = Cardinality(S(i, FALSE)) + 1
      BY <1>9, <2>3
    <3>3. ballots'[i].yes = ballots[i].yes /\ ballots'[i].no = ballots[i].no + 1 /\ i \in DOMAIN ballots
      BY <1>2, <2>3
    <3>4. S(i, TRUE)' \cap S(i, FALSE)' = {}
      BY <1>7, <1>10, <2>3, <3>1, <3>3
    <3> QED BY <1>10, <3>1, <3>2, <3>3, <3>4
  <2> QED BY <2>1, <2>2, <2>3
<1>12. \A c \in cast' : c.id \in DOMAIN ballots'
  BY <1>1, <1>2 DEF BallotInv, Community!TalliesMatchVotes
<1>13. Community!TalliesMatchVotes'
  BY <1>11, <1>12, SameCardinality DEF S, Community!TalliesMatchVotes
<1> QED BY <1>4, <1>5, <1>6, <1>13

\* A ballot is decided: its age allows it and its tally says so.
LEMMA DecideBallot ==
  ASSUME BallotInv, NEW id \in DOMAIN ballots,
         NEW st \in {"Passed", "Rejected", "Expired", "Executed"}, Community!Decide(id, st),
         UNCHANGED <<initialized, nextId, cast, now>>, ballots[id].expiresAt <= now,
         st \in {"Passed", "Executed"} => ballots[id].yes > ballots[id].no,
         st = "Rejected" => ~(ballots[id].yes > ballots[id].no)
  PROVE  Dense' /\ Community!TalliesMatchVotes' /\ OutcomesSound'
<1>1. /\ DOMAIN ballots' = DOMAIN ballots
      /\ ballots'[id].status = st /\ ballots'[id].expiresAt = ballots[id].expiresAt
      /\ ballots'[id].yes = ballots[id].yes /\ ballots'[id].no = ballots[id].no
      /\ \A i \in DOMAIN ballots \ {id} : ballots'[i] = ballots[i]
  BY DecideKeeps DEF BallotInv, AskInv
<1>2. Dense'
  BY <1>1 DEF BallotInv, Dense
<1>3. Community!TalliesMatchVotes'
  <2>1. \A i, side : S(i, side)' = S(i, side)
    BY SupportersUnchanged
  <2>2. \A i \in DOMAIN ballots : ballots'[i].yes = ballots[i].yes /\ ballots'[i].no = ballots[i].no
    BY <1>1
  <2> QED BY <1>1, <2>1, <2>2 DEF BallotInv, Community!TalliesMatchVotes, S
<1>4. OutcomesSound'
  <2>1. Sound(ballots'[id], now')
    BY <1>1 DEF Sound
  <2>2. \A i \in DOMAIN ballots \ {id} : Sound(ballots'[i], now')
    BY <1>1 DEF BallotInv, OutcomesSound, Sound
  <2> QED BY <1>1, <2>1, <2>2 DEF OutcomesSound
<1> QED BY <1>2, <1>3, <1>4

LEMMA CloseBallot ==
  ASSUME BallotInv, NEW id \in DOMAIN ballots,
         \/ Community!FinalizeProposal(id)
         \/ Community!FinalizeExpiredProposal(id)
         \/ Community!ExecuteProposal(id),
         UNCHANGED now, paid' = Payments(DOMAIN ballots')
  PROVE  Dense' /\ PaidAreExecuted' /\ Community!TalliesMatchVotes' /\ OutcomesSound'
<1>1. /\ Sound(ballots[id], now) /\ ballots[id].expiresAt \in Nat /\ now \in Nat
      /\ paid \in [DOMAIN ballots -> Nat]
      /\ \A i \in DOMAIN ballots : paid[i] > 0 => ballots[i].status = "Executed"
  BY DEF BallotInv, OutcomesSound, AskInv, Community!TypeOK, Community!Ballot, PaidAreExecuted
<1>2. UNCHANGED <<initialized, nextId, cast>>
  BY Decisions
<1>3. PICK st \in {"Passed", "Rejected", "Expired", "Executed"} :
        /\ Community!Decide(id, st)
        /\ ballots[id].expiresAt <= now
        /\ ballots[id].status \in {"Active", "Passed"}
        /\ ballots[id].status = "Passed" => st = "Executed"
        /\ st \in {"Passed", "Executed"} => ballots[id].yes > ballots[id].no
        /\ st = "Rejected" => ~(ballots[id].yes > ballots[id].no)
  <2>1. CASE Community!FinalizeProposal(id)
    <3>1. CASE Community!Carried(ballots[id])
      BY <1>1, <2>1, <3>1 DEF Community!FinalizeProposal, Community!Carried
    <3>2. CASE ~Community!Carried(ballots[id])
      BY <1>1, <2>1, <3>2 DEF Community!FinalizeProposal, Community!Carried
    <3> QED BY <3>1, <3>2
  <2>2. CASE Community!FinalizeExpiredProposal(id)
    BY <1>1, <2>2 DEF Community!FinalizeExpiredProposal
  <2>3. CASE Community!ExecuteProposal(id)
    BY <1>1, <2>3 DEF Community!ExecuteProposal, Community!Executable, Sound
  <2> QED BY <2>1, <2>2, <2>3
<1>4. Dense' /\ Community!TalliesMatchVotes' /\ OutcomesSound'
  BY <1>2, <1>3, DecideBallot
<1>5. DOMAIN ballots' = DOMAIN ballots /\ \A i \in DOMAIN ballots \ {id} : ballots'[i] = ballots[i]
  BY <1>3, DecideKeeps DEF BallotInv, AskInv
<1>6. paid' = paid
  BY <1>5, SamePayments DEF BallotInv
<1>7. ~(paid[id] > 0)
  BY <1>1, <1>3
<1>8. PaidAreExecuted'
  BY <1>1, <1>5, <1>6, <1>7 DEF PaidAreExecuted
<1> QED BY <1>4, <1>8

LEMMA PayBallot ==
  ASSUME BallotInv, NEW caller \in Addresses, NEW id \in DOMAIN ballots, ExecuteWithdraw(caller, id)
  PROVE  Dense' /\ PaidAreExecuted' /\ Community!TalliesMatchVotes' /\ OutcomesSound'
<1>1. /\ ballots[id].status = "Passed" /\ Community!Decide(id, "Executed")
      /\ UNCHANGED <<initialized, nextId, cast, now>> /\ paid' = [paid EXCEPT ![id] = @ + 1]
  BY DEF ExecuteWithdraw, Community!Settle, Community!Executable, Community!Marked
<1>2. Sound(ballots[id], now)
  BY DEF BallotInv, OutcomesSound
<1>3. Dense' /\ Community!TalliesMatchVotes' /\ OutcomesSound'
  BY <1>1, <1>2, DecideBallot DEF Sound
<1>4. DOMAIN ballots' = DOMAIN ballots /\ ballots'[id].status = "Executed"
      /\ \A i \in DOMAIN ballots \ {id} : ballots'[i] = ballots[i]
  BY <1>1, DecideKeeps DEF BallotInv, AskInv
<1>5. paid' \in [DOMAIN ballots -> Nat] /\ \A i \in DOMAIN ballots \ {id} : paid'[i] = paid[i]
  BY <1>1 DEF BallotInv, PaidAreExecuted
<1>6. PaidAreExecuted'
  BY <1>4, <1>5 DEF BallotInv, PaidAreExecuted
<1> QED BY <1>3, <1>6

\* The clock only moves on, and only when a ledger closes.
LEMMA ClockStep ==
  ASSUME now \in Nat, [Next]_vars
  PROVE  now' \in Nat /\ now <= now'
BY DEF Next, Tick, vars

LEMMA StepBallot == ~EarlyCalls /\ BallotInv /\ [BothNext]_allVars => BallotInv'
<1> SUFFICES ASSUME ~EarlyCalls, BallotInv, [BothNext]_allVars PROVE BallotInv'
  OBVIOUS
<1>1. AskInv' /\ now' \in Nat /\ now <= now'
  BY StepAsk, TreasuryStep, ClockStep DEF BallotInv
<1> DEFINE Rest == Dense /\ PaidAreExecuted /\ Community!TalliesMatchVotes /\ OutcomesSound
<1>2. ASSUME UNCHANGED <<proposalVars, paid>> PROVE Rest'
  BY <1>1, <1>2, ElsewhereBallot
<1>3. ASSUME Community!Call, UNCHANGED now, paid' = Payments(DOMAIN ballots') PROVE Rest'
  <2>1. ASSUME NEW id \in DOMAIN ballots,
               \/ Community!FinalizeProposal(id)
               \/ Community!FinalizeExpiredProposal(id)
               \/ Community!ExecuteProposal(id)
        PROVE  Rest'
    BY <1>3, <2>1, CloseBallot
  <2>2. ASSUME Community!Initialize PROVE Rest'
    BY <1>3, <2>2, InitializeBallot
  <2>3. ASSUME NEW amount \in 1..MaxFunds, NEW expiresAt \in 1..MaxTime,
               Community!CreateProposal(amount, expiresAt)
        PROVE  Rest'
    BY <1>3, <2>3, CreateBallot
  <2>4. ASSUME NEW id \in DOMAIN ballots, NEW v \in Addresses, NEW support \in BOOLEAN,
               Community!CastVote(v, id, support)
        PROVE  Rest'
    BY <1>3, <2>4, VoteBallot
  <2> HIDE DEF Rest
  <2> QED BY <1>3, <2>1, <2>2, <2>3, <2>4 DEF Community!Call
<1>4. ASSUME NEW caller \in Addresses, NEW id \in DOMAIN ballots, ExecuteWithdraw(caller, id)
      PROVE  Rest'
  BY <1>4, PayBallot
<1>5. Rest'
  <2> HIDE DEF Rest
  <2> QED BY <1>2, <1>3, <1>4 DEF BothNext, allVars, vars
<1> QED BY <1>1, <1>5 DEF BallotInv

\* A ballot's outcome is what the recorded votes say, before and after its
\* money moved, provided nothing was created before initialize.
THEOREM OutcomesFollowVotes == ASSUME ~EarlyCalls PROVE BothSpec => []OutcomeFollowsVotes
<1>1. BallotInv => OutcomeFollowsVotes
  BY DEF BallotInv, OutcomesSound, Sound, OutcomeFollowsVotes, Community!OutcomeFollowsVotes,
         Community!TalliesMatchVotes
<1> QED BY <1>1, InitBallot, StepBallot, PTL DEF BothSpec

-----------------------------------------------------------------------------
(* The two contracts implement the fund *)

\* A ballot of the fund, and the fund's ballots and payments.
Entry(id) ==
  [amount |-> ballots[id].amount, for |-> S(id, TRUE), against |-> S(id, FALSE),
   outcome |-> ballots[id].status]
Book == [id \in DOMAIN ballots |-> Entry(id)]
Paid == {id \in DOMAIN ballots : paid[id] > 0}

\* The fund's variables are the balance, the book and the payments.
LEMMA PoolVars ==
  ASSUME UNCHANGED <<balance, Book, Paid>>
  PROVE  UNCHANGED Pool!vars
BY DEF Pool!vars, Book, Entry, Paid, S

LEMMA BookUnchanged ==
  ASSUME UNCHANGED <<ballots, cast>>
  PROVE  Book' = Book
BY SupportersUnchanged DEF Book, Entry

LEMMA PaidUnchanged ==
  ASSUME UNCHANGED paid, DOMAIN ballots' = DOMAIN ballots
  PROVE  Paid' = Paid
BY DEF Paid

\* A ballot that changes changes its entry in the book and no other.
LEMMA BookUpdate ==
  ASSUME NEW id \in DOMAIN ballots, DOMAIN ballots' = DOMAIN ballots,
         NEW entry, Entry(id)' = entry,
         \A i \in DOMAIN ballots \ {id} :
           ballots'[i] = ballots[i] /\ S(i, TRUE)' = S(i, TRUE) /\ S(i, FALSE)' = S(i, FALSE)
  PROVE  Book' = [Book EXCEPT ![id] = entry]
<1>1. \A i \in DOMAIN ballots \ {id} : Entry(i)' = Entry(i)
  BY DEF Entry
<1>2. Book' = [i \in DOMAIN ballots |-> Entry(i)']
  BY DEF Book
<1>3. [Book EXCEPT ![id] = entry] = [i \in DOMAIN ballots |-> IF i = id THEN entry ELSE Entry(i)]
  BY DEF Book
<1> QED BY <1>1, <1>2, <1>3

LEMMA InitFund == BothInit => Pool!Init
<1> SUFFICES ASSUME BothInit PROVE Pool!Init
  OBVIOUS
<1>1. balance = 0 /\ ballots = [id \in {} |-> 0] /\ DOMAIN ballots = {}
  BY DEF BothInit, Init, Community!Init
<1> QED BY <1>1 DEF Pool!Init

\* Money comes in, is spent by the admin, or is none of the pool's.
LEMMA TreasuryMoves ==
  ASSUME IInv, [Next]_vars, UNCHANGED <<proposalVars, paid>>
  PROVE  [Pool!Next]_(Pool!vars)
<1> USE TreasuryAssumption DEF TreasuryAssumption
<1>1. UNCHANGED <<ballots, cast, paid>>
  BY DEF proposalVars
<1>2. Book' = Book /\ Paid' = Paid
  BY <1>1, BookUnchanged, PaidUnchanged
<1>3. balance' \in Nat /\ balance \in Nat
  <2>1. IInv'
    BY NextIInv
  <2> QED BY <2>1 DEF IInv, TypeOK
<1>4. CASE balance' = balance
  BY <1>2, <1>4, PoolVars
<1>5. CASE balance' > balance
  BY <1>2, <1>3, <1>5 DEF Pool!Next, Pool!Contribute, Book, Entry, Paid, S
<1>6. CASE balance' < balance
  BY <1>2, <1>3, <1>6 DEF Pool!Next, Pool!Spend, Book, Entry, Paid, S
<1> QED BY <1>3, <1>4, <1>5, <1>6

LEMMA CreateOpens ==
  ASSUME BallotInv, ~EarlyCalls, NEW amount \in 1..MaxFunds, NEW expiresAt \in 1..MaxTime,
         Community!CreateProposal(amount, expiresAt), UNCHANGED vars, paid' = Payments(DOMAIN ballots')
  PROVE  Pool!Next
<1>1. PICK new : new = nextId
  OBVIOUS
<1>2. /\ new \notin DOMAIN ballots /\ new \in 0..(MaxBallots - 1)
      /\ UNCHANGED cast /\ balance' = balance
  BY <1>1, GovernanceAssumption DEF BallotInv, Dense, Community!CreateProposal, GovernanceAssumption, vars, treasuryVars
<1>3. /\ DOMAIN ballots' = DOMAIN ballots \cup {new} /\ ballots'[new].status = "Active"
      /\ \A i \in DOMAIN ballots : ballots'[i] = ballots[i]
  <2>1. ballots'[new] = [amount |-> amount, expiresAt |-> expiresAt, yes |-> 0, no |-> 0,
                         status |-> "Active"]
    BY <1>1, CreateKeeps DEF BallotInv, AskInv
  <2>2. DOMAIN ballots' = DOMAIN ballots \cup {new} /\ \A i \in DOMAIN ballots \ {new} : ballots'[i] = ballots[i]
    BY <1>1, CreateKeeps DEF BallotInv, AskInv
  <2> QED BY <1>2, <2>1, <2>2
<1>4. \A i, side : S(i, side)' = S(i, side)
  BY <1>2, SupportersUnchanged
<1>5. \A side : S(new, side) = {}
  BY <1>2, NobodyVotedYet DEF BallotInv
<1>6. /\ DOMAIN Book' = DOMAIN Book \cup {new} /\ new \notin DOMAIN Book
      /\ Book'[new].for = {} /\ Book'[new].against = {} /\ Book'[new].outcome = "Active"
      /\ \A i \in DOMAIN Book : Book'[i] = Book[i]
  <2>1. Book' = [i \in DOMAIN ballots \cup {new} |-> Entry(i)']
    BY <1>3 DEF Book
  <2>2. \A i \in DOMAIN ballots : Entry(i)' = Entry(i)
    BY <1>3, <1>4 DEF Entry
  <2>3. Entry(new)'.for = {} /\ Entry(new)'.against = {} /\ Entry(new)'.outcome = "Active"
    BY <1>3, <1>4, <1>5 DEF Entry
  <2> QED BY <1>2, <2>1, <2>2, <2>3 DEF Book
<1>7. Paid' = Paid
  <2>1. DOMAIN paid = DOMAIN ballots
    BY DEF BallotInv, PaidAreExecuted
  <2>2. paid' = [i \in DOMAIN ballots \cup {new} |-> IF i \in DOMAIN ballots THEN paid[i] ELSE 0]
    BY <1>3, <2>1 DEF Payments
  <2> QED BY <1>2, <1>3, <2>2 DEF Paid
<1>8. Pool!Open(new)
  BY <1>2, <1>6, <1>7 DEF Pool!Open, Book, Entry, Paid, S
<1> QED BY <1>2, <1>8 DEF Pool!Next

LEMMA VoteJoins ==
  ASSUME BallotInv, NEW v \in Addresses, NEW id \in DOMAIN ballots, NEW support \in BOOLEAN,
         Community!CastVote(v, id, support), UNCHANGED vars, paid' = Payments(DOMAIN ballots')
  PROVE  Pool!Next
<1>1. /\ ballots[id].status = "Active" /\ balance' = balance
      /\ cast' = cast \cup {[id |-> id, voter |-> v, support |-> support]}
      /\ ~Community!HasVoted(v, id, support)
  BY DEF Community!CastVote, vars, treasuryVars
<1>2. /\ DOMAIN ballots' = DOMAIN ballots
      /\ ballots'[id].status = ballots[id].status /\ ballots'[id].amount = ballots[id].amount
      /\ \A i \in DOMAIN ballots \ {id} : ballots'[i] = ballots[i]
  BY VoteKeeps DEF BallotInv, AskInv
<1>3. Paid' = Paid
  BY <1>2, SamePayments, PaidUnchanged DEF BallotInv
<1>4. v \notin S(id, TRUE) /\ v \notin S(id, FALSE)
  BY <1>1 DEF Community!HasVoted, S, Community!Supporters
<1>5. S(id, support)' = S(id, support) \cup {v} /\ \A j, side : j # id \/ side # support => S(j, side)' = S(j, side)
  BY <1>1, VoteCast
<1>6. /\ id \in DOMAIN Book /\ Book[id].outcome = "Active"
      /\ v \notin Book[id].for \cup Book[id].against
  BY <1>1, <1>4 DEF Book, Entry
<1>7. \A i \in DOMAIN ballots \ {id} :
        ballots'[i] = ballots[i] /\ S(i, TRUE)' = S(i, TRUE) /\ S(i, FALSE)' = S(i, FALSE)
  BY <1>2, <1>5
<1>8. CASE support
  <2>1. S(id, TRUE)' = S(id, TRUE) \cup {v} /\ S(id, FALSE)' = S(id, FALSE)
    BY <1>5, <1>8
  <2>2. PICK entry : entry = [Entry(id) EXCEPT !.for = @ \cup {v}]
    OBVIOUS
  <2>3. Entry(id)' = entry
    BY <1>2, <2>1, <2>2 DEF Entry
  <2>4. Book' = [Book EXCEPT ![id] = entry]
    BY <1>2, <1>7, <2>3, BookUpdate
  <2>5. Book' = [Book EXCEPT ![id].for = @ \cup {v}]
    BY <2>2, <2>4 DEF Book
  <2>6. Pool!Support(v, id)
    BY <1>1, <1>3, <1>6, <2>5 DEF Pool!Support, Book, Entry, Paid, S
  <2> QED BY <1>6, <2>6 DEF Pool!Next, Book
<1>9. CASE ~support
  <2>1. S(id, FALSE)' = S(id, FALSE) \cup {v} /\ S(id, TRUE)' = S(id, TRUE)
    BY <1>5, <1>9
  <2>2. PICK entry : entry = [Entry(id) EXCEPT !.against = @ \cup {v}]
    OBVIOUS
  <2>3. Entry(id)' = entry
    BY <1>2, <2>1, <2>2 DEF Entry
  <2>4. Book' = [Book EXCEPT ![id] = entry]
    BY <1>2, <1>7, <2>3, BookUpdate
  <2>5. Book' = [Book EXCEPT ![id].against = @ \cup {v}]
    BY <2>2, <2>4 DEF Book
  <2>6. Pool!Oppose(v, id)
    BY <1>1, <1>3, <1>6, <2>5 DEF Pool!Oppose, Book, Entry, Paid, S
  <2> QED BY <1>6, <2>6 DEF Pool!Next, Book
<1> QED BY <1>8, <1>9

\* Deciding a ballot changes the outcome in its entry.
LEMMA DecideCloses ==
  ASSUME BallotInv, NEW id \in DOMAIN ballots,
         NEW st \in {"Passed", "Rejected", "Expired", "Executed"}, Community!Decide(id, st), UNCHANGED cast
  PROVE  /\ Book' = [Book EXCEPT ![id].outcome = st]
         /\ id \in DOMAIN Book /\ Book[id] = Entry(id) /\ DOMAIN ballots' = DOMAIN ballots
<1>1. /\ DOMAIN ballots' = DOMAIN ballots
      /\ ballots'[id].status = st /\ ballots'[id].amount = ballots[id].amount
      /\ \A i \in DOMAIN ballots \ {id} : ballots'[i] = ballots[i]
  BY DecideKeeps DEF BallotInv, AskInv
<1>2. \A i, side : S(i, side)' = S(i, side)
  BY SupportersUnchanged
<1>3. PICK entry : entry = [Entry(id) EXCEPT !.outcome = st]
  OBVIOUS
<1>4. Entry(id)' = entry
  BY <1>1, <1>2, <1>3 DEF Entry
<1>5. Book' = [Book EXCEPT ![id] = entry]
  BY <1>1, <1>2, <1>4, BookUpdate
<1> QED BY <1>1, <1>3, <1>5 DEF Book

LEMMA CloseDecides ==
  ASSUME BallotInv, NEW id \in DOMAIN ballots,
         \/ Community!FinalizeProposal(id)
         \/ Community!FinalizeExpiredProposal(id)
         \/ Community!ExecuteProposal(id),
         UNCHANGED vars, paid' = Payments(DOMAIN ballots')
  PROVE  Pool!Next
<1>1. /\ ballots[id].yes = Cardinality(S(id, TRUE)) /\ ballots[id].no = Cardinality(S(id, FALSE))
      /\ Cardinality(S(id, TRUE)) \in Nat /\ Cardinality(S(id, FALSE)) \in Nat
  BY SameCardinality, SupportersFinite DEF BallotInv, Community!TalliesMatchVotes, S
<1>2. UNCHANGED cast /\ balance' = balance
  BY Decisions DEF vars, treasuryVars
<1>3. ASSUME NEW st \in {"Passed", "Rejected", "Expired", "Executed"}, Community!Decide(id, st)
      PROVE  /\ Book' = [Book EXCEPT ![id].outcome = st] /\ Paid' = Paid
             /\ id \in DOMAIN Book /\ Book[id] = Entry(id)
  BY <1>2, <1>3, DecideCloses, SamePayments, PaidUnchanged DEF BallotInv
<1>4. \A st \in {"Passed", "Rejected", "Expired"} :
        ballots[id].status = "Active" /\ Community!Decide(id, st) => Pool!Closes(id, st)
  <2> SUFFICES ASSUME NEW st \in {"Passed", "Rejected", "Expired"}, ballots[id].status = "Active",
                      Community!Decide(id, st)
               PROVE  Pool!Closes(id, st)
    OBVIOUS
  <2>1. Book[id].outcome = "Active" /\ Book' = [Book EXCEPT ![id].outcome = st] /\ Paid' = Paid
    BY <1>3 DEF Entry
  <2> QED BY <1>2, <2>1 DEF Pool!Closes, Book, Entry, Paid, S
<1>5. Pool!Cardinality(S(id, TRUE)) = ballots[id].yes /\ Pool!Cardinality(S(id, FALSE)) = ballots[id].no
  BY <1>1, SameCardinality
<1>6. ASSUME Community!FinalizeProposal(id), Community!Carried(ballots[id]) PROVE Pool!Pass(id)
  <2>1. Pool!Closes(id, "Passed") /\ ballots[id].yes > ballots[id].no
    BY <1>4, <1>6 DEF Community!FinalizeProposal, Community!Carried
  <2> QED BY <1>5, <2>1 DEF Pool!Pass, S
<1>7. ASSUME Community!FinalizeProposal(id), ~Community!Carried(ballots[id]) PROVE Pool!Reject(id)
  <2>1. Pool!Closes(id, "Rejected") /\ ~(ballots[id].yes > ballots[id].no)
    BY <1>4, <1>7 DEF Community!FinalizeProposal, Community!Carried
  <2>2. Pool!Cardinality(S(id, TRUE)) <= Pool!Cardinality(S(id, FALSE))
    <3>1. ballots[id].yes \in Nat /\ ballots[id].no \in Nat
      BY <1>1
    <3>2. ballots[id].yes <= ballots[id].no
      BY <2>1, <3>1
    <3> QED BY <1>5, <3>2
  <2> QED BY <2>1, <2>2 DEF Pool!Reject, S
<1>8. ASSUME Community!FinalizeExpiredProposal(id) PROVE Pool!Lapse(id)
  BY <1>4, <1>8 DEF Community!FinalizeExpiredProposal, Pool!Lapse
<1>9. ASSUME Community!ExecuteProposal(id) PROVE Pool!Release(id)
  <2>1. /\ Book[id].outcome = "Passed" /\ Paid' = Paid
        /\ Book' = [Book EXCEPT ![id].outcome = "Executed"]
    BY <1>3, <1>9 DEF Community!ExecuteProposal, Community!Executable, Entry
  <2> QED BY <1>2, <2>1 DEF Pool!Release, Book, Entry, Paid, S
<1>10. Pool!Pass(id) \/ Pool!Reject(id) \/ Pool!Lapse(id) \/ Pool!Release(id)
  BY <1>6, <1>7, <1>8, <1>9
<1> QED BY <1>10 DEF Pool!Next

LEMMA PayReleases ==
  ASSUME IInv, BallotInv, NEW caller \in Addresses, NEW id \in DOMAIN ballots, ExecuteWithdraw(caller, id)
  PROVE  Pool!Next
<1>1. /\ ballots[id].status = "Passed" /\ Community!Decide(id, "Executed") /\ UNCHANGED cast
      /\ paid' = [paid EXCEPT ![id] = @ + 1]
      /\ balance >= ballots[id].amount /\ balance' = balance - ballots[id].amount
  BY DEF ExecuteWithdraw, Community!Settle, Community!Executable, Community!Marked, Withdraw, Covers, Debited
<1>2. /\ Book' = [Book EXCEPT ![id].outcome = "Executed"] /\ DOMAIN ballots' = DOMAIN ballots
      /\ id \in DOMAIN Book /\ Book[id] = Entry(id)
  BY <1>1, DecideCloses
<1>3. Book[id].outcome = "Passed" /\ Book[id].amount = ballots[id].amount
  BY <1>1, <1>2 DEF Entry
<1>4. Paid' = Paid \cup {id}
  BY <1>1, <1>2 DEF BallotInv, PaidAreExecuted, Paid
<1>5. Pool!Release(id)
  BY <1>1, <1>2, <1>3, <1>4 DEF Pool!Release, Book, Entry, Paid, S
<1> QED BY <1>5 DEF Pool!Next

LEMMA StepFund ==
  ~EarlyCalls /\ IInv /\ BallotInv /\ [BothNext]_allVars => [Pool!Next]_(Pool!vars)
<1> SUFFICES ASSUME ~EarlyCalls, IInv, BallotInv, [BothNext]_allVars
             PROVE  [Pool!Next]_(Pool!vars)
  OBVIOUS
<1>1. ASSUME [Next]_vars, UNCHANGED <<proposalVars, paid>> PROVE [Pool!Next]_(Pool!vars)
  BY <1>1, TreasuryMoves
<1>2. ASSUME Community!Call, UNCHANGED vars, paid' = Payments(DOMAIN ballots')
      PROVE  [Pool!Next]_(Pool!vars)
  <2>1. ASSUME NEW id \in DOMAIN ballots,
               \/ Community!FinalizeProposal(id)
               \/ Community!FinalizeExpiredProposal(id)
               \/ Community!ExecuteProposal(id)
        PROVE  Pool!Next
    BY <1>2, <2>1, CloseDecides
  <2>2. ASSUME Community!Initialize PROVE UNCHANGED Pool!vars
    <3>1. UNCHANGED <<ballots, cast, balance>>
      BY <1>2, <2>2 DEF Community!Initialize, vars, treasuryVars
    <3>2. Paid' = Paid
      BY <1>2, <3>1, SamePayments, PaidUnchanged DEF BallotInv
    <3> QED BY <3>1, <3>2, BookUnchanged, PoolVars
  <2>3. ASSUME NEW amount \in 1..MaxFunds, NEW expiresAt \in 1..MaxTime,
               Community!CreateProposal(amount, expiresAt)
        PROVE  Pool!Next
    BY <1>2, <2>3, CreateOpens
  <2>4. ASSUME NEW id \in DOMAIN ballots, NEW v \in Addresses, NEW support \in BOOLEAN,
               Community!CastVote(v, id, support)
        PROVE  Pool!Next
    BY <1>2, <2>4, VoteJoins
  <2> QED BY <1>2, <2>1, <2>2, <2>3, <2>4 DEF Community!Call
<1>3. ASSUME NEW caller \in Addresses, NEW id \in DOMAIN ballots, ExecuteWithdraw(caller, id)
      PROVE  Pool!Next
  BY <1>3, PayReleases
<1> QED BY <1>1, <1>2, <1>3 DEF BothNext, allVars

\* The two contracts keep the fund's promise: the money of a ballot leaves the
\* pool once, after more accounts supported it than opposed it.
THEOREM FundImplemented == ASSUME ~EarlyCalls PROVE BothSpec => ImplementsFund
<1>1. IInv /\ [BothNext]_allVars /\ AskInv => IInv'
  BY TreasuryStep, NextIInv
<1>2. BothSpec => [](IInv /\ BallotInv)
  <2>1. BothInit => IInv /\ BallotInv
    BY InitIInv, InitBallot DEF BothInit
  <2>2. IInv /\ BallotInv /\ [BothNext]_allVars => (IInv /\ BallotInv)'
    BY <1>1, StepBallot DEF BallotInv
  <2> QED BY <2>1, <2>2, PTL DEF BothSpec
<1>3. BothSpec => Pool!Init /\ [][Pool!Next]_(Pool!vars)
  BY <1>2, InitFund, StepFund, PTL DEF BothSpec
<1> QED BY <1>3 DEF ImplementsFund, Pool!Spec

=============================================================================
