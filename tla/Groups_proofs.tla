---------------------------- MODULE Groups_proofs ----------------------------
(***************************************************************************)
(* Proofs about the two ledgers of a group, MlsGroup and GroupControl, for *)
(* any users, devices, requests and bounds.                                *)
(*                                                                         *)
(* MlsGroup: the inductive invariant IInv strengthens the safety           *)
(* properties with what a request in flight knows: its epoch is at most    *)
(* one ahead of the group (a client builds on an epoch that exists), so if *)
(* it is exactly one ahead then no commit was applied since it was posted, *)
(* and the leaf the handler looked at without the lock is still there      *)
(* under the lock.  LogInv adds that the log records real changes: nobody  *)
(* is added who is in the tree already, and each leaf was seated by the    *)
(* commit of the epoch it joined at.  What a device may read, and what it  *)
(* is served to catch up, follow from it by replaying the log.             *)
(*                                                                         *)
(* GroupControl: that the log is in one order rests on the conversation's  *)
(* row: whoever holds it has bumped the epoch the group is still at        *)
(* (RowHolder). That the log's additions stay rests on a leave taking no   *)
(* more rows than its user has (TakesRows). That a reader misses nothing   *)
(* rests on the order of the log: a page of it is an interval of sequence  *)
(* numbers.                                                                *)
(***************************************************************************)
EXTENDS MlsGroup, GroupControl, FiniteSetTheorems, FunctionTheorems, WellFoundedInduction, TLAPS

\* A row's interval lies within the epochs the group has reached.
LeafBounds ==
  \A l \in leaves :
    /\ l.joined <= currentEpoch
    /\ l.removed # Open => l.joined < l.removed /\ l.removed <= currentEpoch

\* What the body of a request in flight was validated to be.
RequestShape ==
  \A d \in Devices : req[d].pc # "idle" =>
    /\ d \notin req[d].removed
    /\ req[d].added \cap req[d].removed = {}
    /\ req[d].epoch >= 1
    /\ exists => req[d].epoch <= currentEpoch + 1

\* A request past the leaf check that can still win has an active author.
RequestAuthor ==
  \A d \in Devices :
    /\ exists
    /\ req[d].pc \in {"active", "valid", "locked"}
    /\ req[d].epoch = currentEpoch + 1
    => IsActive(d)

\* The lock holder is the one request past the epoch check.
LockHolder ==
  \A d \in Devices :
    /\ req[d].pc = "locked" <=> lock = d
    /\ req[d].pc = "locked" => exists /\ req[d].epoch = currentEpoch + 1

\* Before the group is created, and after the conversation is deleted, the
\* tables are empty; requests outlive the group only when nobody can found
\* another one.
NoGroup ==
  /\ ~exists => leaves = {} /\ commits = {} /\ welcomes = {} /\ currentEpoch = 0
  /\ members = {} => ~exists
  /\ ~exists /\ members # {} => \A d \in Devices : req[d].pc = "idle"

\* The part of the invariant that speaks of the ledger alone.
LedgerInv ==
  /\ LeafBounds
  /\ WindowsDisjoint
  /\ CommitsGapFree
  /\ WindowsMatchLog
  /\ CommitterInTree
  /\ NeverEmptied

IInv ==
  /\ TypeOK
  /\ LedgerInv
  /\ RequestShape
  /\ RequestAuthor
  /\ LockHolder
  /\ NoGroup

-----------------------------------------------------------------------------
\* The trees depend on the leaves only.
LEMMA TreesUnchanged ==
  ASSUME UNCHANGED leaves
  PROVE  \A e : TreeAt(e)' = TreeAt(e)
BY DEF TreeAt, Covers

\* At the newest epoch the tree is the set of active leaves.
LEMMA CurrentTree ==
  ASSUME TypeOK, LeafBounds
  PROVE  TreeAt(currentEpoch) = {d \in Devices : IsActive(d)}
<1>1. \A l \in leaves : Covers(l, currentEpoch) <=> l.removed = Open
  BY DEF TypeOK, LeafBounds, Covers, Leaf, Open
<1>2. QED
  BY <1>1 DEF TreeAt, IsActive

\* Applying a commit leaves the tree of every epoch already reached alone.
LEMMA PastTreesFixed ==
  ASSUME IInv, NEW d \in Devices, ApplyCommit(d), NEW e \in 0..currentEpoch
  PROVE  TreeAt(e)' = TreeAt(e)
<1> DEFINE n == currentEpoch + 1
           R == req[d].removed
           A == req[d].added
<1>1. /\ req[d].epoch = n /\ n \in Nat /\ e \in Nat /\ e < n
      /\ leaves' = ClosedLeaves(R, n) \cup OpenedLeaves(A, n)
  BY DEF IInv, TypeOK, LockHolder, ApplyCommit
<1>2. ASSUME NEW x \in Devices, x \in TreeAt(e)
      PROVE  x \in TreeAt(e)'
  <2>1. PICK l \in leaves : l.device = x /\ Covers(l, e)
    BY <1>2 DEF TreeAt
  <2>2. l \in Leaf
    BY DEF IInv, TypeOK
  <2> DEFINE k == IF l.device \in R /\ l.removed = Open
                  THEN [l EXCEPT !.removed = n] ELSE l
  <2>3. k \in leaves'
    BY <1>1, <2>1 DEF ClosedLeaves, ClosedAt
  <2>4. k.device = x /\ k.joined = l.joined /\ (k.removed = l.removed \/ k.removed = n)
    BY <2>1, <2>2 DEF Leaf
  <2>5. Covers(k, e)
    BY <1>1, <2>1, <2>2, <2>4 DEF Covers, Leaf, Open
  <2>6. QED
    BY <2>3, <2>4, <2>5 DEF TreeAt, Covers
<1>3. ASSUME NEW x \in Devices, x \in TreeAt(e)'
      PROVE  x \in TreeAt(e)
  <2>1. PICK k \in leaves' : k.device = x /\ Covers(k, e)
    BY <1>3 DEF TreeAt, Covers
  <2>2. k \notin OpenedLeaves(A, n)
    BY <1>1, <2>1 DEF OpenedLeaves, Covers
  <2>3. PICK l \in leaves : k = IF l.device \in R /\ l.removed = Open
                                THEN [l EXCEPT !.removed = n] ELSE l
    BY <1>1, <2>1, <2>2 DEF ClosedLeaves, ClosedAt
  <2>4. l \in Leaf
    BY DEF IInv, TypeOK
  <2>5. l.device = x /\ Covers(l, e)
    BY <1>1, <2>1, <2>3, <2>4 DEF Covers, Leaf, Open
  <2>6. QED
    BY <2>5 DEF TreeAt
<1>4. QED
  BY <1>2, <1>3 DEF TreeAt

\* The tree a commit produces is the newest tree with the changes made.
LEMMA NewTree ==
  ASSUME IInv, NEW d \in Devices, ApplyCommit(d), NEW n, n = currentEpoch + 1
  PROVE  TreeAt(n)' = (TreeAt(currentEpoch) \ req[d].removed) \cup req[d].added
<1> DEFINE R == req[d].removed
           A == req[d].added
<1>1. /\ req[d].epoch = n /\ n \in Nat
      /\ A \subseteq Devices
      /\ leaves' = ClosedLeaves(R, n) \cup OpenedLeaves(A, n)
  BY DEF IInv, TypeOK, LockHolder, ApplyCommit, Request
<1>2. TreeAt(currentEpoch) = {x \in Devices : IsActive(x)}
  BY CurrentTree DEF IInv, LedgerInv
<1>3. ASSUME NEW x \in Devices, x \in (TreeAt(currentEpoch) \ R) \cup A
      PROVE  x \in TreeAt(n)'
  <2>1. CASE x \in A
    <3> DEFINE k == [device |-> x, joined |-> n, removed |-> Open]
    <3>1. k \in leaves'
      BY <1>1, <2>1 DEF OpenedLeaves
    <3>2. k.device = x /\ Covers(k, n)
      BY <1>1 DEF Covers
    <3>3. QED
      BY <3>1, <3>2 DEF TreeAt, Covers
  <2>2. CASE x \notin A
    <3>1. PICK l \in leaves : l.device = x /\ l.removed = Open
      BY <1>2, <1>3, <2>2 DEF IsActive
    <3>2. x \notin R
      BY <1>3, <2>2
    <3>3. l \in leaves'
      BY <1>1, <3>1, <3>2 DEF ClosedLeaves, ClosedAt
    <3>4. Covers(l, n)
      BY <1>1, <3>1 DEF Covers, IInv, LedgerInv, LeafBounds, TypeOK, Leaf
    <3>5. QED
      BY <3>1, <3>3, <3>4 DEF TreeAt, Covers
  <2>3. QED
    BY <2>1, <2>2
<1>4. ASSUME NEW x \in Devices, x \in TreeAt(n)', x \notin A
      PROVE  x \in TreeAt(currentEpoch) \ R
  <2>1. PICK k \in leaves' : k.device = x /\ Covers(k, n)
    BY <1>4 DEF TreeAt, Covers
  <2>2. k \notin OpenedLeaves(A, n)
    BY <1>4, <2>1 DEF OpenedLeaves
  <2>3. PICK l \in leaves : k = IF l.device \in R /\ l.removed = Open
                                THEN [l EXCEPT !.removed = n] ELSE l
    BY <1>1, <2>1, <2>2 DEF ClosedLeaves, ClosedAt
  <2>4. l \in Leaf /\ (l.removed # Open => l.removed <= currentEpoch)
    BY DEF IInv, TypeOK, LedgerInv, LeafBounds
  <2>5. ~(l.device \in R /\ l.removed = Open)
    <3>1. SUFFICES ASSUME l.device \in R, l.removed = Open  PROVE FALSE
      OBVIOUS
    <3>2. k.removed = n
      BY <2>3, <2>4, <3>1 DEF Leaf
    <3>3. QED
      BY <1>1, <2>1, <3>2 DEF Covers, Open
  <2>6. l.removed = Open /\ l.device \notin R /\ k = l
    <3>1. k = l
      BY <2>3, <2>5
    <3>2. currentEpoch \in Nat
      BY DEF IInv, TypeOK
    <3>3. QED
      BY <1>1, <2>1, <2>4, <2>5, <3>1, <3>2 DEF Covers, Leaf, Open
  <2>7. QED
    BY <1>2, <2>1, <2>6 DEF IsActive
<1>5. QED
  BY <1>1, <1>3, <1>4 DEF TreeAt

\* A step that leaves the ledger alone leaves what is said of it true.
LEMMA LedgerUnchanged ==
  ASSUME LedgerInv, UNCHANGED <<exists, currentEpoch, leaves, commits>>
  PROVE  LedgerInv'
<1>1. \A e : TreeAt(e)' = TreeAt(e)
  BY TreesUnchanged
<1>2. NeverEmptied'
  BY <1>1 DEF LedgerInv, NeverEmptied
<1>3. WindowsMatchLog' /\ CommitterInTree'
  BY <1>1 DEF LedgerInv, WindowsMatchLog, CommitterInTree
<1>4. LeafBounds' /\ WindowsDisjoint' /\ CommitsGapFree'
  BY DEF LedgerInv, LeafBounds, WindowsDisjoint, Before, CommitsGapFree
<1>5. QED
  BY <1>2, <1>3, <1>4 DEF LedgerInv

\* Applying a commit keeps the ledger consistent.
LEMMA LedgerApply ==
  ASSUME IInv, NEW d \in Devices, ApplyCommit(d)
  PROVE  LedgerInv'
<1> DEFINE R == req[d].removed
           A == req[d].added
<1>1. PICK n \in Nat : n = currentEpoch + 1
  BY DEF IInv, TypeOK
<1> DEFINE c == [epoch |-> n, committer |-> d, added |-> A, removed |-> R]
<1>2. /\ req[d].epoch = n /\ currentEpoch \in Nat /\ currentEpoch' = n
      /\ A \subseteq Devices /\ R \subseteq Devices
      /\ leaves' = ClosedLeaves(R, n) \cup OpenedLeaves(A, n)
      /\ commits' = commits \cup {c}
      /\ exists /\ exists'
  BY <1>1 DEF IInv, TypeOK, LockHolder, ApplyCommit, Request
<1>3. A \cap R = {} /\ d \notin R /\ \A x \in A : ~IsActive(x)
  BY DEF IInv, RequestShape, ApplyCommit, BreaksActiveIndex
<1>4. IsActive(d)
  BY <1>1, <1>2 DEF IInv, RequestAuthor, ApplyCommit
<1>5. TreeAt(currentEpoch) = {x \in Devices : IsActive(x)}
  BY CurrentTree DEF IInv, LedgerInv
<1>6. TreeAt(n)' = (TreeAt(currentEpoch) \ R) \cup A
  BY <1>1, NewTree
<1>7. \A e \in 0..currentEpoch : TreeAt(e)' = TreeAt(e)
  BY PastTreesFixed
\* Each row afterwards is one that was there, closed or not, or a new one.
<1>8. ASSUME NEW k \in leaves'
      PROVE  \/ k \in OpenedLeaves(A, n) /\ k.device \in A /\ k.joined = n /\ k.removed = Open
             \/ \E l \in leaves :
                  /\ l \in Leaf /\ k \in Leaf /\ k.device = l.device /\ k.joined = l.joined
                  /\ k = IF l.device \in R /\ l.removed = Open
                         THEN [l EXCEPT !.removed = n] ELSE l
                  /\ k.removed = IF l.device \in R /\ l.removed = Open THEN n ELSE l.removed
  <2>1. CASE k \in OpenedLeaves(A, n)
    BY <2>1 DEF OpenedLeaves
  <2>2. CASE k \notin OpenedLeaves(A, n)
    <3>1. PICK l \in leaves : k = IF l.device \in R /\ l.removed = Open
                                  THEN [l EXCEPT !.removed = n] ELSE l
      BY <1>2, <2>2, <1>8 DEF ClosedLeaves, ClosedAt
    <3>2. l \in Leaf
      BY DEF IInv, TypeOK
    <3>3. QED
      BY <3>1, <3>2 DEF Leaf
  <2>3. QED
    BY <2>1, <2>2
<1>9. LeafBounds'
  <2> SUFFICES ASSUME NEW k \in leaves'
               PROVE  /\ k.joined <= n
                      /\ k.removed # Open => k.joined < k.removed /\ k.removed <= n
    BY <1>2 DEF LeafBounds
  <2>1. \A l \in leaves : /\ l.joined <= currentEpoch
                          /\ l.removed # Open => l.joined < l.removed /\ l.removed <= currentEpoch
    BY DEF IInv, LedgerInv, LeafBounds
  <2>2. QED
    BY <1>1, <1>2, <1>8, <2>1 DEF Leaf, Open
<1>10. WindowsDisjoint'
  <2> SUFFICES ASSUME NEW k \in leaves', NEW m \in leaves', k.device = m.device
               PROVE  k = m \/ Before(k, m) \/ Before(m, k)
    BY DEF WindowsDisjoint, Before
  <2>1. \A l \in leaves : l.removed # Open => l.removed <= currentEpoch /\ l.removed < n
    BY <1>1, <1>2 DEF IInv, LedgerInv, LeafBounds, TypeOK, Leaf, Open
  <2>2. \A l \in leaves : l.device \in A => l.removed # Open /\ l.device \notin R
    BY <1>3 DEF IsActive
  <2>3. CASE k \in OpenedLeaves(A, n) /\ m \in OpenedLeaves(A, n)
    BY <2>3 DEF OpenedLeaves
  <2>4. CASE k \notin OpenedLeaves(A, n) /\ m \in OpenedLeaves(A, n)
    <3>1. PICK l \in leaves : k.device = l.device /\ k.removed =
                 IF l.device \in R /\ l.removed = Open THEN n ELSE l.removed
      BY <1>8, <2>4
    <3>2. m.device \in A /\ m.joined = n
      BY <2>4 DEF OpenedLeaves
    <3>3. k.removed = l.removed /\ l.removed # Open /\ l.removed <= n
      BY <1>1, <1>2, <2>1, <2>2, <3>1, <3>2 DEF IInv, TypeOK, Leaf, Open
    <3>4. QED
      BY <3>2, <3>3 DEF Before
  <2>5. CASE k \in OpenedLeaves(A, n) /\ m \notin OpenedLeaves(A, n)
    <3>1. PICK l \in leaves : m.device = l.device /\ m.removed =
                 IF l.device \in R /\ l.removed = Open THEN n ELSE l.removed
      BY <1>8, <2>5
    <3>2. k.device \in A /\ k.joined = n
      BY <2>5 DEF OpenedLeaves
    <3>3. m.removed = l.removed /\ l.removed # Open /\ l.removed <= n
      BY <1>1, <1>2, <2>1, <2>2, <3>1, <3>2 DEF IInv, TypeOK, Leaf, Open
    <3>4. QED
      BY <3>2, <3>3 DEF Before
  <2>6. CASE k \notin OpenedLeaves(A, n) /\ m \notin OpenedLeaves(A, n)
    <3>1. PICK l \in leaves :
             /\ k.device = l.device /\ k.joined = l.joined
             /\ k = IF l.device \in R /\ l.removed = Open
                    THEN [l EXCEPT !.removed = n] ELSE l
             /\ k.removed = IF l.device \in R /\ l.removed = Open THEN n ELSE l.removed
      BY <1>8, <2>6
    <3>2. PICK l2 \in leaves :
             /\ m.device = l2.device /\ m.joined = l2.joined
             /\ m = IF l2.device \in R /\ l2.removed = Open
                    THEN [l2 EXCEPT !.removed = n] ELSE l2
             /\ m.removed = IF l2.device \in R /\ l2.removed = Open THEN n ELSE l2.removed
      BY <1>8, <2>6
    <3>3. l = l2 \/ Before(l, l2) \/ Before(l2, l)
      BY <3>1, <3>2 DEF IInv, LedgerInv, WindowsDisjoint
    <3>4. CASE l = l2
      BY <3>1, <3>2, <3>4
    <3>5. CASE Before(l, l2)
      BY <3>1, <3>2, <3>5 DEF Before
    <3>6. CASE Before(l2, l)
      BY <3>1, <3>2, <3>6 DEF Before
    <3>7. QED
      BY <3>3, <3>4, <3>5, <3>6
  <2>7. QED
    BY <2>3, <2>4, <2>5, <2>6
<1>11. CommitsGapFree'
  <2>1. {b.epoch : b \in commits'} = {b.epoch : b \in commits} \cup {n}
    <3>1. c.epoch = n
      OBVIOUS
    <3> HIDE DEF c
    <3>2. QED
      BY <1>2, <3>1
  <2>2. {b.epoch : b \in commits} = 1..currentEpoch
    BY DEF IInv, LedgerInv, CommitsGapFree
  <2>3. {b.epoch : b \in commits'} = 1..n
    BY <1>1, <1>2, <2>1, <2>2
  <2>4. \A b \in commits : b.epoch # n
    BY <1>1, <1>2, <2>2
  <2>5. \A a, b \in commits' : a.epoch = b.epoch => a = b
    BY <1>2, <2>4 DEF IInv, LedgerInv, CommitsGapFree
  <2>6. QED
    BY <1>2, <2>3, <2>5 DEF CommitsGapFree
<1>12. \A b \in commits : /\ b.epoch \in Nat /\ b.epoch - 1 \in 0..currentEpoch
                          /\ b.epoch \in 0..currentEpoch
  <2>1. \A b \in commits : b.epoch \in 1..currentEpoch
    BY DEF IInv, LedgerInv, CommitsGapFree
  <2>2. QED
    BY <1>2, <2>1
<1>13. WindowsMatchLog'
  <2> SUFFICES ASSUME NEW b \in commits'
               PROVE  TreeAt(b.epoch)' = (TreeAt(b.epoch - 1)' \ b.removed) \cup b.added
    BY DEF WindowsMatchLog
  <2>1. CASE b \in commits
    BY <1>7, <1>12, <2>1 DEF IInv, LedgerInv, WindowsMatchLog
  <2>2. CASE b = c
    <3>1. b.epoch = n /\ b.epoch - 1 = currentEpoch /\ b.removed = R /\ b.added = A
      BY <1>1, <1>2, <2>2
    <3>2. TreeAt(currentEpoch) = TreeAt(b.epoch - 1)'
      BY <1>2, <1>7, <3>1
    <3>3. QED
      BY <1>6, <3>1, <3>2
  <2>3. QED
    BY <1>2, <2>1, <2>2
<1>14. CommitterInTree'
  <2> SUFFICES ASSUME NEW b \in commits'
               PROVE  b.committer \in TreeAt(b.epoch - 1)'
    BY DEF CommitterInTree
  <2>1. CASE b \in commits
    BY <1>7, <1>12, <2>1 DEF IInv, LedgerInv, CommitterInTree
  <2>2. CASE b = c
    <3>1. b.committer = d /\ b.epoch - 1 = currentEpoch
      BY <1>1, <1>2, <2>2
    <3>2. TreeAt(currentEpoch) = TreeAt(b.epoch - 1)'
      BY <1>2, <1>7, <3>1
    <3>3. QED
      BY <1>4, <1>5, <3>1, <3>2
  <2>3. QED
    BY <1>2, <2>1, <2>2
<1>15. NeverEmptied'
  <2>1. d \in TreeAt(n)'
    BY <1>3, <1>4, <1>5, <1>6
  <2>2. \A e : e = n => TreeAt(e)' = TreeAt(n)'
    OBVIOUS
  <2>3. QED
    BY <1>2, <2>1 DEF NeverEmptied, TreeAt
<1>16. QED
  BY <1>9, <1>10, <1>11, <1>13, <1>14, <1>15 DEF LedgerInv

-----------------------------------------------------------------------------
LEMMA InitIInv == Init => IInv
<1> SUFFICES ASSUME Init PROVE IInv
  OBVIOUS
<1> USE DEF Init
<1>1. TypeOK
  BY DEF TypeOK, Idle, Request
<1>2. LedgerInv
  BY DEF LedgerInv, LeafBounds, WindowsDisjoint, CommitsGapFree, WindowsMatchLog,
         CommitterInTree, NeverEmptied
<1>3. RequestShape /\ RequestAuthor /\ LockHolder /\ NoGroup
  BY NoDeviceAssumption DEF RequestShape, RequestAuthor, LockHolder, NoGroup, Idle
<1>4. QED
  BY <1>1, <1>2, <1>3 DEF IInv

\* Every step keeps the variables well typed.
LEMMA TypePreserved ==
  ASSUME IInv, [Next]_vars
  PROVE  TypeOK'
<1> USE DEF TypeOK
<1>1. TypeOK
  BY DEF IInv
<1>2. Idle \in Request
  BY DEF Idle, Request
<1>3. ASSUME NEW d \in Devices, CreateGroup(d) PROVE TypeOK'
  BY <1>1, <1>3 DEF CreateGroup, Leaf, Open
<1>4. ASSUME NEW d \in Devices, NEW n \in 1..MaxEpoch,
             NEW A \in SUBSET Devices, NEW R \in SUBSET Devices, PostCommit(d, n, A, R)
      PROVE  TypeOK'
  <2>1. [pc |-> "resolved", epoch |-> n, added |-> A, removed |-> R] \in Request
    BY BoundAssumption DEF Request
  <2>2. QED
    BY <1>1, <1>4, <2>1 DEF PostCommit
<1>5. ASSUME NEW d \in Devices, CheckActive(d) PROVE TypeOK'
  <2>1. [req[d] EXCEPT !.pc = "active"] \in Request
    BY <1>1 DEF Request
  <2>2. QED
    BY <1>1, <1>2, <1>5, <2>1 DEF CheckActive, Answer
<1>6. ASSUME NEW d \in Devices, CheckAdded(d) PROVE TypeOK'
  <2>1. [req[d] EXCEPT !.pc = "valid"] \in Request
    BY <1>1 DEF Request
  <2>2. QED
    BY <1>1, <1>2, <1>6, <2>1 DEF CheckAdded, Answer
<1>7. ASSUME NEW d \in Devices, LockGroup(d) PROVE TypeOK'
  <2>1. [req[d] EXCEPT !.pc = "locked"] \in Request
    BY <1>1 DEF Request
  <2>2. QED
    BY <1>1, <1>2, <1>7, <2>1 DEF LockGroup, WinsEpoch, Answer
<1>8. ASSUME NEW d \in Devices, ApplyCommit(d) PROVE TypeOK'
  <2> DEFINE n == req[d].epoch
             A == req[d].added
             R == req[d].removed
  <2>1. n \in Nat /\ A \subseteq Devices /\ R \subseteq Devices
    BY <1>1 DEF Request
  <2>2. ClosedLeaves(R, n) \subseteq Leaf
    BY <1>1, <2>1 DEF ClosedLeaves, ClosedAt, Leaf
  <2>3. OpenedLeaves(A, n) \subseteq Leaf
    BY <2>1 DEF OpenedLeaves, Leaf
  <2>4. NewWelcomes(A, n) \subseteq Welcome
    <3>1. \A x \in A : [device |-> x, epoch |-> n, claimed |-> FALSE] \in Welcome
      BY <2>1 DEF Welcome
    <3>2. QED
      BY <3>1 DEF NewWelcomes
  <2>5. [epoch |-> n, committer |-> d, added |-> A, removed |-> R] \in CommitRow
    BY <2>1 DEF CommitRow
  <2>6. QED
    BY <1>1, <1>2, <1>8, <2>1, <2>2, <2>3, <2>4, <2>5 DEF ApplyCommit, ReleaseGroup, Answer
<1>9. ASSUME NEW d \in Devices, AbortCommit(d) \/ LoseRequest(d) PROVE TypeOK'
  BY <1>1, <1>2, <1>9 DEF AbortCommit, LoseRequest, ReleaseGroup, Answer
<1>10. ASSUME NEW d \in Devices, NEW w \in welcomes, ClaimWelcome(d, w) PROVE TypeOK'
  <2>1. [w EXCEPT !.claimed = TRUE] \in Welcome
    BY <1>1 DEF Welcome
  <2>2. QED
    BY <1>1, <1>10, <2>1 DEF ClaimWelcome
<1>11. ASSUME NEW d \in Devices, RevokeDevice(d) \/ RelinkDevice(d) PROVE TypeOK'
  BY <1>1, <1>11 DEF RevokeDevice, RelinkDevice
<1>12. ASSUME NEW u \in Users, Leave(u) \/ LeaveLast(u) \/ Invite(u) PROVE TypeOK'
  <2>1. CASE Leave(u)
    BY <1>1, <2>1 DEF Leave
  <2>2. CASE LeaveLast(u)
    BY <1>1, <2>2 DEF LeaveLast
  <2>3. CASE Invite(u)
    BY <1>1, <2>3 DEF Invite
  <2>4. QED
    BY <1>12, <2>1, <2>2, <2>3
<1>13. CASE UNCHANGED vars
  BY <1>1, <1>13 DEF vars
<1>14. QED
  BY <1>3, <1>4, <1>5, <1>6, <1>7, <1>8, <1>9, <1>10, <1>11, <1>12, <1>13 DEF Next

\* Founding a group: an empty ledger with one leaf, and no request in flight.
LEMMA CreateStep ==
  ASSUME IInv, NEW d \in Devices, CreateGroup(d)
  PROVE  LedgerInv' /\ RequestShape' /\ RequestAuthor' /\ LockHolder' /\ NoGroup'
<1> DEFINE k == [device |-> d, joined |-> 0, removed |-> Open]
<1>1. /\ ~exists /\ exists' /\ currentEpoch' = 0 /\ leaves' = {k} /\ commits' = {}
      /\ req' = req /\ lock' = lock /\ members' = members /\ members # {}
  BY DEF CreateGroup, MayCall, IInv, NoGroup
<1>2. \A x \in Devices : req[x].pc = "idle"
  BY <1>1 DEF IInv, NoGroup
<1>3. LeafBounds' /\ WindowsDisjoint' /\ CommitsGapFree'
  BY <1>1 DEF LeafBounds, WindowsDisjoint, CommitsGapFree, Open
<1>4. WindowsMatchLog' /\ CommitterInTree'
  BY <1>1 DEF WindowsMatchLog, CommitterInTree
<1>5. NeverEmptied'
  <2>1. k.device = d /\ Covers(k, 0)
    BY DEF Covers
  <2>2. d \in TreeAt(currentEpoch)'
    BY <1>1, <2>1 DEF TreeAt, Covers
  <2>3. QED
    BY <2>2 DEF NeverEmptied
<1>6. RequestShape' /\ RequestAuthor' /\ LockHolder'
  BY <1>1, <1>2 DEF RequestShape, RequestAuthor, LockHolder, IInv
<1>7. NoGroup'
  BY <1>1 DEF NoGroup
<1>8. QED
  BY <1>3, <1>4, <1>5, <1>6, <1>7 DEF LedgerInv

\* A request that begins: its author's leaf has not been looked at yet.
LEMMA PostStep ==
  ASSUME IInv, NEW d \in Devices, NEW n \in 1..MaxEpoch,
         NEW A \in SUBSET Devices, NEW R \in SUBSET Devices, PostCommit(d, n, A, R)
  PROVE  LedgerInv' /\ RequestShape' /\ RequestAuthor' /\ LockHolder' /\ NoGroup'
<1> DEFINE r == [pc |-> "resolved", epoch |-> n, added |-> A, removed |-> R]
<1>1. /\ req[d].pc = "idle" /\ exists /\ n \in 1..(currentEpoch + 1)
      /\ d \notin R /\ A \cap R = {}
      /\ req' = [req EXCEPT ![d] = r]
      /\ UNCHANGED <<members, exists, currentEpoch, leaves, commits, welcomes, lock>>
  BY DEF PostCommit
<1>2. /\ req'[d] = r /\ \A x \in Devices \ {d} : req'[x] = req[x]
  BY <1>1 DEF IInv, TypeOK
<1>3. LedgerInv'
  BY <1>1, LedgerUnchanged DEF IInv
<1>4. RequestShape'
  BY <1>1, <1>2 DEF IInv, RequestShape, TypeOK
<1>5. RequestAuthor'
  BY <1>1, <1>2 DEF IInv, RequestAuthor, IsActive
<1>6. LockHolder'
  BY <1>1, <1>2 DEF IInv, LockHolder
<1>7. NoGroup'
  BY <1>1 DEF IInv, NoGroup
<1>8. QED
  BY <1>3, <1>4, <1>5, <1>6, <1>7

\* The leaf check: what it reads is true of the group as it is now.
LEMMA CheckActiveStep ==
  ASSUME IInv, NEW d \in Devices, CheckActive(d)
  PROVE  LedgerInv' /\ RequestShape' /\ RequestAuthor' /\ LockHolder' /\ NoGroup'
<1>1. /\ req[d].pc = "resolved"
      /\ UNCHANGED <<members, exists, currentEpoch, leaves, commits, welcomes, lock>>
  BY DEF CheckActive
<1>2. LedgerInv'
  BY <1>1, LedgerUnchanged DEF IInv
<1>3. CASE IsActive(d)
  <2>1. /\ req'[d] = [req[d] EXCEPT !.pc = "active"]
        /\ \A x \in Devices \ {d} : req'[x] = req[x]
    BY <1>3 DEF CheckActive, IInv, TypeOK
  <2>2. /\ req'[d].pc = "active" /\ req'[d].epoch = req[d].epoch
        /\ req'[d].added = req[d].added /\ req'[d].removed = req[d].removed
    BY <2>1 DEF IInv, TypeOK, Request
  <2>3. RequestShape'
    BY <1>1, <2>1, <2>2 DEF IInv, RequestShape
  <2>4. RequestAuthor'
    BY <1>1, <1>3, <2>1, <2>2 DEF IInv, RequestAuthor, IsActive
  <2>5. LockHolder'
    BY <1>1, <2>1, <2>2 DEF IInv, LockHolder
  <2>6. NoGroup'
    BY <1>1, <2>1, <2>2 DEF IInv, NoGroup
  <2>7. QED
    BY <1>2, <2>3, <2>4, <2>5, <2>6
<1>4. CASE ~IsActive(d)
  <2>1. req'[d].pc = "idle" /\ \A x \in Devices \ {d} : req'[x] = req[x]
    BY <1>4 DEF CheckActive, Answer, Idle, IInv, TypeOK
  <2>2. RequestShape' /\ RequestAuthor' /\ LockHolder' /\ NoGroup'
    BY <1>1, <2>1 DEF IInv, RequestShape, RequestAuthor, LockHolder, NoGroup, IsActive
  <2>3. QED
    BY <1>2, <2>2
<1>5. QED
  BY <1>3, <1>4

\* The check of the added devices changes nothing a later step relies on.
LEMMA CheckAddedStep ==
  ASSUME IInv, NEW d \in Devices, CheckAdded(d)
  PROVE  LedgerInv' /\ RequestShape' /\ RequestAuthor' /\ LockHolder' /\ NoGroup'
<1>1. /\ req[d].pc = "active"
      /\ UNCHANGED <<members, exists, currentEpoch, leaves, commits, welcomes, lock>>
  BY DEF CheckAdded
<1>2. LedgerInv'
  BY <1>1, LedgerUnchanged DEF IInv
<1>3. CASE \A a \in req[d].added : MayCall(a)
  <2>1. /\ req'[d] = [req[d] EXCEPT !.pc = "valid"]
        /\ \A x \in Devices \ {d} : req'[x] = req[x]
    BY <1>3 DEF CheckAdded, IInv, TypeOK
  <2>2. /\ req'[d].pc = "valid" /\ req'[d].epoch = req[d].epoch
        /\ req'[d].added = req[d].added /\ req'[d].removed = req[d].removed
    BY <2>1 DEF IInv, TypeOK, Request
  <2>3. RequestShape'
    BY <1>1, <2>1, <2>2 DEF IInv, RequestShape
  <2>4. RequestAuthor'
    <3> SUFFICES ASSUME NEW x \in Devices, exists', req'[x].epoch = currentEpoch' + 1,
                        req'[x].pc \in {"active", "valid", "locked"}
                 PROVE  IsActive(x)'
      BY DEF RequestAuthor
    <3>1. exists /\ req[x].epoch = currentEpoch + 1
          /\ req[x].pc \in {"active", "valid", "locked"}
      BY <1>1, <2>1, <2>2
    <3>2. QED
      BY <1>1, <3>1 DEF IInv, RequestAuthor, IsActive
  <2>5. LockHolder' /\ NoGroup'
    BY <1>1, <2>1, <2>2 DEF IInv, LockHolder, NoGroup
  <2>6. QED
    BY <1>2, <2>3, <2>4, <2>5
<1>4. CASE ~(\A a \in req[d].added : MayCall(a))
  <2>1. req'[d].pc = "idle" /\ \A x \in Devices \ {d} : req'[x] = req[x]
    BY <1>4 DEF CheckAdded, Answer, Idle, IInv, TypeOK
  <2>2. RequestShape' /\ RequestAuthor' /\ LockHolder' /\ NoGroup'
    BY <1>1, <2>1 DEF IInv, RequestShape, RequestAuthor, LockHolder, NoGroup, IsActive
  <2>3. QED
    BY <1>2, <2>2
<1>5. QED
  BY <1>3, <1>4

\* Taking the row lock, or losing the race for the epoch.
LEMMA LockStep ==
  ASSUME IInv, NEW d \in Devices, LockGroup(d)
  PROVE  LedgerInv' /\ RequestShape' /\ RequestAuthor' /\ LockHolder' /\ NoGroup'
<1>1. /\ req[d].pc = "valid" /\ lock = NoDevice
      /\ UNCHANGED <<members, exists, currentEpoch, leaves, commits, welcomes>>
  BY DEF LockGroup
<1>2. LedgerInv'
  BY <1>1, LedgerUnchanged DEF IInv
<1>3. CASE exists /\ req[d].epoch = currentEpoch + 1
  <2>1. /\ req'[d] = [req[d] EXCEPT !.pc = "locked"] /\ lock' = d
        /\ \A x \in Devices \ {d} : req'[x] = req[x]
    BY <1>3 DEF LockGroup, WinsEpoch, IInv, TypeOK
  <2>2. /\ req'[d].pc = "locked" /\ req'[d].epoch = req[d].epoch
        /\ req'[d].added = req[d].added /\ req'[d].removed = req[d].removed
    BY <2>1 DEF IInv, TypeOK, Request
  <2>3. RequestShape' /\ NoGroup'
    <3>1. RequestShape'
      BY <1>1, <2>1, <2>2 DEF IInv, RequestShape
    <3>2. NoGroup'
      BY <1>1, <1>3 DEF IInv, NoGroup
    <3> QED BY <3>1, <3>2
  <2>4. RequestAuthor'
    <3> SUFFICES ASSUME NEW x \in Devices, exists', req'[x].epoch = currentEpoch' + 1,
                        req'[x].pc \in {"active", "valid", "locked"}
                 PROVE  IsActive(x)'
      BY DEF RequestAuthor
    <3>1. exists /\ req[x].epoch = currentEpoch + 1
          /\ req[x].pc \in {"active", "valid", "locked"}
      BY <1>1, <2>1, <2>2
    <3> QED BY <1>1, <3>1 DEF IInv, RequestAuthor, IsActive
  <2>5. LockHolder'
    BY <1>1, <1>3, <2>1, <2>2, NoDeviceAssumption DEF IInv, LockHolder
  <2>6. QED
    BY <1>2, <2>3, <2>4, <2>5
<1>4. CASE ~(exists /\ req[d].epoch = currentEpoch + 1)
  <2>1. req'[d].pc = "idle" /\ lock' = lock /\ \A x \in Devices \ {d} : req'[x] = req[x]
    BY <1>4 DEF LockGroup, WinsEpoch, Answer, Idle, IInv, TypeOK
  <2>2. RequestShape' /\ RequestAuthor' /\ LockHolder' /\ NoGroup'
    BY <1>1, <2>1 DEF IInv, RequestShape, RequestAuthor, LockHolder, NoGroup, IsActive
  <2>3. QED
    BY <1>2, <2>2
<1>5. QED
  BY <1>3, <1>4

\* The commit itself: every other request is now behind the group's epoch.
LEMMA ApplyStep ==
  ASSUME IInv, NEW d \in Devices, ApplyCommit(d)
  PROVE  LedgerInv' /\ RequestShape' /\ RequestAuthor' /\ LockHolder' /\ NoGroup'
<1>1. /\ req[d].pc = "locked" /\ lock = d /\ lock' = NoDevice
      /\ exists /\ exists' /\ members' = members
      /\ currentEpoch \in Nat /\ currentEpoch' = currentEpoch + 1
  BY DEF ApplyCommit, ReleaseGroup, IInv, LockHolder, TypeOK
<1>2. req'[d].pc = "idle" /\ \A x \in Devices \ {d} : req'[x] = req[x]
  BY DEF ApplyCommit, Answer, Idle, IInv, TypeOK
<1>3. \A x \in Devices : req[x].epoch \in Nat
  BY DEF IInv, TypeOK, Request
<1>4. RequestShape'
  BY <1>1, <1>2, <1>3 DEF IInv, RequestShape
<1>5. RequestAuthor'
  BY <1>1, <1>2, <1>3 DEF IInv, RequestShape, RequestAuthor
<1>6. LockHolder'
  BY <1>1, <1>2, NoDeviceAssumption DEF IInv, LockHolder
<1>7. NoGroup'
  BY <1>1 DEF IInv, NoGroup
<1>8. QED
  BY <1>4, <1>5, <1>6, <1>7, LedgerApply

\* A request that ends without a trace, and the lock it may have held.
LEMMA EndStep ==
  ASSUME IInv, NEW d \in Devices, AbortCommit(d) \/ LoseRequest(d)
  PROVE  LedgerInv' /\ RequestShape' /\ RequestAuthor' /\ LockHolder' /\ NoGroup'
<1>1. /\ lock' = IF lock = d THEN NoDevice ELSE lock
      /\ UNCHANGED <<members, exists, currentEpoch, leaves, commits, welcomes>>
  BY DEF AbortCommit, LoseRequest, ReleaseGroup, IInv, LockHolder
<1>2. req'[d].pc = "idle" /\ \A x \in Devices \ {d} : req'[x] = req[x]
  BY DEF AbortCommit, LoseRequest, Answer, Idle, IInv, TypeOK
<1>3. LedgerInv'
  BY <1>1, LedgerUnchanged DEF IInv
<1>4. RequestShape' /\ RequestAuthor' /\ NoGroup'
  BY <1>1, <1>2 DEF IInv, RequestShape, RequestAuthor, NoGroup, IsActive
<1>5. LockHolder'
  BY <1>1, <1>2, NoDeviceAssumption DEF IInv, LockHolder
<1>6. QED
  BY <1>3, <1>4, <1>5

\* The last member leaves: the ledger is empty again.
LEMMA LeaveLastStep ==
  ASSUME IInv, NEW u \in Users, LeaveLast(u)
  PROVE  LedgerInv' /\ RequestShape' /\ RequestAuthor' /\ LockHolder' /\ NoGroup'
<1>1. /\ ~exists' /\ members' = {} /\ currentEpoch' = 0 /\ leaves' = {}
      /\ commits' = {} /\ welcomes' = {} /\ lock = NoDevice /\ req' = req /\ lock' = lock
  BY DEF LeaveLast
<1>2. LedgerInv'
  BY <1>1 DEF LedgerInv, LeafBounds, WindowsDisjoint, CommitsGapFree, WindowsMatchLog,
              CommitterInTree, NeverEmptied
<1>3. RequestShape' /\ RequestAuthor' /\ LockHolder' /\ NoGroup'
  BY <1>1, NoDeviceAssumption
  DEF IInv, RequestShape, RequestAuthor, LockHolder, NoGroup
<1>4. QED
  BY <1>2, <1>3

\* Steps that touch neither the ledger, the requests nor the lock, and leave
\* somebody in the conversation if there was somebody.
LEMMA BystanderStep ==
  ASSUME IInv, UNCHANGED <<exists, currentEpoch, leaves, commits, lock, req>>,
         members' = {} <=> members = {}, ~exists => welcomes' = welcomes
  PROVE  LedgerInv' /\ RequestShape' /\ RequestAuthor' /\ LockHolder' /\ NoGroup'
<1>1. LedgerInv'
  BY LedgerUnchanged DEF IInv
<1>2. RequestShape' /\ RequestAuthor' /\ LockHolder' /\ NoGroup'
  BY DEF IInv, RequestShape, RequestAuthor, LockHolder, NoGroup, IsActive
<1>3. QED
  BY <1>1, <1>2

\* Everything but the types
Rest == LedgerInv /\ RequestShape /\ RequestAuthor /\ LockHolder /\ NoGroup

LEMMA NextIInv == IInv /\ [Next]_vars => IInv'
<1> SUFFICES ASSUME IInv, [Next]_vars PROVE IInv'
  OBVIOUS
<1>1. TypeOK'
  BY TypePreserved
<1>2. ASSUME NEW d \in Devices, CreateGroup(d) PROVE Rest'
  BY <1>2, CreateStep DEF Rest
<1>3. ASSUME NEW d \in Devices, NEW n \in 1..MaxEpoch,
             NEW A \in SUBSET Devices, NEW R \in SUBSET Devices, PostCommit(d, n, A, R)
      PROVE  Rest'
  BY <1>3, PostStep DEF Rest
<1>4. ASSUME NEW d \in Devices, CheckActive(d) PROVE Rest'
  BY <1>4, CheckActiveStep DEF Rest
<1>5. ASSUME NEW d \in Devices, CheckAdded(d) PROVE Rest'
  BY <1>5, CheckAddedStep DEF Rest
<1>6. ASSUME NEW d \in Devices, LockGroup(d) PROVE Rest'
  BY <1>6, LockStep DEF Rest
<1>7. ASSUME NEW d \in Devices, ApplyCommit(d) PROVE Rest'
  BY <1>7, ApplyStep DEF Rest
<1>8. ASSUME NEW d \in Devices, AbortCommit(d) \/ LoseRequest(d) PROVE Rest'
  BY <1>8, EndStep DEF Rest
<1>9. ASSUME NEW d \in Devices, NEW w \in welcomes, ClaimWelcome(d, w) PROVE Rest'
  BY <1>9, BystanderStep DEF Rest, ClaimWelcome
<1>10. ASSUME NEW d \in Devices, RevokeDevice(d) \/ RelinkDevice(d) PROVE Rest'
  BY <1>10, BystanderStep DEF Rest, RevokeDevice, RelinkDevice
<1>11. ASSUME NEW u \in Users, Leave(u) \/ Invite(u) PROVE Rest'
  BY <1>11, BystanderStep DEF Rest, Leave, Invite
<1>12. ASSUME NEW u \in Users, LeaveLast(u) PROVE Rest'
  BY <1>12, LeaveLastStep DEF Rest
<1>13. ASSUME UNCHANGED vars PROVE Rest'
  BY <1>13, BystanderStep DEF Rest, vars
<1>14. Rest'
  BY <1>2, <1>3, <1>4, <1>5, <1>6, <1>7, <1>8, <1>9, <1>10, <1>11, <1>12, <1>13 DEF Next
<1>15. QED
  BY <1>1, <1>14 DEF IInv, Rest

\* The inductive invariant holds in every reachable state.
THEOREM Invariance == Spec => []IInv
BY InitIInv, NextIInv, PTL DEF Spec

\* The state of the group ledger and of its requests is well typed.
THEOREM TypeCorrect == Spec => []TypeOK
<1>1. IInv => TypeOK
  BY DEF IInv
<1>2. QED
  BY <1>1, Invariance, PTL

\* Commits: one per epoch, none missing, and each made by a device that held a
\* leaf in the tree it was built on, for any number of racing requests.
THEOREM CommitLog == Spec => [](CommitsGapFree /\ CommitterInTree)
<1>1. IInv => CommitsGapFree /\ CommitterInTree
  BY DEF IInv, LedgerInv
<1>2. QED
  BY <1>1, Invariance, PTL

\* Membership: the epoch intervals of a device are disjoint, and together they
\* are what the commit log says they should be.
THEOREM MembershipMatchesLog == Spec => [](WindowsDisjoint /\ WindowsMatchLog)
<1>1. IInv => WindowsDisjoint /\ WindowsMatchLog
  BY DEF IInv, LedgerInv
<1>2. QED
  BY <1>1, Invariance, PTL

\* No interleaving of commits leaves a group without a device able to commit.
THEOREM GroupSurvives == Spec => []NeverEmptied
<1>1. IInv => NeverEmptied
  BY DEF IInv, LedgerInv
<1>2. QED
  BY <1>1, Invariance, PTL

-----------------------------------------------------------------------------
(* The tables implement the log of trees *)

Trees == [e \in 0..currentEpoch |-> TreeAt(e)]

LEMMA InitRefines == Init => Log!Init
<1> SUFFICES ASSUME Init PROVE Log!Init
  OBVIOUS
<1>1. \A e : TreeAt(e) = {}
  BY DEF Init, TreeAt
<1>2. QED
  BY <1>1 DEF Init, Log!Init

LEMMA CreateRefines ==
  ASSUME IInv, NEW d \in Devices, CreateGroup(d)
  PROVE  Log!Create(d)
<1> DEFINE k == [device |-> d, joined |-> 0, removed |-> Open]
<1>1. leaves' = {k} /\ currentEpoch' = 0
  BY DEF CreateGroup
<1>2. k.device = d /\ Covers(k, 0)
  BY DEF Covers
<1>3. TreeAt(0)' = {d}
  BY <1>1, <1>2 DEF TreeAt, Covers
<1>4. Trees' = [e \in 0..0 |-> {d}]
  <2>1. \A e \in 0..0 : TreeAt(e)' = {d}
    BY <1>3
  <2>2. QED
    BY <1>1, <2>1 DEF Trees
<1>5. QED
  BY <1>1, <1>4 DEF Log!Create, CreateGroup, Trees

LEMMA ApplyRefines ==
  ASSUME IInv, NEW d \in Devices, ApplyCommit(d)
  PROVE  Log!Commit(d)
<1> DEFINE R == req[d].removed
           A == req[d].added
<1>1. PICK n \in Nat : n = currentEpoch + 1
  BY DEF IInv, TypeOK
<1>2. /\ req[d].epoch = n /\ currentEpoch \in Nat /\ currentEpoch' = n
      /\ exists /\ exists'
  BY <1>1 DEF IInv, TypeOK, LockHolder, ApplyCommit
<1>3. TreeAt(currentEpoch) = {x \in Devices : IsActive(x)}
  BY CurrentTree DEF IInv, LedgerInv
<1>4. d \in TreeAt(currentEpoch)
  BY <1>1, <1>2, <1>3 DEF IInv, RequestAuthor, ApplyCommit
<1>5. d \notin R
  BY DEF IInv, RequestShape, ApplyCommit
<1>6. \A e \in 0..currentEpoch : TreeAt(e)' = TreeAt(e)
  BY PastTreesFixed
<1>7. TreeAt(n)' = (TreeAt(currentEpoch) \ R) \cup A
  BY <1>1, NewTree
<1>8. \A e \in 0..n : TreeAt(e)' \in SUBSET Devices
  BY DEF TreeAt
<1>9. /\ Trees' \in [0..n -> SUBSET Devices]
      /\ \A e \in 0..currentEpoch : Trees'[e] = Trees[e]
      /\ d \in Trees'[n] /\ d \in Trees[currentEpoch]
  <2>1. Trees' = [e \in 0..n |-> TreeAt(e)']
    BY <1>2 DEF Trees
  <2>2. n \in 0..n /\ currentEpoch \in 0..currentEpoch /\ 0..currentEpoch \subseteq 0..n
    BY <1>1, <1>2
  <2>3. d \in TreeAt(n)'
    BY <1>4, <1>5, <1>7
  <2>4. QED
    BY <1>4, <1>6, <1>8, <2>1, <2>2, <2>3 DEF Trees
<1>10. QED
  BY <1>1, <1>2, <1>9 DEF Log!Commit, Trees

LEMMA LeaveLastRefines ==
  ASSUME IInv, NEW u \in Users, LeaveLast(u)
  PROVE  [Log!Next]_(Log!vars)
<1>1. exists' = FALSE /\ currentEpoch' = 0 /\ leaves' = {}
  BY DEF LeaveLast
<1>2. \A e : TreeAt(e)' = {}
  BY <1>1 DEF TreeAt
<1>3. Trees' = [e \in 0..0 |-> {}]
  BY <1>1, <1>2 DEF Trees
<1>4. CASE exists
  BY <1>1, <1>3, <1>4 DEF Log!Close, Log!Next, Trees
<1>5. CASE ~exists
  <2>1. exists = FALSE /\ leaves = {} /\ currentEpoch = 0
    BY <1>5 DEF IInv, NoGroup, TypeOK
  <2>2. \A e : TreeAt(e) = {}
    BY <2>1 DEF TreeAt
  <2>3. Trees = [e \in 0..0 |-> {}]
    BY <2>1, <2>2 DEF Trees
  <2>4. QED
    BY <1>1, <1>3, <2>1, <2>3 DEF Log!vars, Trees
<1>6. QED
  BY <1>4, <1>5

LEMMA StutterRefines ==
  ASSUME UNCHANGED <<exists, currentEpoch, leaves>>
  PROVE  UNCHANGED Log!vars
<1>1. \A e : TreeAt(e)' = TreeAt(e)
  BY TreesUnchanged
<1>2. Trees' = Trees
  BY <1>1 DEF Trees
<1>3. QED
  BY <1>2 DEF Log!vars, Trees

LEMMA NextRefines == IInv /\ [Next]_vars => [Log!Next]_(Log!vars)
<1> SUFFICES ASSUME IInv, [Next]_vars PROVE [Log!Next]_(Log!vars)
  OBVIOUS
<1>1. ASSUME NEW d \in Devices, CreateGroup(d) PROVE Log!Next
  BY <1>1, CreateRefines DEF Log!Next
<1>2. ASSUME NEW d \in Devices, ApplyCommit(d) PROVE Log!Next
  BY <1>2, ApplyRefines DEF Log!Next
<1>3. ASSUME NEW u \in Users, LeaveLast(u) PROVE [Log!Next]_(Log!vars)
  BY <1>3, LeaveLastRefines
<1>4. ASSUME NEW d \in Devices,
             \/ \E n \in 1..MaxEpoch, A, R \in SUBSET Devices : PostCommit(d, n, A, R)
             \/ CheckActive(d) \/ CheckAdded(d) \/ LockGroup(d)
             \/ AbortCommit(d) \/ LoseRequest(d)
             \/ \E w \in welcomes : ClaimWelcome(d, w)
             \/ RevokeDevice(d) \/ RelinkDevice(d)
      PROVE  UNCHANGED Log!vars
  <2>1. UNCHANGED <<exists, currentEpoch, leaves>>
    BY <1>4 DEF PostCommit, CheckActive, CheckAdded, LockGroup, AbortCommit, LoseRequest,
                ClaimWelcome, RevokeDevice, RelinkDevice
  <2>2. QED
    BY <2>1, StutterRefines
<1>5. ASSUME NEW u \in Users, Leave(u) \/ Invite(u) PROVE UNCHANGED Log!vars
  <2>1. UNCHANGED <<exists, currentEpoch, leaves>>
    BY <1>5 DEF Leave, Invite
  <2>2. QED
    BY <2>1, StutterRefines
<1>6. ASSUME UNCHANGED vars PROVE UNCHANGED Log!vars
  BY <1>6, StutterRefines DEF vars
<1>7. QED
  BY <1>1, <1>2, <1>3, <1>4, <1>5, <1>6 DEF Next

\* The four tables and the racing handlers implement EpochLog: the history of
\* the group is one log of trees that only its members extend and nobody edits.
THEOREM Refinement == Spec => ImplementsEpochLog
<1>1. Spec => Log!Init /\ [][Log!Next]_(Log!vars)
  BY InitRefines, NextRefines, Invariance, PTL DEF Spec
<1>2. QED
  BY <1>1 DEF ImplementsEpochLog, Log!Spec

-----------------------------------------------------------------------------
(* What devices are handed out *)

\* The log records real changes: nobody is added who is in the tree, or removed
\* at the same time, and a leaf was seated by the commit of the epoch it joined.
ChangesAreReal ==
  \A c \in commits : c.added \cap c.removed = {} /\ c.added \cap TreeAt(c.epoch - 1) = {}
LeavesAreLogged ==
  \A l \in leaves : l.joined > 0 => \E c \in commits : c.epoch = l.joined /\ l.device \in c.added
LogInv == IInv /\ ChangesAreReal /\ LeavesAreLogged /\ EveryJoinHasWelcome

LEMMA InitLog == Init => LogInv
BY InitIInv DEF Init, LogInv, ChangesAreReal, LeavesAreLogged, EveryJoinHasWelcome

\* Rows after a commit: those there were, with their device and joining epoch,
\* and one per added device.
LEMMA RowsAfterCommit ==
  ASSUME IInv, NEW d \in Devices, ApplyCommit(d), NEW k \in leaves'
  PROVE  \/ k.device \in req[d].added /\ k.joined = currentEpoch + 1
         \/ \E l \in leaves : k.device = l.device /\ k.joined = l.joined
<1>1. leaves' = ClosedLeaves(req[d].removed, req[d].epoch) \cup OpenedLeaves(req[d].added, req[d].epoch)
      /\ req[d].epoch = currentEpoch + 1
  BY DEF ApplyCommit, IInv, LockHolder
<1>2. CASE k \in OpenedLeaves(req[d].added, req[d].epoch)
  BY <1>1, <1>2 DEF OpenedLeaves
<1>3. CASE k \in ClosedLeaves(req[d].removed, req[d].epoch)
  <2>1. PICK l \in leaves : k = IF l.device \in req[d].removed /\ l.removed = Open
                                THEN [l EXCEPT !.removed = req[d].epoch] ELSE l
    BY <1>3 DEF ClosedLeaves, ClosedAt
  <2>2. l \in Leaf
    BY DEF IInv, TypeOK
  <2> QED BY <2>1, <2>2 DEF Leaf
<1> QED BY <1>1, <1>2, <1>3

LEMMA ApplyLog ==
  ASSUME LogInv, NEW d \in Devices, ApplyCommit(d)
  PROVE  ChangesAreReal' /\ LeavesAreLogged' /\ EveryJoinHasWelcome'
<1> DEFINE R == req[d].removed
           A == req[d].added
<1>1. PICK n \in Nat : n = currentEpoch + 1
  BY DEF LogInv, IInv, TypeOK
<1>2. PICK c : c = [epoch |-> n, committer |-> d, added |-> A, removed |-> R]
  OBVIOUS
<1>3. /\ req[d].epoch = n /\ currentEpoch \in Nat /\ commits' = commits \cup {c}
      /\ welcomes' = welcomes \cup NewWelcomes(A, n)
      /\ c.epoch = n /\ c.added = A /\ c.removed = R
  BY <1>1, <1>2 DEF LogInv, IInv, TypeOK, LockHolder, ApplyCommit
<1>4. A \cap R = {} /\ \A x \in A : ~IsActive(x)
  BY DEF LogInv, IInv, RequestShape, ApplyCommit, BreaksActiveIndex
<1>5. TreeAt(currentEpoch) = {x \in Devices : IsActive(x)}
  BY CurrentTree DEF LogInv, IInv, LedgerInv
<1>6. \A e \in 0..currentEpoch : TreeAt(e)' = TreeAt(e)
  BY PastTreesFixed DEF LogInv
<1>7. \A b \in commits : b.epoch - 1 \in 0..currentEpoch
  <2>1. \A b \in commits : b.epoch \in 1..currentEpoch
    BY DEF LogInv, IInv, LedgerInv, CommitsGapFree
  <2> QED BY <1>3, <2>1
<1>8. ChangesAreReal'
  <2> SUFFICES ASSUME NEW b \in commits'
               PROVE  b.added \cap b.removed = {} /\ b.added \cap TreeAt(b.epoch - 1)' = {}
    BY DEF ChangesAreReal
  <2>1. CASE b \in commits
    BY <1>6, <1>7, <2>1 DEF LogInv, ChangesAreReal
  <2>2. CASE b = c
    <3>1. b.epoch - 1 = currentEpoch
      BY <1>1, <1>3, <2>2
    <3>2. TreeAt(b.epoch - 1)' = TreeAt(currentEpoch)
      BY <1>3, <1>6, <3>1
    <3> QED BY <1>3, <1>4, <1>5, <2>2, <3>2
  <2> QED BY <1>3, <2>1, <2>2
<1>9. LeavesAreLogged'
  BY <1>1, <1>3, RowsAfterCommit DEF LogInv, LeavesAreLogged
<1>10. EveryJoinHasWelcome'
  <2>1. \A x \in A : \E w \in NewWelcomes(A, n) : w.device = x /\ w.epoch = n
    <3> SUFFICES ASSUME NEW x \in A PROVE \E w \in NewWelcomes(A, n) : w.device = x /\ w.epoch = n
      OBVIOUS
    <3>1. PICK w : w = [device |-> x, epoch |-> n, claimed |-> FALSE]
      OBVIOUS
    <3> QED BY <3>1 DEF NewWelcomes
  <2>2. \A w \in welcomes : w \in welcomes'
    BY <1>3
  <2>3. \A w \in NewWelcomes(A, n) : w \in welcomes'
    BY <1>3
  <2> QED BY <1>1, <2>1, <2>2, <2>3, RowsAfterCommit DEF LogInv, EveryJoinHasWelcome
<1> QED BY <1>8, <1>9, <1>10

LEMMA StepLog == LogInv /\ [Next]_vars => LogInv'
<1> SUFFICES ASSUME LogInv, [Next]_vars PROVE LogInv'
  OBVIOUS
<1>1. IInv /\ IInv'
  BY NextIInv DEF LogInv
<1>2. ASSUME UNCHANGED <<leaves, commits, welcomes>> PROVE LogInv'
  BY <1>1, <1>2, TreesUnchanged DEF LogInv, ChangesAreReal, LeavesAreLogged, EveryJoinHasWelcome
<1>3. ASSUME NEW d \in Devices, CreateGroup(d) PROVE LogInv'
  <2>1. commits' = {} /\ \A l \in leaves' : l.joined = 0
    BY <1>1, <1>3 DEF CreateGroup, IInv, NoGroup
  <2> QED BY <1>1, <2>1 DEF LogInv, ChangesAreReal, LeavesAreLogged, EveryJoinHasWelcome
<1>4. ASSUME NEW d \in Devices, ApplyCommit(d) PROVE LogInv'
  BY <1>1, <1>4, ApplyLog DEF LogInv
<1>5. ASSUME NEW d \in Devices, NEW w \in welcomes, ClaimWelcome(d, w) PROVE LogInv'
  <2>1. UNCHANGED <<leaves, commits>> /\ w \in Welcome
        /\ welcomes' = (welcomes \ {w}) \cup {[w EXCEPT !.claimed = TRUE]}
    BY <1>1, <1>5 DEF ClaimWelcome, IInv, TypeOK
  <2>2. PICK v : v = [w EXCEPT !.claimed = TRUE]
    OBVIOUS
  <2>3. v \in welcomes' /\ v.device = w.device /\ v.epoch = w.epoch /\ \A x \in welcomes \ {w} : x \in welcomes'
    BY <2>1, <2>2 DEF Welcome
  <2>4. EveryJoinHasWelcome'
    BY <2>1, <2>3 DEF LogInv, EveryJoinHasWelcome
  <2> QED BY <1>1, <2>1, <2>4, TreesUnchanged DEF LogInv, ChangesAreReal, LeavesAreLogged
<1>6. ASSUME NEW u \in Users, LeaveLast(u) PROVE LogInv'
  BY <1>1, <1>6 DEF LeaveLast, LogInv, ChangesAreReal, LeavesAreLogged, EveryJoinHasWelcome
<1> QED BY <1>2, <1>3, <1>4, <1>5, <1>6
        DEF Next, vars, PostCommit, CheckActive, CheckAdded, LockGroup, AbortCommit, LoseRequest, Leave, Invite,
            RevokeDevice, RelinkDevice

\* Every device in the tree but the founder has the Welcome of the epoch it
\* joined at: recordCommit stores the row and the Welcome together, and a claim
\* only marks it.
THEOREM EveryJoinIsWelcomed == Spec => []EveryJoinHasWelcome
<1>1. LogInv => EveryJoinHasWelcome
  BY DEF LogInv
<1> QED BY <1>1, InitLog, StepLog, PTL DEF Spec

-----------------------------------------------------------------------------
(* What a reader of the log can conclude *)

\* A set of epochs has a smallest one.
LEMMA FirstOf ==
  ASSUME NEW S \in SUBSET Nat, S # {}
  PROVE  \E x \in S : \A y \in S : x <= y
<1>1. PICK x \in S : \A y \in S : ~(<<y, x>> \in OpToRel(<, Nat))
  BY NatLessThanWellFounded, WFMin
<1>2. \A y \in S : ~(y < x)
  BY <1>1 DEF OpToRel
<1> QED BY <1>2

\* Each epoch after 0 has its commit, which makes its tree from the one before.
LEMMA CommitOf ==
  ASSUME LogInv, NEW e \in 1..currentEpoch
  PROVE  \E c \in commits :
           c.epoch = e /\ TreeAt(e) = (TreeAt(e - 1) \ c.removed) \cup c.added
<1>1. PICK c \in commits : c.epoch = e
  <2>1. e \in {c.epoch : c \in commits}
    BY DEF LogInv, IInv, LedgerInv, CommitsGapFree
  <2> QED BY <2>1
<1> QED BY <1>1 DEF LogInv, IInv, LedgerInv, WindowsMatchLog

\* A commit's epoch is one the group has reached.
LEMMA CommitEpochs ==
  ASSUME LogInv, NEW c \in commits
  PROVE  c.epoch \in 1..currentEpoch /\ c.epoch \in Nat /\ currentEpoch \in Nat
<1>1. c.epoch \in {b.epoch : b \in commits}
  OBVIOUS
<1> QED BY <1>1 DEF LogInv, IInv, TypeOK, LedgerInv, CommitsGapFree, CommitRow

\* A device keeps its place in the tree, in it or out of it, as long as no
\* commit takes it out or puts it in.
LEMMA TreesKeep ==
  ASSUME LogInv, NEW x \in Devices, NEW a \in Nat, NEW b \in Nat, a <= b, b <= currentEpoch
  PROVE  /\ x \in TreeAt(a) /\ (\A c \in commits : c.epoch \in (a + 1)..b => x \notin c.removed)
              => x \in TreeAt(b)
         /\ x \notin TreeAt(a) /\ (\A c \in commits : c.epoch \in (a + 1)..b => x \notin c.added)
              => x \notin TreeAt(b)
<1> currentEpoch \in Nat
  BY DEF LogInv, IInv, TypeOK
<1>1. ASSUME x \in TreeAt(a), \A c \in commits : c.epoch \in (a + 1)..b => x \notin c.removed,
             x \notin TreeAt(b)
      PROVE  FALSE
  <2> DEFINE S == {e \in a..b : x \notin TreeAt(e)}
  <2>1. PICK e \in S : \A y \in S : e <= y
    <3>1. S \in SUBSET Nat /\ b \in S
      BY <1>1
    <3> HIDE DEF S
    <3> QED BY <3>1, FirstOf
  <2>2. e # a /\ e - 1 \in a..b /\ e - 1 \notin S /\ e \in 1..currentEpoch /\ e \in (a + 1)..b
    BY <1>1, <2>1
  <2>3. x \in TreeAt(e - 1)
    BY <2>2
  <2>4. PICK c \in commits : c.epoch = e /\ TreeAt(e) = (TreeAt(e - 1) \ c.removed) \cup c.added
    BY <2>2, CommitOf
  <2> QED BY <1>1, <2>1, <2>2, <2>3, <2>4
<1>2. ASSUME x \notin TreeAt(a), \A c \in commits : c.epoch \in (a + 1)..b => x \notin c.added,
             x \in TreeAt(b)
      PROVE  FALSE
  <2> DEFINE S == {e \in a..b : x \in TreeAt(e)}
  <2>1. PICK e \in S : \A y \in S : e <= y
    <3>1. S \in SUBSET Nat /\ b \in S
      BY <1>2
    <3> HIDE DEF S
    <3> QED BY <3>1, FirstOf
  <2>2. e # a /\ e - 1 \in a..b /\ e - 1 \notin S /\ e \in 1..currentEpoch /\ e \in (a + 1)..b
    BY <1>2, <2>1
  <2>3. x \notin TreeAt(e - 1)
    BY <2>2
  <2>4. PICK c \in commits : c.epoch = e /\ TreeAt(e) = (TreeAt(e - 1) \ c.removed) \cup c.added
    BY <2>2, CommitOf
  <2> QED BY <1>2, <2>1, <2>2, <2>3, <2>4
<1> QED BY <1>1, <1>2

\* The ciphertexts the read paths hand a device are those it has keys for.
LEMMA ReadableHasKeys ==
  ASSUME LogInv, NEW d \in Devices, NEW e \in 0..currentEpoch, Readable(d, e)
  PROVE  HasKeys(d, e)
<1>1. PICK w \in leaves : w.device = d /\ Covers(w, e)
  BY DEF Readable, EpochWindow
<1>2. w \in Leaf /\ currentEpoch \in Nat
  BY DEF LogInv, IInv, TypeOK
<1>3. PICK j \in Nat : j = w.joined
  BY <1>2 DEF Leaf
<1>4. j \in 0..e
  BY <1>1, <1>2, <1>3 DEF Covers
<1>5. IF j = 0 THEN Founder(d) ELSE \E c \in commits : c.epoch = j /\ d \in c.added
  BY <1>1, <1>3 DEF LogInv, LeavesAreLogged, Founder
<1>6. ASSUME NEW c \in commits, c.epoch \in (j + 1)..e PROVE d \notin c.removed
  <2>1. Covers(w, c.epoch)
    BY <1>1, <1>2, <1>3, <1>6 DEF Covers, Leaf, Open
  <2>2. d \in TreeAt(c.epoch)
    BY <1>1, <2>1 DEF TreeAt
  <2>3. TreeAt(c.epoch) = (TreeAt(c.epoch - 1) \ c.removed) \cup c.added
    BY DEF LogInv, IInv, LedgerInv, WindowsMatchLog
  <2> QED BY <2>2, <2>3 DEF LogInv, ChangesAreReal
<1> QED BY <1>4, <1>5, <1>6 DEF HasKeys

\* A device with the keys of an epoch is in its tree.
LEMMA KeysMeanTree ==
  ASSUME LogInv, NEW d \in Devices, NEW e \in 0..currentEpoch, HasKeys(d, e)
  PROVE  d \in TreeAt(e)
<1> currentEpoch \in Nat
  BY DEF LogInv, IInv, TypeOK
<1>1. PICK j \in 0..e :
        /\ IF j = 0 THEN Founder(d) ELSE \E c \in commits : c.epoch = j /\ d \in c.added
        /\ \A c \in commits : c.epoch \in (j + 1)..e => d \notin c.removed
  BY DEF HasKeys
<1>2. d \in TreeAt(j)
  <2>1. CASE j = 0
    <3>1. PICK l \in leaves : l.device = d /\ l.joined = 0
      BY <1>1, <2>1 DEF Founder
    <3>2. l \in Leaf /\ (l.removed # Open => l.joined < l.removed)
      BY DEF LogInv, IInv, TypeOK, LedgerInv, LeafBounds
    <3> QED BY <2>1, <3>1, <3>2 DEF TreeAt, Covers, Leaf
  <2>2. CASE j # 0
    <3>1. PICK c \in commits : c.epoch = j /\ d \in c.added
      BY <1>1, <2>2
    <3>2. TreeAt(c.epoch) = (TreeAt(c.epoch - 1) \ c.removed) \cup c.added
      BY DEF LogInv, IInv, LedgerInv, WindowsMatchLog
    <3> QED BY <3>1, <3>2
  <2> QED BY <2>1, <2>2
<1> QED BY <1>1, <1>2, TreesKeep

\* The open leaf of a device is its newest row.
LEMMA OpenIsNewest ==
  ASSUME LogInv, NEW l \in leaves, l.removed = Open
  PROVE  l \in EpochWindow(l.device)
<1> SUFFICES ASSUME NEW m \in leaves, m.device = l.device PROVE m.joined <= l.joined
  BY DEF EpochWindow
<1>1. l \in Leaf /\ m \in Leaf
  BY DEF LogInv, IInv, TypeOK
<1>2. m = l \/ Before(m, l)
  BY DEF LogInv, IInv, LedgerInv, WindowsDisjoint, Before
<1>3. m.removed # Open => m.joined < m.removed
  BY DEF LogInv, IInv, LedgerInv, LeafBounds
<1> QED BY <1>1, <1>2, <1>3 DEF Before, Leaf, Open

\* A device that has held its leaf since epoch e is not refused it.
LEMMA HoldersMayRead ==
  ASSUME LogInv, NEW d \in Devices, NEW e \in 0..currentEpoch, IsActive(d),
         \A f \in e..currentEpoch : HasKeys(d, f)
  PROVE  Readable(d, e)
<1> currentEpoch \in Nat
  BY DEF LogInv, IInv, TypeOK
<1>1. PICK l \in leaves : l.device = d /\ l.removed = Open
  BY DEF IsActive
<1>2. l \in Leaf /\ l.joined <= currentEpoch
  BY DEF LogInv, IInv, TypeOK, LedgerInv, LeafBounds
<1>3. l.joined <= e
  <2> SUFFICES ASSUME ~(l.joined <= e) PROVE FALSE
    OBVIOUS
  <2>1. PICK f : f = l.joined - 1
    OBVIOUS
  <2>2. f \in e..currentEpoch /\ f \in 0..currentEpoch /\ l.joined > 0
    BY <1>2, <2>1 DEF Leaf
  <2>3. d \in TreeAt(f)
    BY <2>2, KeysMeanTree
  <2>4. PICK c \in commits : c.epoch = l.joined /\ d \in c.added
    BY <1>1, <2>2 DEF LogInv, LeavesAreLogged
  <2> QED BY <2>1, <2>3, <2>4 DEF LogInv, ChangesAreReal
<1> QED BY <1>1, <1>2, <1>3, OpenIsNewest DEF Readable, Covers

\* The window a row of mlsGroupMembers gives a device and the keys the commit
\* log gave it agree: no undecryptable ciphertext is handed out, and no device
\* that never lost its leaf is refused one (mlsUnavailableReason).
THEOREM VisibilityIsRight == Spec => []VisibilityFollowsLog
<1>1. LogInv => VisibilityFollowsLog
  BY ReadableHasKeys, HoldersMayRead DEF VisibilityFollowsLog
<1> QED BY <1>1, InitLog, StepLog, PTL DEF Spec

-----------------------------------------------------------------------------
(* Catching up *)

\* Commits that mention a device: one of them is the last.
LEMMA LastWordExists ==
  ASSUME LogInv, NEW C \in SUBSET commits, NEW x, NEW m \in C, x \in m.added \cup m.removed
  PROVE  LastWord(C, x) # {}
<1> DEFINE M == {c \in C : x \in c.added \cup c.removed}
           S == {currentEpoch - c.epoch : c \in M}
<1>1. \A c \in M : c.epoch \in 1..currentEpoch /\ c.epoch \in Nat /\ currentEpoch \in Nat
  BY CommitEpochs
<1>2. S \in SUBSET Nat /\ S # {}
  BY <1>1
<1>3. PICK n \in S : \A y \in S : n <= y
  <2> HIDE DEF S
  <2> QED BY <1>2, FirstOf
<1>4. PICK c \in M : n = currentEpoch - c.epoch
  BY <1>3
<1>5. \A b \in M : b.epoch <= c.epoch
  <2> SUFFICES ASSUME NEW b \in M PROVE b.epoch <= c.epoch
    OBVIOUS
  <2>1. currentEpoch - b.epoch \in S
    OBVIOUS
  <2>2. currentEpoch - c.epoch <= currentEpoch - b.epoch
    BY <1>3, <1>4, <2>1
  <2> QED BY <1>1, <2>2
<1> QED BY <1>4, <1>5 DEF LastWord

\* What a device is served begins after the epoch it joined at.
LEMMA ServedFromJoin ==
  ASSUME LogInv, NEW d \in Devices, NEW w \in EpochWindow(d)
  PROVE  Served(d) = {c \in commits : c.epoch > w.joined}
<1>1. \A v \in EpochWindow(d) : v \in Leaf /\ w \in Leaf /\ v.joined <= w.joined /\ w.joined <= v.joined
  BY DEF EpochWindow, LogInv, IInv, TypeOK
<1>2. \A v \in EpochWindow(d) : v.joined = w.joined
  BY <1>1 DEF Leaf
<1> QED BY <1>2 DEF Served

\* The last commit that mentions a device decides its place for good.
LEMMA LastWordDecides ==
  ASSUME LogInv, NEW x \in Devices, NEW a \in Nat, a <= currentEpoch,
         NEW C, C = {c \in commits : c.epoch > a}
  PROVE  x \in TreeAt(currentEpoch) <=>
           IF LastWord(C, x) = {} THEN x \in TreeAt(a)
                                  ELSE \E c \in LastWord(C, x) : x \in c.added
<1>1. currentEpoch \in Nat /\ \A c \in commits : c.epoch \in 1..currentEpoch /\ c.epoch \in Nat
  BY CommitEpochs DEF LogInv, IInv, TypeOK
<1>2. CASE LastWord(C, x) = {}
  <2>1. \A c \in C : x \notin c.added \cup c.removed
    BY <1>2, LastWordExists
  <2>2. \A c \in commits : c.epoch \in (a + 1)..currentEpoch => c \in C
    BY <1>1
  <2>3. \A c \in commits : c.epoch \in (a + 1)..currentEpoch => x \notin c.added /\ x \notin c.removed
    BY <2>1, <2>2
  <2> QED BY <1>1, <1>2, <2>3, TreesKeep
<1>3. CASE LastWord(C, x) # {}
  <2>1. PICK c \in LastWord(C, x) : TRUE
    BY <1>3
  <2>2. /\ c \in commits /\ x \in c.added \cup c.removed
        /\ \A b \in C : x \in b.added \cup b.removed => b.epoch <= c.epoch
    BY <2>1 DEF LastWord
  <2>3. ASSUME NEW b \in LastWord(C, x) PROVE b = c
    <3>1. b \in C /\ c \in C /\ b.epoch <= c.epoch /\ c.epoch <= b.epoch
      BY <2>1 DEF LastWord
    <3>2. b \in commits /\ c \in commits /\ b.epoch = c.epoch
      BY <1>1, <3>1
    <3> QED BY <3>2 DEF LogInv, IInv, LedgerInv, CommitsGapFree
  <2>4. x \in TreeAt(c.epoch) <=> x \in c.added
    <3>1. TreeAt(c.epoch) = (TreeAt(c.epoch - 1) \ c.removed) \cup c.added
      BY <2>2 DEF LogInv, IInv, LedgerInv, WindowsMatchLog
    <3> QED BY <2>2, <3>1
  <2>5. \A b \in commits : b.epoch \in (c.epoch + 1)..currentEpoch => x \notin b.added /\ x \notin b.removed
    <3>1. c \in C
      BY <2>1 DEF LastWord
    <3> SUFFICES ASSUME NEW b \in commits, b.epoch \in (c.epoch + 1)..currentEpoch
                 PROVE  x \notin b.added /\ x \notin b.removed
      OBVIOUS
    <3>2. b \in C /\ ~(b.epoch <= c.epoch)
      BY <1>1, <3>1
    <3> QED BY <2>2, <3>2
  <2>6. x \in TreeAt(currentEpoch) <=> x \in TreeAt(c.epoch)
    <3>1. c.epoch \in Nat /\ c.epoch <= currentEpoch
      BY <1>1, <2>2
    <3> QED BY <1>1, <2>5, <3>1, TreesKeep
  <2> QED BY <1>3, <2>1, <2>3, <2>4, <2>6
<1> QED BY <1>2, <1>3

\* A device that applies in order the commits GET /mls/commits serves it after
\* its Welcome ends with the tree of the current epoch.
THEOREM CatchingUpConverges == Spec => []CatchUpConverges
<1>1. ASSUME LogInv PROVE CatchUpConverges
  <2> SUFFICES ASSUME NEW d \in TreeAt(currentEpoch), NEW w \in EpochWindow(d)
               PROVE  TreeAt(currentEpoch) =
                        {x \in Devices : IF LastWord(Served(d), x) = {}
                                         THEN x \in TreeAt(w.joined)
                                         ELSE \E c \in LastWord(Served(d), x) : x \in c.added}
    BY DEF CatchUpConverges
  <2>1. d \in Devices /\ TreeAt(currentEpoch) \subseteq Devices
    BY DEF TreeAt
  <2>2. w.joined \in Nat /\ w.joined <= currentEpoch
    BY <1>1 DEF EpochWindow, LogInv, IInv, TypeOK, LedgerInv, LeafBounds, Leaf
  <2>3. Served(d) = {c \in commits : c.epoch > w.joined}
    BY <1>1, <2>1, ServedFromJoin
  <2>4. \A x \in Devices :
          x \in TreeAt(currentEpoch) <=>
            IF LastWord(Served(d), x) = {} THEN x \in TreeAt(w.joined)
                                           ELSE \E c \in LastWord(Served(d), x) : x \in c.added
    BY <1>1, <2>2, <2>3, LastWordDecides
  <2> QED BY <2>1, <2>4
<1> QED BY <1>1, InitLog, StepLog, PTL DEF Spec

-----------------------------------------------------------------------------
(* The group control log *)

\* Only the holder of the conversation's row is about to commit, on the newest
\* epoch of a conversation that exists.
RowHolder ==
  \A r \in Requests :
    /\ slot[r].pc = "locked" <=> holder = r
    /\ slot[r].pc = "locked" => conversation /\ slot[r].epoch = epoch + 1

\* A member leaves for nobody else.
LeavesItself == \A r \in Requests : slot[r].kind = "leave" => slot[r].target = slot[r].actor

\* A DELETE holds no more rows than its user has.
TakesRows == conversation => \A r \in Requests : slot[r].takes <= rows[slot[r].actor]

\* What hangs on the conversation's row goes with it.
NothingLeft == ~conversation => log = {} /\ epoch = 0

\* What a client was told is not ahead of the group.
ClientBehind ==
  conversation =>
    /\ client.pc # "idle" => client.epoch <= epoch
    /\ client.pc = "state" => client.latest <= epoch
    /\ client.pc = "epoch" => ~client.caughtUp
    /\ client.cursor <= epoch

ControlInv ==
  /\ ControlTypeOK
  /\ RowHolder
  /\ LeavesItself
  /\ TakesRows
  /\ NothingLeft
  /\ LogOrdersEpochs
  /\ AddedStays
  /\ client.applied = 1..client.cursor
  /\ ClientBehind
  /\ CaughtUpIsCurrent

-----------------------------------------------------------------------------
(* The log as an interval of sequence numbers *)

LEMMA LatestIsEpoch ==
  ASSUME ControlTypeOK, LogOrdersEpochs
  PROVE  Latest = epoch
<1>1. CASE log = {}
  <2>1. 1..epoch = {}
    BY <1>1 DEF LogOrdersEpochs
  <2>2. epoch \in Nat
    BY DEF ControlTypeOK
  <2>3. epoch = 0
    BY <2>1, <2>2
  <2> QED BY <1>1, <2>3 DEF Latest
<1>2. CASE log # {}
  <2>1. \A e \in log : e.sequence \in 1..epoch
    BY DEF LogOrdersEpochs
  <2>2. epoch \in Nat
    BY DEF ControlTypeOK
  <2>3. epoch \in 1..epoch
    BY <1>2, <2>1, <2>2
  <2>4. epoch \in {e.sequence : e \in log}
    BY <2>3 DEF LogOrdersEpochs
  <2>5. \A n \in {e.sequence : e \in log} :
          (\A e \in log : e.sequence <= n) => n = epoch
    <3> SUFFICES ASSUME NEW n \in {e.sequence : e \in log},
                        \A e \in log : e.sequence <= n
                 PROVE  n = epoch
      OBVIOUS
    <3>1. PICK top \in log : top.sequence = epoch
      BY <2>4
    <3>2. n \in 1..epoch
      BY DEF LogOrdersEpochs
    <3> QED BY <3>1, <3>2, <2>2
  <2>6. \A e \in log : e.sequence <= epoch
    BY <2>1, <2>2
  <2> QED BY <1>2, <2>4, <2>5, <2>6 DEF Latest
<1> QED BY <1>1, <1>2

\* As many events lie between two sequence numbers as there are numbers.
LEMMA EventsBetween ==
  ASSUME ControlTypeOK, LogOrdersEpochs, NEW a \in Nat, NEW b \in Nat, b <= epoch
  PROVE  LET S == {e \in log : e.sequence > a /\ e.sequence <= b}
         IN  Cardinality(S) = IF b > a THEN b - a ELSE 0
<1> DEFINE S == {e \in log : e.sequence > a /\ e.sequence <= b}
           T == (a + 1)..b
           f == [t \in T |-> CHOOSE e \in log : e.sequence = t]
<1>1. epoch \in Nat /\ \A e \in log : e.sequence \in 1..epoch
  BY DEF ControlTypeOK, LogOrdersEpochs
<1>2. \A t \in T : t \in {e.sequence : e \in log}
  <2>1. T \subseteq 1..epoch
    BY <1>1
  <2> QED BY <2>1 DEF LogOrdersEpochs
<1>3. \A t \in T : f[t] \in log /\ f[t].sequence = t
  BY <1>2
<1>4. f \in [T -> S]
  <2>1. \A t \in T : f[t] \in S
    BY <1>3
  <2> QED BY <2>1
<1>5. \A s, t \in T : f[s] = f[t] => s = t
  <2> SUFFICES ASSUME NEW s \in T, NEW t \in T, f[s] = f[t] PROVE s = t
    OBVIOUS
  <2>1. f[s].sequence = s /\ f[t].sequence = t
    BY <1>3
  <2> HIDE DEF f
  <2> QED BY <2>1
<1>6. \A e \in S : \E t \in T : f[t] = e
  <2> SUFFICES ASSUME NEW e \in S PROVE \E t \in T : f[t] = e
    OBVIOUS
  <2>1. e.sequence \in T
    BY <1>1
  <2>2. f[e.sequence] \in log /\ f[e.sequence].sequence = e.sequence
    BY <1>3, <2>1
  <2>3. f[e.sequence] = e
    BY <2>2 DEF LogOrdersEpochs
  <2> QED BY <2>1, <2>3
<1> HIDE DEF f, S, T
<1>7. ExistsBijection(T, S)
  <2>1. f \in Bijection(T, S)
    BY <1>4, <1>5, <1>6, Fun_IsBij
  <2> QED BY <2>1, Fun_ExistsBij
<1>8. IsFiniteSet(T) /\ Cardinality(T) = IF a + 1 > b THEN 0 ELSE b - (a + 1) + 1
  BY FS_Interval DEF T
<1>9. Cardinality(S) = Cardinality(T)
  BY <1>7, <1>8, FS_Bijection
<1>10. Cardinality(S) = IF b > a THEN b - a ELSE 0
  BY <1>8, <1>9
<1> QED BY <1>10 DEF S

\* A page is the interval of at most PageSize numbers behind the cursor.
LEMMA PageIsInterval ==
  ASSUME ControlTypeOK, LogOrdersEpochs, NEW c \in Nat, c <= epoch
  PROVE  /\ {e.sequence : e \in Page(c)} =
              (c + 1)..(IF c + PageSize <= epoch THEN c + PageSize ELSE epoch)
         /\ HasMore(c) <=> c + PageSize < epoch
<1> DEFINE top == IF c + PageSize <= epoch THEN c + PageSize ELSE epoch
<1>1. epoch \in Nat /\ PageSize \in Nat /\ \A e \in log : e.sequence \in 1..epoch
  BY ControlAssumption DEF ControlTypeOK, LogOrdersEpochs, ControlAssumption
<1>2. ASSUME NEW e \in After(c)
      PROVE  e \in Page(c) <=> e.sequence <= c + PageSize
  <2>0. e \in log /\ e.sequence \in 1..epoch /\ e.sequence > c
    BY <1>1 DEF After
  <2>1. PICK b \in Nat : b = e.sequence - 1
    BY <2>0
  <2>2. {f \in After(c) : f.sequence < e.sequence} =
          {f \in log : f.sequence > c /\ f.sequence <= b}
    BY <1>1, <2>0, <2>1 DEF After
  <2>3. Cardinality({f \in log : f.sequence > c /\ f.sequence <= b})
          = IF b > c THEN b - c ELSE 0
    BY <1>1, <2>0, <2>1, EventsBetween
  <2>4. Cardinality({f \in After(c) : f.sequence < e.sequence}) = e.sequence - 1 - c
    <3>1. (IF b > c THEN b - c ELSE 0) = e.sequence - 1 - c
      BY <1>1, <2>0, <2>1
    <3> QED BY <2>2, <2>3, <3>1
  <2>5. e \in Page(c) <=> e.sequence - 1 - c < PageSize
    BY <2>4 DEF Page
  <2> QED BY <1>1, <2>0, <2>5
<1>3. Page(c) = {e \in log : e.sequence > c /\ e.sequence <= c + PageSize}
  BY <1>2 DEF Page, After
<1>4. ASSUME NEW n \in (c + 1)..top PROVE n \in {e.sequence : e \in Page(c)}
  <2>1. n \in 1..epoch /\ n > c /\ n <= c + PageSize
    BY <1>1
  <2>2. PICK e \in log : e.sequence = n
    BY <2>1 DEF LogOrdersEpochs
  <2> QED BY <1>3, <2>1, <2>2
<1>5. ASSUME NEW e \in Page(c) PROVE e.sequence \in (c + 1)..top
  BY <1>1, <1>3
<1>6. After(c) = {e \in log : e.sequence > c /\ e.sequence <= epoch}
  BY <1>1 DEF After
<1>7. Cardinality(After(c)) = IF epoch > c THEN epoch - c ELSE 0
  BY <1>1, <1>6, EventsBetween
<1>8. HasMore(c) <=> c + PageSize < epoch
  BY <1>1, <1>7 DEF HasMore
<1> QED BY <1>4, <1>5, <1>8

-----------------------------------------------------------------------------
(* The steps that leave the log alone *)

LEMMA InitControlInv == ControlInit => ControlInv
<1> SUFFICES ASSUME ControlInit PROVE ControlInv
  OBVIOUS
<1>1. ControlTypeOK
  BY DEF ControlInit, ControlTypeOK, Slot, Client, Kinds
<1>2. RowHolder /\ LeavesItself /\ TakesRows /\ NothingLeft
  BY <1>1, ControlAssumption
  DEF ControlInit, ControlTypeOK, RowHolder, LeavesItself, TakesRows, NothingLeft, ControlAssumption
<1>3. LogOrdersEpochs /\ AddedStays
  BY DEF ControlInit, LogOrdersEpochs, AddedStays
<1>4. client.applied = 1..client.cursor /\ ClientBehind /\ CaughtUpIsCurrent
  BY DEF ControlInit, ClientBehind, CaughtUpIsCurrent
<1> QED BY <1>1, <1>2, <1>3, <1>4 DEF ControlInv

\* The log's invariants speak of the tables only.
LEMMA TablesUnchanged ==
  ASSUME ControlInv, UNCHANGED tables
  PROVE  NothingLeft' /\ LogOrdersEpochs' /\ AddedStays' /\ Latest' = Latest
BY DEF ControlInv, tables, NothingLeft, LogOrdersEpochs, AddedStays, Concerns, IsMember, Latest

LEMMA ClientUnchanged ==
  ASSUME ControlInv, UNCHANGED tables, UNCHANGED client
  PROVE  /\ client'.applied = 1..client'.cursor
         /\ ClientBehind'
         /\ CaughtUpIsCurrent'
BY DEF ControlInv, tables, ClientBehind, CaughtUpIsCurrent

\* A step of one request that is neither its UPDATE nor its commit.
Quiet(r) ==
  /\ slot' \in [Requests -> Slot]
  /\ \A q \in Requests \ {r} : slot'[q] = slot[q]
  /\ slot'[r].pc # "locked"
  /\ slot'[r].kind = "leave" => slot'[r].target = slot'[r].actor
  /\ conversation => slot'[r].takes <= rows[slot'[r].actor]
  /\ holder' = IF holder = r THEN NoRequest ELSE holder
  /\ UNCHANGED <<tables, client>>

LEMMA QuietStep ==
  ASSUME ControlInv, NEW r \in Requests, Quiet(r)
  PROVE  ControlInv'
<1>1. ControlTypeOK'
  BY DEF ControlInv, ControlTypeOK, Quiet, tables
<1>2. RowHolder'
  BY ControlAssumption DEF ControlInv, ControlTypeOK, RowHolder, Quiet, tables, ControlAssumption
<1>3. TakesRows'
  <2> SUFFICES ASSUME conversation, NEW q \in Requests
               PROVE  slot'[q].takes <= rows[slot'[q].actor]
    BY DEF TakesRows, Quiet, tables
  <2>1. CASE q = r
    BY <2>1 DEF Quiet
  <2>2. CASE q # r
    BY <2>2 DEF Quiet, ControlInv, TakesRows
  <2> QED BY <2>1, <2>2
<1>4. UNCHANGED tables /\ UNCHANGED client
  BY DEF Quiet
<1>5. LeavesItself'
  BY DEF ControlInv, LeavesItself, Quiet
<1> QED BY <1>1, <1>2, <1>3, <1>4, <1>5, TablesUnchanged, ClientUnchanged DEF ControlInv

LEMMA RequestSteps ==
  ASSUME ControlInv, NEW r \in Requests,
         \/ \E kind \in Kinds, u, target \in Accounts : Arrive(r, kind, u, target)
         \/ CheckTarget(r)
         \/ InsertMember(r)
         \/ CountMembers(r)
         \/ DeleteOwnRows(r)
         \/ ConversationGone(r)
         \/ LoseSlot(r)
  PROVE  Quiet(r)
<1>0. ControlTypeOK /\ TakesRows /\ LeavesItself
  BY DEF ControlInv
<1>1. ASSUME NEW kind \in Kinds, NEW u \in Accounts, NEW target \in Accounts,
             Arrive(r, kind, u, target)
      PROVE  Quiet(r)
  <2>1. holder # r
    BY <1>1 DEF Arrive, ControlInv, RowHolder
  <2>2. PICK new \in Slot :
          /\ new.pc = "member" /\ new.takes = 0 /\ new.actor = u
          /\ new.kind = "leave" => new.target = new.actor
          /\ slot' = [slot EXCEPT ![r] = new]
    BY <1>1 DEF Arrive, Slot
  <2>3. rows[u] \in Nat
    BY <1>0 DEF ControlTypeOK
  <2> QED BY <1>0, <1>1, <2>1, <2>2, <2>3 DEF Arrive, Quiet, ControlTypeOK
<1>2. ASSUME Respond(r), slot[r].pc # "idle", UNCHANGED <<tables, client>>,
             holder' = IF holder = r THEN NoRequest ELSE holder
      PROVE  Quiet(r)
  <2>1. PICK new \in Slot :
          /\ new.pc = "idle" /\ new.takes = 0 /\ new.actor = slot[r].actor
          /\ new.kind = "leave" => new.target = new.actor
          /\ slot' = [slot EXCEPT ![r] = new]
    <3>1. slot[r] \in Slot
      BY <1>0 DEF ControlTypeOK
    <3>2. PICK new : new = [slot[r] EXCEPT !.pc = "idle", !.takes = 0, !.epoch = 0]
      OBVIOUS
    <3>3. /\ new \in Slot /\ new.pc = "idle" /\ new.takes = 0
          /\ new.actor = slot[r].actor
          /\ new.kind = slot[r].kind /\ new.target = slot[r].target
      BY <3>1, <3>2 DEF Slot
    <3>4. slot' = [slot EXCEPT ![r] = new]
      BY <1>0, <1>2, <3>2 DEF Respond, ControlTypeOK
    <3> QED BY <1>0, <3>3, <3>4 DEF LeavesItself
  <2>2. rows[new.actor] \in Nat
    BY <1>0 DEF ControlTypeOK, Slot
  <2> QED BY <1>0, <1>2, <2>1, <2>2 DEF Quiet, ControlTypeOK
<1>3. ASSUME NEW pc \in {"vetted", "inserted", "last", "several"},
             Goto(r, pc), holder # r, UNCHANGED <<tables, holder, client>>
      PROVE  Quiet(r)
  <2>1. PICK new \in Slot :
          /\ new.pc = pc /\ new.takes = slot[r].takes /\ new.actor = slot[r].actor
          /\ new.kind = "leave" => new.target = new.actor
          /\ slot' = [slot EXCEPT ![r] = new]
    <3>1. slot[r] \in Slot
      BY <1>0 DEF ControlTypeOK
    <3>2. PICK new : new = [slot[r] EXCEPT !.pc = pc]
      OBVIOUS
    <3>3. /\ new \in Slot /\ new.pc = pc /\ new.takes = slot[r].takes
          /\ new.actor = slot[r].actor
          /\ new.kind = slot[r].kind /\ new.target = slot[r].target
      BY <3>1, <3>2 DEF Slot
    <3>4. slot' = [slot EXCEPT ![r] = new]
      BY <1>0, <1>3, <3>2 DEF Goto, ControlTypeOK
    <3> QED BY <1>0, <3>3, <3>4 DEF LeavesItself
  <2> QED BY <1>0, <1>3, <2>1 DEF Quiet, ControlTypeOK, TakesRows
<1>4. ASSUME slot[r].pc # "locked" PROVE holder # r
  BY <1>4 DEF ControlInv, RowHolder
<1>5. CASE CheckTarget(r)
  BY <1>2, <1>3, <1>4, <1>5 DEF CheckTarget
<1>6. CASE InsertMember(r)
  BY <1>2, <1>3, <1>4, <1>6 DEF InsertMember
<1>7. CASE CountMembers(r)
  BY <1>3, <1>4, <1>7 DEF CountMembers
<1>8. CASE ConversationGone(r)
  BY <1>2, <1>4, <1>8 DEF ConversationGone, ReadyToAppend
<1>9. CASE LoseSlot(r)
  BY <1>2, <1>9 DEF LoseSlot
<1>10. CASE DeleteOwnRows(r)
  <2>1. PICK new \in Slot :
          /\ new.pc = "deleted" /\ new.takes = rows[new.actor]
          /\ new.kind = "leave" => new.target = new.actor
          /\ slot' = [slot EXCEPT ![r] = new]
    <3>1. slot[r] \in Slot /\ rows[slot[r].actor] \in Nat
      BY <1>0 DEF ControlTypeOK, Slot
    <3>2. PICK new :
            new = [slot[r] EXCEPT !.pc = "deleted", !.takes = rows[slot[r].actor]]
      OBVIOUS
    <3>3. /\ new \in Slot /\ new.pc = "deleted" /\ new.takes = rows[new.actor]
          /\ new.actor = slot[r].actor
          /\ new.kind = slot[r].kind /\ new.target = slot[r].target
      BY <3>1, <3>2 DEF Slot
    <3>4. slot' = [slot EXCEPT ![r] = new]
      BY <1>0, <1>10, <3>2 DEF DeleteOwnRows, ControlTypeOK
    <3> QED BY <1>0, <3>3, <3>4 DEF LeavesItself
  <2>2. rows[new.actor] \in Nat
    BY <1>0 DEF ControlTypeOK, Slot
  <2>3. holder # r
    BY <1>4, <1>10 DEF DeleteOwnRows
  <2>4. slot' \in [Requests -> Slot] /\ slot'[r] = new
    BY <1>0, <2>1 DEF ControlTypeOK
  <2>5. \A q \in Requests \ {r} : slot'[q] = slot[q]
    BY <1>0, <2>1 DEF ControlTypeOK
  <2>6. new.takes <= rows[new.actor] /\ new.pc # "locked"
    BY <2>1, <2>2
  <2>7. holder' = IF holder = r THEN NoRequest ELSE holder
    BY <1>10, <2>3 DEF DeleteOwnRows
  <2> QED BY <1>10, <2>1, <2>4, <2>5, <2>6, <2>7
          DEF DeleteOwnRows, DeletePending, Quiet, tables
<1> QED BY <1>1, <1>5, <1>6, <1>7, <1>8, <1>9, <1>10

-----------------------------------------------------------------------------
(* The steps that write the tables *)

LEMMA BumpStep ==
  ASSUME ControlInv, NEW r \in Requests, BumpEpoch(r)
  PROVE  ControlInv'
<1>0. ControlTypeOK
  BY DEF ControlInv
<1>1. UNCHANGED tables /\ UNCHANGED client
  BY DEF BumpEpoch
<1>2. PICK new : new = [slot[r] EXCEPT !.pc = "locked", !.epoch = epoch + 1]
  OBVIOUS
<1>3. /\ new \in Slot /\ new.pc = "locked" /\ new.epoch = epoch + 1
      /\ new.takes = slot[r].takes /\ new.actor = slot[r].actor
      /\ new.kind = slot[r].kind /\ new.target = slot[r].target
  <2>1. slot[r] \in Slot /\ epoch + 1 \in Nat
    BY <1>0 DEF ControlTypeOK
  <2> QED BY <1>2, <2>1 DEF Slot
<1>4. slot' = [slot EXCEPT ![r] = new]
  BY <1>0, <1>2 DEF BumpEpoch, ControlTypeOK
<1>5. ControlTypeOK'
  BY <1>0, <1>3, <1>4 DEF BumpEpoch, ControlTypeOK, tables
<1>6. RowHolder'
  BY <1>0, <1>3, <1>4, ControlAssumption
  DEF ControlInv, ControlTypeOK, RowHolder, BumpEpoch, Turn, tables, ControlAssumption
<1>7. LeavesItself' /\ TakesRows'
  BY <1>0, <1>1, <1>3, <1>4 DEF ControlInv, ControlTypeOK, LeavesItself, TakesRows, tables
<1> QED BY <1>1, <1>5, <1>6, <1>7, TablesUnchanged, ClientUnchanged DEF ControlInv

LEMMA DeleteStep ==
  ASSUME ControlInv, NEW r \in Requests, DeleteConversation(r)
  PROVE  ControlInv'
<1>0. ControlTypeOK
  BY DEF ControlInv
<1>1. ~conversation' /\ epoch' = 0 /\ log' = {} /\ holder' = NoRequest /\ client' = client
  BY DEF DeleteConversation, Turn
<1>2. PICK new : new = [slot[r] EXCEPT !.pc = "idle", !.takes = 0, !.epoch = 0]
  OBVIOUS
<1>3. /\ new \in Slot /\ new.pc = "idle"
      /\ new.actor = slot[r].actor /\ new.kind = slot[r].kind /\ new.target = slot[r].target
  <2>1. slot[r] \in Slot
    BY <1>0 DEF ControlTypeOK
  <2> QED BY <1>2, <2>1 DEF Slot
<1>4. slot' = [slot EXCEPT ![r] = new]
  BY <1>0, <1>2 DEF DeleteConversation, Respond, ControlTypeOK
<1>5. rows' \in [Accounts -> Nat] /\ conversation' \in BOOLEAN
  BY DEF DeleteConversation
<1>6. ControlTypeOK'
  BY <1>0, <1>1, <1>3, <1>4, <1>5 DEF ControlTypeOK
<1>7. RowHolder'
  BY <1>0, <1>1, <1>3, <1>4, ControlAssumption
  DEF ControlInv, ControlTypeOK, RowHolder, DeleteConversation, Turn, ControlAssumption
<1>8. LeavesItself' /\ TakesRows' /\ NothingLeft'
  BY <1>0, <1>1, <1>3, <1>4 DEF ControlInv, ControlTypeOK, LeavesItself, TakesRows, NothingLeft
<1>9. LogOrdersEpochs' /\ AddedStays'
  BY <1>1 DEF LogOrdersEpochs, AddedStays
<1>10. client'.applied = 1..client'.cursor /\ ClientBehind' /\ CaughtUpIsCurrent'
  BY <1>1 DEF ControlInv, ClientBehind, CaughtUpIsCurrent
<1> QED BY <1>6, <1>7, <1>8, <1>9, <1>10 DEF ControlInv

LEMMA AppendStep ==
  ASSUME ControlInv, NEW r \in Requests, Append(r)
  PROVE  ControlInv'
<1>0. ControlTypeOK /\ LogOrdersEpochs /\ TakesRows /\ LeavesItself
  BY DEF ControlInv
<1>1. conversation /\ slot[r].epoch = epoch + 1 /\ holder = r
  BY DEF ControlInv, RowHolder, Append
<1>2. /\ slot[r] \in Slot /\ epoch \in Nat
      /\ slot[r].takes \in Nat /\ rows[slot[r].actor] \in Nat
      /\ slot[r].takes <= rows[slot[r].actor]
  BY <1>0, <1>1 DEF ControlTypeOK, TakesRows, Slot
<1>3. PICK ev : ev = [sequence |-> epoch + 1, epoch |-> epoch + 1,
                      kind |-> slot[r].kind, target |-> slot[r].target]
  OBVIOUS
<1>4. /\ ev \in Event /\ ev.sequence = epoch + 1 /\ ev.epoch = epoch + 1
      /\ ev.kind = slot[r].kind /\ ev.target = slot[r].target
  BY <1>2, <1>3 DEF Event, Slot
<1>5. /\ log' = log \cup {ev} /\ epoch' = epoch + 1 /\ holder' = NoRequest
      /\ conversation' = conversation /\ client' = client
  BY <1>0, <1>1, <1>3, LatestIsEpoch DEF Append
<1>6. /\ rows' \in [Accounts -> Nat]
      /\ \A u \in Accounts : ev.kind # "leave" \/ u # slot[r].actor => rows'[u] >= rows[u]
      /\ ev.kind = "invite" => rows'[ev.target] > 0
      /\ ev.kind = "leave" => rows'[slot[r].actor] = rows[slot[r].actor] - slot[r].takes
  <2>0. rows \in [Accounts -> Nat] /\ slot[r].actor \in Accounts /\ slot[r].target \in Accounts
    BY <1>0, <1>2 DEF ControlTypeOK, Slot
  <2>1. CASE ev.kind = "invite"
    <3>1. rows' = [rows EXCEPT ![slot[r].target] = @ + 1]
      BY <1>4, <2>1 DEF Append
    <3> QED BY <1>4, <2>0, <2>1, <3>1
  <2>2. CASE ev.kind = "leave"
    <3>1. rows' = [rows EXCEPT ![slot[r].actor] = @ - slot[r].takes]
      BY <1>4, <2>2 DEF Append, Without
    <3>2. rows[slot[r].actor] - slot[r].takes \in Nat
      BY <1>2
    <3> QED BY <1>4, <2>0, <2>2, <3>1, <3>2
  <2>3. CASE ev.kind \notin {"invite", "leave"}
    <3>1. rows' = rows
      BY <1>4, <2>3 DEF Append
    <3> QED BY <2>0, <2>3, <3>1
  <2> QED BY <2>1, <2>2, <2>3
<1>7. ASSUME NEW q \in Requests
      PROVE  /\ slot'[q] \in Slot
             /\ slot'[q].actor = slot[q].actor /\ slot'[q].kind = slot[q].kind
             /\ slot'[q].target = slot[q].target
             /\ q = r => slot'[q].pc = "idle" /\ slot'[q].takes = 0
             /\ q # r => /\ slot'[q].pc = slot[q].pc /\ slot'[q].epoch = slot[q].epoch
                         /\ slot'[q].takes = Remaining(q, r)
  <2>1. slot[q] \in Slot /\ Remaining(q, r) \in Nat
    BY <1>0, <1>2 DEF ControlTypeOK, Slot, Remaining
  <2>2. CASE q = r
    <3>1. PICK new : new = [slot[q] EXCEPT !.pc = "idle", !.takes = 0, !.epoch = 0]
      OBVIOUS
    <3>2. slot'[q] = new
      BY <2>2, <3>1 DEF Append, AnswerAppended
    <3>3. /\ new \in Slot /\ new.pc = "idle" /\ new.takes = 0
          /\ new.actor = slot[q].actor /\ new.kind = slot[q].kind
          /\ new.target = slot[q].target
      BY <2>1, <3>1 DEF Slot
    <3> QED BY <2>2, <3>2, <3>3
  <2>3. CASE q # r
    <3>1. PICK new : new = [slot[q] EXCEPT !.takes = Remaining(q, r)]
      OBVIOUS
    <3>2. slot'[q] = new
      BY <2>3, <3>1 DEF Append, AnswerAppended
    <3> QED BY <2>1, <2>3, <3>1, <3>2 DEF Slot
  <2> QED BY <2>2, <2>3
<1>8. ControlTypeOK'
  <2>1. slot' \in [Requests -> Slot]
    BY <1>7 DEF Append, AnswerAppended
  <2> QED BY <1>0, <1>2, <1>4, <1>5, <1>6, <2>1 DEF ControlTypeOK
<1>9. RowHolder'
  BY <1>1, <1>5, <1>7, ControlAssumption DEF ControlInv, RowHolder, ControlAssumption
<1>10. LeavesItself'
  BY <1>0, <1>7 DEF LeavesItself
<1>11. TakesRows'
  <2> SUFFICES ASSUME NEW q \in Requests PROVE slot'[q].takes <= rows'[slot'[q].actor]
    BY DEF TakesRows
  <2>0. /\ slot[q].actor \in Accounts /\ slot[q].takes \in Nat /\ rows[slot[q].actor] \in Nat
        /\ slot[q].takes <= rows[slot[q].actor] /\ rows'[slot[q].actor] \in Nat
    BY <1>0, <1>1, <1>6 DEF ControlTypeOK, Slot, TakesRows
  <2>1. CASE q = r
    BY <1>7, <2>0, <2>1
  <2>2. CASE q # r /\ slot[q].actor # slot[r].actor
    <3>1. slot'[q].takes = slot[q].takes
      BY <1>7, <2>2 DEF Remaining
    <3>2. rows'[slot[q].actor] >= rows[slot[q].actor]
      BY <1>6, <2>0, <2>2
    <3> QED BY <1>7, <2>0, <3>1, <3>2
  <2>3. CASE q # r /\ slot[q].actor = slot[r].actor
    <3>1. \/ slot'[q].takes = slot[q].takes - slot[r].takes
          \/ slot'[q].takes = 0
      BY <1>7, <2>3 DEF Remaining
    <3>2. rows'[slot[q].actor] >= rows[slot[q].actor] - slot[r].takes
      BY <1>2, <1>6, <2>0, <2>3
    <3> QED BY <1>2, <1>7, <2>0, <3>1, <3>2
  <2> QED BY <2>1, <2>2, <2>3
<1>12. NothingLeft'
  BY <1>1, <1>5 DEF NothingLeft
<1>13. LogOrdersEpochs'
  <2>1. \A e \in log : e.sequence \in 1..epoch
    BY <1>0 DEF LogOrdersEpochs
  <2>2. {e.sequence : e \in log'} = 1..epoch'
    <3>1. {e.sequence : e \in log'} = {e.sequence : e \in log} \cup {epoch + 1}
      BY <1>4, <1>5
    <3>2. 1..(epoch + 1) = (1..epoch) \cup {epoch + 1}
      BY <1>2
    <3> QED BY <1>0, <1>5, <3>1, <3>2 DEF LogOrdersEpochs
  <2>3. \A e \in log' : e.epoch = e.sequence
    BY <1>0, <1>4, <1>5 DEF LogOrdersEpochs
  <2>4. \A e, f \in log' : e.sequence = f.sequence => e = f
    BY <1>0, <1>2, <1>4, <1>5, <2>1 DEF LogOrdersEpochs
  <2> QED BY <2>2, <2>3, <2>4 DEF LogOrdersEpochs
<1>14. AddedStays'
  <2> SUFFICES ASSUME NEW e \in log', e.kind = "invite",
                      \A f \in Concerns(e.target)' : f.sequence <= e.sequence
               PROVE  rows'[e.target] > 0
    BY DEF AddedStays, IsMember, Concerns
  <2>1. CASE e = ev
    BY <1>6, <2>1
  <2>2. CASE e \in log
    <3>1. e.sequence \in 1..epoch /\ e.target \in Accounts
      BY <1>0, <2>2 DEF LogOrdersEpochs, ControlTypeOK, Event
    <3>2. ev \notin Concerns(e.target)'
      BY <1>2, <1>4, <3>1
    <3>3. ev.target # e.target \/ ev.kind = "commit"
      BY <1>5, <3>2 DEF Concerns
    <3>4. Concerns(e.target) \subseteq Concerns(e.target)'
      BY <1>5 DEF Concerns
    <3>5. rows[e.target] > 0
      BY <2>2, <3>4 DEF ControlInv, AddedStays, IsMember
    <3>6. rows'[e.target] >= rows[e.target]
      BY <1>0, <1>4, <1>6, <3>1, <3>3 DEF LeavesItself
    <3>7. rows[e.target] \in Nat /\ rows'[e.target] \in Nat
      BY <1>0, <1>6, <3>1 DEF ControlTypeOK
    <3> QED BY <3>5, <3>6, <3>7
  <2> QED BY <1>5, <2>1, <2>2
<1>15. client'.applied = 1..client'.cursor /\ CaughtUpIsCurrent'
  BY <1>5 DEF ControlInv, CaughtUpIsCurrent
<1>16. ClientBehind'
  <2>1. client \in Client
    BY <1>0 DEF ControlTypeOK
  <2>2. client.epoch \in Nat /\ client.latest \in Nat /\ client.cursor \in Nat
    BY <2>1 DEF Client
  <2> QED BY <1>1, <1>2, <1>5, <2>2 DEF ControlInv, ClientBehind
<1> QED BY <1>8, <1>9, <1>10, <1>11, <1>12, <1>13, <1>14, <1>15, <1>16 DEF ControlInv

-----------------------------------------------------------------------------
(* The reads of the client *)

\* A step of the client changes nothing else.
LEMMA ClientStep ==
  ASSUME ControlInv, UNCHANGED <<tables, holder, slot>>, client' \in Client,
         client'.applied = 1..client'.cursor, ClientBehind', CaughtUpIsCurrent'
  PROVE  ControlInv'
<1>1. ControlTypeOK'
  BY DEF ControlInv, ControlTypeOK, tables
<1>2. RowHolder' /\ LeavesItself' /\ TakesRows'
  BY DEF ControlInv, RowHolder, LeavesItself, TakesRows, tables
<1>3. UNCHANGED tables
  OBVIOUS
<1> QED BY <1>1, <1>2, <1>3, TablesUnchanged DEF ControlInv

LEMMA StateReads ==
  ASSUME ControlInv, ReadEpoch \/ ReadLatest
  PROVE  ControlInv'
<1>0. client \in Client /\ epoch \in Nat /\ Latest = epoch
  BY LatestIsEpoch DEF ControlInv, ControlTypeOK
<1>1. CASE ReadEpoch
  <2>1. PICK new : new = [client EXCEPT !.pc = "epoch", !.epoch = epoch, !.caughtUp = FALSE]
    OBVIOUS
  <2>2. /\ new \in Client /\ new.pc = "epoch" /\ new.epoch = epoch /\ ~new.caughtUp
        /\ new.cursor = client.cursor /\ new.applied = client.applied
    BY <1>0, <2>1 DEF Client
  <2>3. client' = new /\ UNCHANGED <<tables, holder, slot>>
    BY <1>1, <2>1 DEF ReadEpoch
  <2>4. ClientBehind' /\ CaughtUpIsCurrent'
    BY <1>0, <2>2, <2>3 DEF ControlInv, ClientBehind, CaughtUpIsCurrent, tables
  <2>5. client'.applied = 1..client'.cursor
    BY <2>2, <2>3 DEF ControlInv
  <2>6. client' \in Client
    BY <2>2, <2>3
  <2> QED BY <2>3, <2>4, <2>5, <2>6, ClientStep
<1>2. CASE ReadLatest
  <2>1. PICK new : new = [client EXCEPT !.pc = "state", !.latest = Latest]
    OBVIOUS
  <2>2. /\ new \in Client /\ new.pc = "state" /\ new.latest = epoch
        /\ new.epoch = client.epoch /\ new.caughtUp = client.caughtUp
        /\ new.cursor = client.cursor /\ new.applied = client.applied
    BY <1>0, <2>1 DEF Client
  <2>3. client' = new /\ UNCHANGED <<tables, holder, slot>>
    BY <1>2, <2>1 DEF ReadLatest
  <2>4. ClientBehind' /\ CaughtUpIsCurrent'
    <3>1. client.pc # "idle"
      BY <1>2 DEF ReadLatest
    <3> QED BY <1>0, <2>2, <2>3, <3>1 DEF ControlInv, ClientBehind, CaughtUpIsCurrent, tables
  <2>5. client'.applied = 1..client'.cursor
    BY <2>2, <2>3 DEF ControlInv
  <2>6. client' \in Client
    BY <2>2, <2>3
  <2> QED BY <2>3, <2>4, <2>5, <2>6, ClientStep
<1> QED BY <1>1, <1>2

LEMMA EventsRead ==
  ASSUME ControlInv, ReadEvents
  PROVE  ControlInv'
<1>0. client \in Client /\ epoch \in Nat /\ PageSize \in Nat /\ PageSize > 0
  BY ControlAssumption DEF ControlInv, ControlTypeOK, ControlAssumption
<1>1. PICK c \in Nat : c = client.cursor
  BY <1>0 DEF Client
<1>2. PICK news : news = {e.sequence : e \in Page(c)}
  OBVIOUS
<1>a. PICK next : next = IF news = {} THEN c
                          ELSE CHOOSE n \in news : \A m \in news : m <= n
  OBVIOUS
<1>b. PICK all, done : all = client.applied \cup news /\ done = ~HasMore(c)
  OBVIOUS
<1>3. PICK new : new = [client EXCEPT !.pc = "idle", !.applied = all,
                                      !.cursor = next, !.caughtUp = done]
  OBVIOUS
<1>4. client' = new /\ UNCHANGED <<tables, holder, slot>>
  BY <1>1, <1>2, <1>a, <1>b, <1>3 DEF ReadEvents
<1>5. /\ new.pc = "idle" /\ new.applied = client.applied \cup news
      /\ new.cursor = next
      /\ new.caughtUp = ~HasMore(c)
      /\ new.epoch = client.epoch /\ new.latest = client.latest
  BY <1>0, <1>b, <1>3 DEF Client
<1>6. client.applied = 1..c
  BY <1>1 DEF ControlInv
<1>7. PICK top \in Nat :
        /\ news = (c + 1)..top /\ top >= c
        /\ conversation => top <= epoch
        /\ conversation /\ ~HasMore(c) => top = epoch
  <2>1. CASE conversation
    <3>1. c <= epoch
      BY <1>1, <2>1 DEF ControlInv, ClientBehind
    <3>2. PICK top : top = IF c + PageSize <= epoch THEN c + PageSize ELSE epoch
      OBVIOUS
    <3>3. news = (c + 1)..top /\ (HasMore(c) <=> c + PageSize < epoch)
      BY <1>2, <3>1, <3>2, PageIsInterval DEF ControlInv
    <3>4. top \in Nat /\ top >= c /\ top <= epoch
      BY <1>0, <3>1, <3>2
    <3>5. ~HasMore(c) => top = epoch
      BY <1>0, <3>1, <3>2, <3>3
    <3> QED BY <3>3, <3>4, <3>5
  <2>2. CASE ~conversation
    <3>1. news = {}
      BY <1>2, <2>2 DEF ControlInv, NothingLeft, Page, After
    <3>2. (c + 1)..c = {}
      OBVIOUS
    <3> QED BY <2>2, <3>1, <3>2
  <2> QED BY <2>1, <2>2
<1>8. new.cursor = top
  <2>1. CASE top = c
    <3>1. news = {}
      BY <1>7, <2>1
    <3> QED BY <1>a, <1>5, <2>1, <3>1
  <2>2. CASE top # c
    <3>1. top \in news /\ \A m \in news : m <= top
      BY <1>7, <2>2
    <3>2. \A n \in news : (\A m \in news : m <= n) => n = top
      BY <1>7, <3>1
    <3>3. news # {}
      BY <3>1
    <3> QED BY <1>a, <1>5, <3>1, <3>2, <3>3
  <2> QED BY <2>1, <2>2
<1>9. new.applied = 1..top
  <2>1. (1..c) \cup ((c + 1)..top) = 1..top
    BY <1>7
  <2> QED BY <1>5, <1>6, <1>7, <2>1
<1>10. new \in Client
  <2>1. new.applied \in SUBSET Nat
    BY <1>9
  <2>2. new.caughtUp \in BOOLEAN
    BY <1>5
  <2>3. next \in Nat /\ all \in SUBSET Nat /\ done \in BOOLEAN
    BY <1>5, <1>8, <2>1, <2>2, <1>b
  <2> QED BY <1>0, <1>3, <2>3 DEF Client
<1>11. ClientBehind'
  BY <1>4, <1>5, <1>7, <1>8 DEF ClientBehind, tables
<1>12. CaughtUpIsCurrent'
  <2> SUFFICES ASSUME conversation, ~HasMore(c)
               PROVE  new.cursor >= new.latest /\ new.cursor >= new.epoch
    BY <1>4, <1>5 DEF CaughtUpIsCurrent, tables
  <2>1. client.latest <= epoch /\ client.epoch <= epoch
    BY DEF ControlInv, ClientBehind, ReadEvents
  <2>2. client.latest \in Nat /\ client.epoch \in Nat
    BY <1>0 DEF Client
  <2> QED BY <1>5, <1>7, <1>8, <2>1, <2>2
<1>13. client'.applied = 1..client'.cursor
  BY <1>4, <1>8, <1>9
<1> QED BY <1>4, <1>10, <1>11, <1>12, <1>13, ClientStep

-----------------------------------------------------------------------------
LEMMA NextControlInv == ControlInv /\ [ControlNext]_controlVars => ControlInv'
<1> SUFFICES ASSUME ControlInv, [ControlNext]_controlVars PROVE ControlInv'
  OBVIOUS
<1>1. ASSUME NEW r \in Requests,
             \/ \E kind \in Kinds, u, target \in Accounts : Arrive(r, kind, u, target)
             \/ CheckTarget(r)
             \/ InsertMember(r)
             \/ CountMembers(r)
             \/ DeleteOwnRows(r)
             \/ ConversationGone(r)
             \/ LoseSlot(r)
      PROVE  ControlInv'
  BY <1>1, RequestSteps, QuietStep
<1>2. ASSUME NEW r \in Requests, DeleteConversation(r) PROVE ControlInv'
  BY <1>2, DeleteStep
<1>3. ASSUME NEW r \in Requests, BumpEpoch(r) PROVE ControlInv'
  BY <1>3, BumpStep
<1>4. ASSUME NEW r \in Requests, Append(r) PROVE ControlInv'
  BY <1>4, AppendStep
<1>5. CASE ReadEpoch \/ ReadLatest
  BY <1>5, StateReads
<1>6. CASE ReadEvents
  BY <1>6, EventsRead
<1>7. CASE UNCHANGED controlVars
  <2>1. UNCHANGED <<tables, holder, slot>> /\ UNCHANGED tables /\ UNCHANGED client
    BY <1>7 DEF controlVars, tables
  <2>2. client' \in Client
    BY <2>1 DEF ControlInv, ControlTypeOK
  <2> QED BY <2>1, <2>2, ClientUnchanged, ClientStep
<1> QED BY <1>1, <1>2, <1>3, <1>4, <1>5, <1>6, <1>7 DEF ControlNext

LEMMA SpecControlInv == ControlSpec => []ControlInv
BY InitControlInv, NextControlInv, PTL DEF ControlSpec

\* Every reachable state is of the declared types: no departure ever takes more
\* member rows than its user has (DELETE /conversations/:id/leave).
THEOREM ControlTypeCorrect == ControlSpec => []ControlTypeOK
<1>1. ControlInv => ControlTypeOK BY DEF ControlInv
<1> QED BY <1>1, SpecControlInv, PTL

\* Any number of concurrent changes leave a log whose sequence numbers and
\* epochs count 1, 2, ... to the conversation's epoch (appendGroupControlEvent).
THEOREM LogOrdered == ControlSpec => []LogOrdersEpochs
<1>1. ControlInv => LogOrdersEpochs BY DEF ControlInv
<1> QED BY <1>1, SpecControlInv, PTL

\* Whoever the log last reports as added has a member row.
THEOREM AdditionsStay == ControlSpec => []AddedStays
<1>1. ControlInv => AddedStays BY DEF ControlInv
<1> QED BY <1>1, SpecControlInv, PTL

\* A client that pages through the log with any page size misses no event, and
\* knows when it is as current as the response says (readGroupControlEvents).
THEOREM CatchUpSound == ControlSpec => [](NothingBehindCursor /\ CaughtUpIsCurrent)
<1>1. ControlInv => NothingBehindCursor /\ CaughtUpIsCurrent
  BY LatestIsEpoch DEF ControlInv, ClientBehind, NothingBehindCursor
<1> QED BY <1>1, SpecControlInv, PTL

=============================================================================
