------------------------------ MODULE MlsGroup ------------------------------
(***************************************************************************)
(* The MLS group ledger of one conversation: services/mlsGroups.ts and the *)
(* handlers of routes/mls.ts.                                              *)
(*                                                                         *)
(* A handler is split at its database calls: POST /mls/commits checks the  *)
(* caller's leaf and the added devices with plain reads, and only then     *)
(* opens the transaction that locks the group row and applies the commit.  *)
(* Anything may happen between two of those steps, including the loss of   *)
(* the request (a crash rolls its transaction back).  Of the clients no    *)
(* more is assumed than the MLS protocol gives: a commit is built on an    *)
(* epoch that exists, perhaps an old one, and never removes its author.    *)
(***************************************************************************)
EXTENDS Integers, FiniteSets

CONSTANTS
  Users,       \* users of the conversation under study
  Devices,     \* their registered devices
  Owner,       \* devices.userId
  NoDevice,    \* no transaction holds the group row
  MaxEpoch,    \* bound: no commit beyond this epoch is attempted
  MaxChanges,  \* bound: leaves a commit may add, or remove
  MaxInFlight  \* bound: POST /mls/commits requests in flight at a time

ASSUME OwnerAssumption == Owner \in [Devices -> Users]
ASSUME NoDeviceAssumption == NoDevice \notin Devices
ASSUME BoundAssumption == MaxEpoch \in Nat /\ MaxChanges \in Nat /\ MaxInFlight \in Nat

VARIABLES
  members,       \* conversationMembers: users in the conversation
  revoked,       \* devices with revokedAt set
  exists,        \* the conversation has a row in mlsGroups
  currentEpoch,  \* mlsGroups.currentEpoch
  leaves,        \* mlsGroupMembers: one row per epoch interval of a device
  commits,       \* mlsCommits, with the changes the opaque commit encodes
  welcomes,      \* mlsWelcomes
  lock,          \* device whose transaction holds the group row FOR UPDATE
  req            \* the POST /mls/commits request of each device

vars == <<members, revoked, exists, currentEpoch, leaves, commits, welcomes,
          lock, req>>

\* removedAtEpoch IS NULL: the leaf is still in the tree.
Open == -1

Leaf == [device : Devices, joined : Nat, removed : Nat \cup {Open}]
CommitRow ==
  [epoch : Nat, committer : Devices, added : SUBSET Devices, removed : SUBSET Devices]
Welcome == [device : Devices, epoch : Nat, claimed : BOOLEAN]
Request ==
  [pc : {"idle", "resolved", "active", "valid", "locked"},
   epoch : Nat, added : SUBSET Devices, removed : SUBSET Devices]

Idle == [pc |-> "idle", epoch |-> 0, added |-> {}, removed |-> {}]

TypeOK ==
  /\ members \in SUBSET Users
  /\ revoked \in SUBSET Devices
  /\ exists \in BOOLEAN
  /\ currentEpoch \in Nat
  /\ leaves \in SUBSET Leaf
  /\ commits \in SUBSET CommitRow
  /\ welcomes \in SUBSET Welcome
  /\ lock \in Devices \cup {NoDevice}
  /\ req \in [Devices -> Request]

-----------------------------------------------------------------------------
(* Reads of the tables *)

\* The leaf row's epoch interval [joinedAtEpoch, removedAtEpoch) contains e.
CoversRemoval(l, e) ==  \* mutant: the window is closed on the right
  l.joined <= e /\ (l.removed = Open \/ e <= l.removed)
Covers(l, e) == l.joined <= e /\ (l.removed = Open \/ e < l.removed)

\* The devices the membership table seats in the ratchet tree of epoch e.
TreeAt(e) == {d \in Devices : \E l \in leaves : l.device = d /\ Covers(l, e)}

\* isActiveMember
IsActive(d) == \E l \in leaves : l.device = d /\ l.removed = Open

\* getEpochWindow: the row of the device that joined last; a read finds
\* none (the empty set) or one.
EpochWindow(d) ==
  {l \in leaves : /\ l.device = d
                  /\ \A m \in leaves : m.device = d => m.joined <= l.joined}

\* mlsUnavailableReason = null: the read paths hand the ciphertext out.
Readable(d, e) == \E w \in EpochWindow(d) : Covers(w, e)

\* GET /mls/commits with no cursor: the commits after the device's join epoch.
ServedTooLate(d) ==  \* mutant: skips the first commit after the join epoch
  {c \in commits : \A w \in EpochWindow(d) : c.epoch > w.joined + 1}
Served(d) == {c \in commits : \A w \in EpochWindow(d) : c.epoch > w.joined}

\* requireAuth and resolveContext, and what CheckAdded asks of an added device
MayCall(d) == d \notin revoked /\ Owner[d] \in members

-----------------------------------------------------------------------------
(* Writes of recordCommit *)

ClosedAt(removed, e) ==
  {IF l.device \in removed /\ l.removed = Open THEN [l EXCEPT !.removed = e] ELSE l :
     l \in leaves}
ClosedEarly(removed, e) == ClosedAt(removed, e - 1)  \* mutant: off by one
ClosedLeaves(removed, e) == ClosedAt(removed, e)

OpenedLeaves(added, e) ==
  {[device |-> d, joined |-> e, removed |-> Open] : d \in added}

WelcomesOfParent(added, e) ==  \* mutant: stamped with the epoch committed on
  {[device |-> d, epoch |-> e - 1, claimed |-> FALSE] : d \in added}
NewWelcomes(added, e) ==
  {[device |-> d, epoch |-> e, claimed |-> FALSE] : d \in added}

\* mls_group_members_active_idx: at most one active leaf per device.
BreaksActiveIndex(added, removed) == \E d \in added : IsActive(d) /\ d \notin removed

\* input.epoch = group.currentEpoch + 1, read under the row lock.
WinsEpoch(d) == exists /\ req[d].epoch = currentEpoch + 1

Answer(d) == req' = [req EXCEPT ![d] = Idle]

\* The transaction ends, one way or the other.
KeepGroup == lock' = lock  \* mutant: a rollback that leaves the transaction open
ReleaseGroup == lock' = NoDevice

-----------------------------------------------------------------------------
Init ==
  /\ members \in (SUBSET Users) \ {{}}
  /\ revoked = {}
  /\ exists = FALSE
  /\ currentEpoch = 0
  /\ leaves = {}
  /\ commits = {}
  /\ welcomes = {}
  /\ lock = NoDevice
  /\ req = [d \in Devices |-> Idle]

\* POST /mls/group: the founder's device is the only leaf, at epoch 0.  The
\* unique index on the conversation lets one of several founders win.
CreateGroup(d) ==
  /\ MayCall(d)
  /\ ~exists
  /\ exists' = TRUE
  /\ currentEpoch' = 0
  /\ leaves' = {[device |-> d, joined |-> 0, removed |-> Open]}
  /\ UNCHANGED <<members, revoked, commits, welcomes, lock, req>>

\* POST /mls/commits arrives and resolveContext lets it in.  The client built
\* the commit on some epoch the group has reached, and keeps its own leaf.
PostCommit(d, epoch, added, removed) ==
  /\ req[d].pc = "idle"
  /\ Cardinality({x \in Devices : req[x].pc # "idle"}) < MaxInFlight
  /\ MayCall(d)
  /\ exists
  /\ epoch \in 1..(currentEpoch + 1)
  /\ epoch <= MaxEpoch
  /\ d \notin removed
  /\ added \cap removed = {}
  /\ Cardinality(added) <= MaxChanges
  /\ Cardinality(removed) <= MaxChanges
  /\ req' = [req EXCEPT ![d] = [pc |-> "resolved", epoch |-> epoch,
                                added |-> added, removed |-> removed]]
  /\ UNCHANGED <<members, revoked, exists, currentEpoch, leaves, commits,
                 welcomes, lock>>

\* isActiveMember, or 403.
CheckActive(d) ==
  /\ req[d].pc = "resolved"
  /\ IF IsActive(d) THEN req' = [req EXCEPT ![d].pc = "active"] ELSE Answer(d)
  /\ UNCHANGED <<members, revoked, exists, currentEpoch, leaves, commits,
                 welcomes, lock>>

\* Added devices must be active devices of conversation members, or 400.
CheckAdded(d) ==
  /\ req[d].pc = "active"
  /\ IF \A a \in req[d].added : MayCall(a)
     THEN req' = [req EXCEPT ![d].pc = "valid"]
     ELSE Answer(d)
  /\ UNCHANGED <<members, revoked, exists, currentEpoch, leaves, commits,
                 welcomes, lock>>

\* recordCommit takes the group row FOR UPDATE and compares epochs; a request
\* that lost the race is answered 409 and its transaction ends.
LockGroup(d) ==
  /\ req[d].pc = "valid"
  /\ lock = NoDevice
  /\ IF WinsEpoch(d)
     THEN lock' = d /\ req' = [req EXCEPT ![d].pc = "locked"]
     ELSE lock' = lock /\ Answer(d)
  /\ UNCHANGED <<members, revoked, exists, currentEpoch, leaves, commits,
                 welcomes>>

\* The rest of recordCommit's transaction, visible at once when it commits.
ApplyCommit(d) ==
  /\ req[d].pc = "locked"
  /\ ~BreaksActiveIndex(req[d].added, req[d].removed)
  /\ LET e == req[d].epoch IN
     /\ commits' = commits \cup {[epoch |-> e, committer |-> d,
                                  added |-> req[d].added, removed |-> req[d].removed]}
     /\ leaves' = ClosedLeaves(req[d].removed, e) \cup OpenedLeaves(req[d].added, e)
     /\ welcomes' = welcomes \cup NewWelcomes(req[d].added, e)
     /\ currentEpoch' = e
  /\ ReleaseGroup
  /\ Answer(d)
  /\ UNCHANGED <<members, revoked, exists>>

\* The insert violates the active-leaf index: rollback, 500.
AbortCommit(d) ==
  /\ req[d].pc = "locked"
  /\ BreaksActiveIndex(req[d].added, req[d].removed)
  /\ ReleaseGroup
  /\ Answer(d)
  /\ UNCHANGED <<members, revoked, exists, currentEpoch, leaves, commits,
                 welcomes>>

\* The process serving the request dies, or its connection drops.
LoseRequest(d) ==
  /\ req[d].pc # "idle"
  /\ Answer(d)
  /\ lock' = IF lock = d THEN NoDevice ELSE lock
  /\ UNCHANGED <<members, revoked, exists, currentEpoch, leaves, commits,
                 welcomes>>

\* GET /mls/welcome: claimWelcome hands out the newest unclaimed Welcome.
ClaimWelcome(d, w) ==
  /\ MayCall(d)
  /\ exists
  /\ w.device = d
  /\ ~w.claimed
  /\ \A x \in welcomes : x.device = d /\ ~x.claimed => x.epoch <= w.epoch
  /\ welcomes' = (welcomes \ {w}) \cup {[w EXCEPT !.claimed = TRUE]}
  /\ UNCHANGED <<members, revoked, exists, currentEpoch, leaves, commits, lock, req>>

\* DELETE /conversations/:id/leave of a member that is not the last.
Leave(u) ==
  /\ u \in members
  /\ members # {u}
  /\ members' = members \ {u}
  /\ UNCHANGED <<revoked, exists, currentEpoch, leaves, commits, welcomes,
                 lock, req>>

\* The last member leaves: the conversation row goes, and the group's tables
\* with it (ON DELETE CASCADE, which waits for the group row's lock).
LeaveLast(u) ==
  /\ members = {u}
  /\ lock = NoDevice
  /\ members' = {}
  /\ exists' = FALSE
  /\ currentEpoch' = 0
  /\ leaves' = {}
  /\ commits' = {}
  /\ welcomes' = {}
  /\ UNCHANGED <<revoked, lock, req>>

\* POST /conversations/:id/members, by a member.
Invite(u) ==
  /\ members # {}
  /\ u \notin members
  /\ members' = members \cup {u}
  /\ UNCHANGED <<revoked, exists, currentEpoch, leaves, commits, welcomes,
                 lock, req>>

\* An active device of the same account
HasSibling(d) == \E x \in Devices \ ({d} \cup revoked) : Owner[x] = Owner[d]

\* DELETE /devices/:id, refused for the last active device of an account.  The
\* leaf stays in the tree until a commit removes it.
RevokeDevice(d) ==
  /\ d \notin revoked
  /\ HasSibling(d)
  /\ revoked' = revoked \cup {d}
  /\ UNCHANGED <<members, exists, currentEpoch, leaves, commits, welcomes,
                 lock, req>>

\* POST /devices/link/verify with the identity key of a revoked device.
RelinkDevice(d) ==
  /\ d \in revoked
  /\ HasSibling(d)
  /\ revoked' = revoked \ {d}
  /\ UNCHANGED <<members, exists, currentEpoch, leaves, commits, welcomes,
                 lock, req>>

Next ==
  \/ \E d \in Devices :
       \/ CreateGroup(d)
       \/ \E epoch \in 1..MaxEpoch, added, removed \in SUBSET Devices :
            PostCommit(d, epoch, added, removed)
       \/ CheckActive(d)
       \/ CheckAdded(d)
       \/ LockGroup(d)
       \/ ApplyCommit(d)
       \/ AbortCommit(d)
       \/ LoseRequest(d)
       \/ \E w \in welcomes : ClaimWelcome(d, w)
       \/ RevokeDevice(d)
       \/ RelinkDevice(d)
  \/ \E u \in Users : Leave(u) \/ LeaveLast(u) \/ Invite(u)

Spec == Init /\ [][Next]_vars

\* A process runs the handler it started; PostgreSQL queues the waiters of a
\* row lock, so none of them is passed over for ever.
Fairness ==
  \A d \in Devices :
    /\ WF_vars(CheckActive(d))
    /\ WF_vars(CheckAdded(d))
    /\ SF_vars(LockGroup(d))
    /\ WF_vars(ApplyCommit(d))
    /\ WF_vars(AbortCommit(d))

FairSpec == Spec /\ Fairness

-----------------------------------------------------------------------------
(* Safety *)

\* Every epoch after 0 was produced by one commit, and none is missing: a
\* member that replays the log can always apply the next one (recordCommit).
CommitsGapFree ==
  /\ {c.epoch : c \in commits} = 1..currentEpoch
  /\ \A b, c \in commits : b.epoch = c.epoch => b = c

\* Two epoch intervals of one device never overlap, so the newest is the only
\* one that can be open (getEpochWindow reads no other).
Before(l, m) == l.removed # Open /\ l.removed <= m.joined
WindowsDisjoint ==
  \A l, m \in leaves : l.device = m.device => l = m \/ Before(l, m) \/ Before(m, l)

\* The membership table and the commit log, written by separate statements,
\* tell the same story: the tree of an epoch is the tree before it with the
\* commit's removals and additions made, however old the epoch is.
WindowsMatchLog ==
  \A c \in commits :
    TreeAt(c.epoch) = (TreeAt(c.epoch - 1) \ c.removed) \cup c.added

\* Whoever committed held a leaf in the tree the commit was built on, although
\* the handler looks at the leaf before it holds the lock.
CommitterInTree == \A c \in commits : c.committer \in TreeAt(c.epoch - 1)

\* Racing removals never empty the tree.  An empty one would be the end of the
\* group: nobody may commit, and POST /mls/group answers 409 for ever.
NeverEmptied == exists => TreeAt(currentEpoch) # {}

\* The secrets of epoch e that the commit log gave device d: d was the founder
\* or was added at or before e, and no commit since took its leaf.
Founder(d) == \E l \in leaves : l.device = d /\ l.joined = 0
HasKeys(d, e) ==
  \E j \in 0..e :
    /\ IF j = 0 THEN Founder(d) ELSE \E c \in commits : c.epoch = j /\ d \in c.added
    /\ \A c \in commits : c.epoch \in (j + 1)..e => d \notin c.removed

\* The read paths hand out a ciphertext only to a device that has the keys of
\* its epoch, and never refuse one to a device that has held its leaf since.
VisibilityFollowsLog ==
  \A d \in Devices, e \in 0..currentEpoch :
    /\ Readable(d, e) => HasKeys(d, e)
    /\ IsActive(d) /\ HasKeys(d, e) /\ (\A f \in e..currentEpoch : HasKeys(d, f))
         => Readable(d, e)

\* A device that applies, in order, the commits it is served after its Welcome
\* ends with the tree everybody else has (GET /mls/commits, clamped to the
\* join epoch).
LastWord(cs, x) ==
  {c \in cs : /\ x \in c.added \cup c.removed
              /\ \A b \in cs : x \in b.added \cup b.removed => b.epoch <= c.epoch}
CatchUpConverges ==
  \A d \in TreeAt(currentEpoch) : \A w \in EpochWindow(d) :
    TreeAt(currentEpoch) =
      {x \in Devices : IF LastWord(Served(d), x) = {}
                       THEN x \in TreeAt(w.joined)
                       ELSE \E c \in LastWord(Served(d), x) : x \in c.added}

\* Every device in the tree but the founder has the Welcome of the very epoch
\* it joined at: no leaf was seated that its device cannot come to use.
EveryJoinHasWelcome ==
  \A l \in leaves :
    l.joined > 0 => \E w \in welcomes : w.device = l.device /\ w.epoch = l.joined

(* Liveness *)

\* Every commit request is answered, whoever holds the group row meanwhile.
RequestsAnswered == \A d \in Devices : req[d].pc # "idle" ~> req[d].pc = "idle"

(* Refinement *)

\* The four tables implement a log of trees that only grows.
Log == INSTANCE EpochLog WITH
         open <- exists,
         last <- currentEpoch,
         tree <- [e \in 0..currentEpoch |-> TreeAt(e)]
ImplementsEpochLog == Log!Spec

=============================================================================
