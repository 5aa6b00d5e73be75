# Formal models of clicked

clicked is an end-to-end encrypted messenger: a Node/PostgreSQL/Redis backend
(`apps/backend`), a Next.js client (`apps/web`), Soroban contracts for a group
treasury (`contracts`) and a small AI service (`apps/ai_agent`).  This directory
holds TLA+ models of the parts of it whose correctness depends on the order in
which things happen, the TLC configurations that check them, and proofs.

Contents: 1 Inventory, 2 Plan, 3 Conventions, 4 The modules, 5 Observations,
6 What is not modelled, 7 How to run.

## 1. Inventory

Paths are under `src/`; `B` stands for `apps/backend/src`, `W` for
`apps/web/src`, `C` for `contracts/contracts`.

### Backend: state in PostgreSQL

| Component | State | Operations | What makes it correct |
|---|---|---|---|
| MLS group ledger (`B/services/mlsGroups.ts`, `B/routes/mls.ts`, `B/lib/mlsVisibility.ts`) | `mls_groups`, `mls_group_members` (epoch intervals), `mls_commits`, `mls_welcomes` | found a group, publish a commit, replay commits, claim a Welcome, read window of a device | one commit per epoch, no gap; intervals and log agree; the committer is in the tree; replay converges |
| Group control log (`B/services/groupControl.ts`, invite/leave/group-control routes in `B/routes/conversations.ts`) | `conversations.epoch`, `group_control_events`, `conversation_members` | invite, leave, record an opaque event, read state | the log explains the membership; sequence has no gap |
| Messaging (`B/socket/messaging.ts`, `B/routes/messages.ts`, `B/lib/messageFanout.ts`) | `messages`, `message_envelopes`, `conversation_members.last_read_message_id` | send, edit, delete, read receipt, ask the assistant, typing | what is acknowledged is stored; a read marker moves forward; a deletion that was announced is complete |
| Delivery and sync (`B/services/deliveryAggregation.ts`, `B/services/deviceDelivery.ts`, `B/services/resumeStream.ts`, `B/routes/sync.ts`, `B/services/envelopeGc.ts`) | `message_envelopes.delivered_at`, Redis resume streams | push, acknowledge, aggregate to "fully delivered", page through missed envelopes, resume, collect | what a device lacks can still be fetched; no envelope is skipped by a cursor; full delivery is reported |
| Dispatcher and replay protection (`B/socket/dispatcher.ts`, `B/services/replay-protection.service.ts`, `B/lib/eventEnvelope.ts`) | Redis keys of seen event ids | check timestamp, mark event id, run handler, acknowledge | an event's effect happens once |
| Devices, keys and linking (`B/routes/devices.ts`, `B/routes/auth.ts`, `B/services/deviceRevocation.ts`, `B/services/prekeyLowSignal.ts`, `B/services/deviceGc.ts`) | `devices`, `one_time_prekeys`, nonces, `revokedMidSession` | sign in, link, revoke, log out, upload and claim prekeys, low-prekey signal, collect stale keys | a one-time prekey is handed out once; a revoked device is cut off; a device that runs low is told |
| MLS key packages (`B/services/mlsKeyPackages.ts`) | `mls_key_packages` | publish, claim (last-resort fallback) | a package is handed out once |
| Files (`B/routes/uploads.ts`, `B/routes/files.ts`, `B/services/fileCleanup.ts`, `B/lib/fileIntegrity.ts`) | `files`, the object store | slot, PUT, confirm, reference from a message, soft delete, hard delete, reclaim | no live message refers to an object that was deleted; a retracted file is not served and is collected |
| Stellar listener and treasury REST (`B/services/stellarListener.ts`, `B/routes/treasury.ts`, transfers in `B/routes/conversations.ts`) | `token_transfers`, `treasury_proposals`, votes, cursors | poll events, apply, advance the cursor; report a transfer, propose and vote over REST | the cursor passes nothing that was not applied; a transfer answered as saved stays |
| Conversation list (`B/routes/conversations.ts`, `B/lib/conversationCache.ts`) | Redis cache of each user's list | list, invalidate, settings, rename, page through the messages | the cache is stale only while a writer is on its way to it |
| Push (`B/services/pushNotification.ts`, `B/services/pushFilter.ts`, `B/routes/push.ts`) | `push_subscriptions`, coalescing timers, per-device last-sent time | queue, coalesce, flush, prune, back off | an offline device is told of messages; no device is pushed more often than its window |
| Audit log (`B/services/auditLog.ts`) | `audit_logs` | append, query | append-only; never fails the action |

### Backend: state in Redis or in the process

| Component | State | Operations | What makes it correct |
|---|---|---|---|
| Presence (`B/services/presence.ts`, `B/services/heartbeat.ts`, connect/disconnect in `B/index.ts`, `presenceVisible` in `B/routes/users.ts`) | per-user hash of devices, per-device sets of sockets, heartbeat timers | connect, refresh, disconnect, expire, announce, hide | a user shows online exactly while a live socket exists, once timers and TTLs have passed; who hides is not announced |
| Rooms (`B/services/roomManager.ts`) | socket rooms | join, rebuild | rooms follow membership |
| Rate limiting (`B/services/rateLimiter.ts`, `B/services/rateLimit.ts`) | Redis counters, per-process fallback | charge, peek, reset | budget per window, also when Redis fails |
| Back-pressure (`B/services/backpressure.ts`) | in-process counters | admit, release | bounded queue |

### Contracts (Soroban)

| Component | State | Operations | What makes it correct |
|---|---|---|---|
| Group treasury (`C/group_treasury`) | admin, members, token, balance, threshold, withdrawal proposals with votes | initialize, add/remove member, deposit, withdraw, propose/approve/reject withdrawal | one vote per member; Passed only with `threshold` approvals; balance never spent twice |
| Proposals (`C/proposals`) | admin, treasury, proposals, votes | create, vote, finalize, finalize expired, execute, execute withdrawal | a proposal is decided once; money moves only for an Active -> Passed -> Executed one |
| Token transfer (`C/token_transfer`) | admin, token | transfer, upgrade | thin wrapper over the token contract |

### Web client

| Component | State | Operations | What makes it correct |
|---|---|---|---|
| Double Ratchet (`W/lib/crypto/doubleRatchet.ts`) | root/send/receive chain keys, counters, skipped keys | encrypt, decrypt, skip | late, lost and reordered messages decrypt; a key is used once |
| Sessions and pins (`W/lib/crypto.ts`, `W/lib/identityTrust.ts`, `W/lib/session.ts`, `W/lib/signalClient.ts`, `W/lib/signalSession.ts`, `W/lib/x3dh.ts`) | pinned device sets, Signal sessions | send with one retry, trust on first use, start a session from a bundle, encrypt for each device | only trusted keys are encrypted to; a key serves one message, and the receiver can derive it |
| Inbound pipeline (`W/hooks/useInboundPipeline.ts`, `W/lib/realtime.ts`, `W/hooks/useSocket.ts`, the conversation page) | messages by id, pending ciphertext and metadata, sync and resume cursors | live envelope, metadata, sync page, resume | a message whose parts arrived is shown decrypted, in any order; nothing is skipped |
| Conversation list, history, typing (`W/components/conversations/*`, `W/hooks/useMessageHistory.ts`) | badges, newest ids, presence of the peer, pages, typing users | seed and count, page backwards, show and hide | the list says what the server and the last event said; "start reached" means no gap |
| Search index, thumbnails, wallet, remaining pages | local | - | - |

### How they interact

The socket gateway (`B/index.ts`) authenticates a device, joins it to its rooms
and hands events to the dispatcher; handlers write PostgreSQL and then emit to
rooms or through Redis, so an emit can be lost or overtaken by another handler's
while the row is durable.  REST handlers share the tables with the socket
handlers.  A stored message is followed by an emit to the room, the invalidation
of the members' cached lists and a push to devices that are offline; the client
hears of it on up to four paths.  Leaving or being invited changes
`conversation_members`, which messaging, the MLS ledger and the group control log
all read; revoking a device changes `devices`, which all of them read as well.
The contracts are a separate system whose events the Stellar listener copies
into PostgreSQL.

### Which behaviours are hard

* Check-then-act over several statements: handlers read a row, decide, and write
  in a later statement, mostly without a transaction (PROJECT.json lists the
  lines).
* PostgreSQL runs at READ COMMITTED: two statements of one transaction see
  different snapshots, and only row locks and unique indexes order writers.
* Emits happen after the commit and are not ordered among handlers.
* Redis keys with a TTL stand for facts that may have changed since; other keys
  have no TTL and stay if nobody removes them.
* Timers, nonces and coalescing maps live in one process and end with it.
* In the browser every `await` lets another handler run on the same state.
* Contract calls are atomic, but a proposal lives across many of them while the
  membership and the balance change.

## 2. Plan

Built, in this order:

1. **MlsGroup** with its abstract log **EpochLog**, and **Groups_proofs**.
2. **GroupTreasury**, **Proposals**, their composition **Governance**, and the
   abstract **Fund** they implement; **Governance_proofs**.
3. **GroupControl** - invite, leave and control events at READ COMMITTED, and the
   client that catches up; proved in **Groups_proofs** too.
4. **Messaging** (handlers behind the dispatcher) with **Messaging_proofs**, and
   **Delivery** (envelopes, receipts, sync, collection) with **Delivery_proofs**.
5. **Devices** (sign-in, linking, revocation, prekeys, key packages) with
   **Devices_proofs**, and **Presence**.
6. **Files** with **Files_proofs**.
7. The web client: **Ratchet**, **Sessions** and **Inbound**, with **Client_proofs**.
8. **Services**, which composes **Push**, **ConversationList**, **History**,
   **Ledger**, **Typing** and **Limits** around the sending of a message, with
   **Services_proofs**.

Every safety property a run checks is proved.  Not built:

* That Messaging implements an abstract "stored once, and gone once told so" log.
* Rooms and back-pressure, if they get durable state; `ratchetSession.ts` and
  `prekeyStore.ts` once the app uses them.
* One composition of Messaging, Delivery and Inbound, to check "what is
  acknowledged is read" from end to end; today each promises what the next
  one assumes.

## 3. Conventions

**Steps.**  An action is what nothing else can interleave with: a contract call,
a single SQL statement outside a transaction, a Redis call, the part of a
transaction that runs under the row lock that serialises it and becomes visible
at its commit, or the code of the browser between two awaits.  A handler with
several such steps is several actions linked by a program counter (`pc`, `at`).
Neighbouring steps are one action where nothing another actor does can tell them
apart.  Handlers whose own interleaving belongs to another component are one
action here: in MlsGroup, leaving, inviting and revoking are single steps
although their handlers read before they write; those races are GroupControl's
and Devices' subject.

**Scenarios and scenes.**  The newer modules choose in `Init`, from a constant
set, what may be asked for in a behaviour (`Scenarios`, `Setups`, `Layouts`,
`Scenes`).  TLC then explores a few small questions one beside the other, each
with all its interleavings, where the product of all requests would be out of
reach.

**Faults.**  Lost answers, handlers that stop half way, failed calls of a store
and restarts are actions (or disjuncts) that may happen anywhere, together at
most `MaxFaults` times (`faults`, `mishaps`, `trouble` in the scenes).  One fault
is enough where a property speaks of one object; the exceptions a property
makes are named after the fault that causes them.

**History variables.**  A few variables record what has happened (`told`,
`early`, `quiet`, `raced`, `crossed`, ...).  No guard reads them, bounds apart.
They make the exceptions of a property exact: each one corresponds to an
observation of section 5.

**What is assumed of clients.**  Clients hold the MLS state and the server cannot
check it.  `PostCommit` lets a client build a commit on any epoch the group has
reached, however old, and asks only what the MLS protocol gives: the epoch is no
more than one ahead, the author does not remove itself, and no device is both
added and removed.  The contracts' callers are assumed to be nobody in
particular: any account may make any call its signature is enough for.

**Bounds.**  Every bound is a constant or a field of a scene, and appears in a
guard or in a quantifier's range of the module that declares it.  The proofs hold
for all values of the constants of their modules.

| Constant | Bounds |
|---|---|
| `MaxEpoch`, `MaxChanges` (MlsGroup), `MaxInFlight` | the epoch a commit may aim at; devices one commit adds, and removes; commit requests open at a time |
| `MaxThreshold`, `MaxTtl`, `MaxTime`, `MaxFunds` | the treasury's threshold, lifetime of a proposal, clock, tokens in play |
| `MaxProposals`, `MaxBallots`, `MaxBoth` | proposals of the treasury, of the other contract, of both |
| `MaxEvents` | events of the control log, counting those requests in flight may append |
| `LastTick`, `MaxOpen` | the clock of Messaging and Delivery; events let through while Redis does not answer |
| `MaxFaults`, `MaxReplays`, `MaxSent` | faults; deliveries beyond the first; messages each side encrypts |
| `MaxChanges` (Sessions), `MaxBundles` | changes of the peer's device set; prekey bundles handed out |
| `scene.*` of Inbound and Services | faults, events, posts, visits, requests, restarts of one scene |

These are constants of the code and not bounds of a model: `PageSize`, `Page`,
`Ttl`, `MaxAge`, `Skew`, `Retention`, `Cap`, `Threshold`, `MAX_SKIP`,
`MAX_SKIPPED_KEYS`, `scene.limit`.  They are small here; the models compare with
them and nothing more.

**Fairness.**  Only what the runtime gives.  MlsGroup: the steps of a handler are
weakly fair, because Node runs the continuation of an answered query; taking the
group row is strongly fair, because PostgreSQL queues the waiters of a row lock.
Files: the handlers and the cleanup job's passes go on, because of
`setInterval`.  Presence: handlers go on, timers fire, Redis keys expire, and a
client that has not fallen silent sends its heartbeats.  Clients, departures,
revocations, faults and crashes are never fair.

**Type invariants.**  Each larger module states its `TypeOK`; those of MlsGroup,
GroupTreasury, GroupControl, Messaging, Delivery, Devices, Files, Sessions and
Ratchet are proved.  The runs spend their time on the other properties.

**Names.**  Components proved about in one module have names of their own where
they would clash: `ControlInit`, `ControlNext`, `ControlSpec` (GroupControl),
`InboundInit`, ... (Inbound), `RatchetInit`, ... (Ratchet).

**Mutants.**  Next to a definition some modules keep a variant marked "mutant":
the definition with one plausible slip.  PROJECT.json names, for each property,
the variant that must break it.

## 4. The modules

One run for each composition or component; every property named below is checked
by the run of its section, unless it is said to be proved only.

### MlsGroup and EpochLog (run `mls`)

`MlsGroup` is one conversation's rows of `mls_groups`, `mls_group_members`,
`mls_commits` and `mls_welcomes`, the membership and revocation facts the
handlers read, and one POST /mls/commits request per device.

| Module | Code |
|---|---|
| `leaves`, an interval `[joined, removed)` per row | `mls_group_members.joinedAtEpoch`, `removedAtEpoch` |
| `commits` with `added`, `removed` | `mls_commits`; the changes are inside the opaque commit, and the handler gets them beside it in the request body |
| `PostCommit`, `CheckActive`, `CheckAdded` | `requireAuth`, `resolveContext`, `isActiveMember` and the look-up of added devices, each a plain read, in the route |
| `LockGroup` | `SELECT ... FOR UPDATE` in `recordCommit` and the epoch comparison; the loser gets 409 |
| `ApplyCommit` / `AbortCommit` | the inserts and updates of the transaction and its commit / the unique index on active leaves rolling it back |
| `LoseRequest` | the process or connection is lost; PostgreSQL rolls back |
| `CreateGroup`, `ClaimWelcome` | POST /mls/group, GET /mls/welcome |
| `Leave`, `LeaveLast`, `Invite`, `RevokeDevice`, `RelinkDevice` | the other routes that change what the handlers above read |
| `Readable`, `Served` | `mlsVisibility`, GET /mls/commits without a cursor |

The look at the leaf before the lock is the interesting part: a committer is in
the tree it commits on only because a commit in between makes the epoch
comparison fail.

`EpochLog` is what clients are promised: a log of ratchet trees that grows at its
end, one tree per commit, by a device that is in the newest tree.
`ImplementsEpochLog` maps the membership table to it: tree `e` is the set of
devices with an interval that contains `e`.

Checked: the read window gives what the device has keys for, no more and no less
(`VisibilityFollowsLog`); replay after a Welcome converges (`CatchUpConverges`);
each join has its Welcome (`EveryJoinHasWelcome`); each request is answered, under
`FairSpec` (`RequestsAnswered`); the refinement.  Instance: 2 users, of whom one has
two devices that may revoke each other, epochs 0 to 2, one addition and one
removal a commit, 2 requests at once.
Three epochs are enough for a device to be added, removed and added again, so
that two intervals of one device and two Welcomes exist; two requests are the
least that race, and every check a handler makes is pairwise.  Deadlock is not
checked: once every member has left, or the last epoch is reached, nothing need
happen.

### GroupTreasury, Proposals, Fund and Governance (run `governance`)

`GroupTreasury`: one action per entry point of the contract, enabled when the
call does not panic (a panic rolls back), for one token.  `balance` is the
contract's own account of the token, `held` the token contract's.  `withdrawals`
holds the counters and `votes` the entries under `Vote(id, voter)`, which are
what makes a vote single.  `Call` leaves `withdraw` out so that Governance can
let the proposals contract make it.  `EarlyCalls` admits the calls that do not
ask for `initialize`.

`Proposals` is the other contract; `now` is shared.  `Governance` instantiates
it and adds `execute_withdraw`, one transaction over the two: the caller is a
treasury member, the treasury's `withdraw` is signed by its admin, and the status
is written back.  `paid` counts the payments made for an id.  `Fund` is the
promise: the money of a ballot leaves the pool once, after a majority.
`ImplementsFund` maps the counters away (a ballot is who is for and against it).

Checked: outcomes follow the votes, also after they were executed
(`OutcomeFollowsVotes`); a rejection closes a withdraw proposal exactly when the
rest cannot carry it any more, while nobody who voted was removed
(`RejectionExact`); the two contracts implement `Fund` (`ImplementsFund`).
Instance: 3 accounts, thresholds up to 2, two proposals in all (so that two
ballots compete for the same token), one token in play, two ticks with a lifetime
of one.  Two ticks give every order of vote and expiry; amounts are only compared
with the balance, and a second withdrawal must then fail.  Larger committees,
where the blocking minority differs from the threshold, are the proof's.
`EarlyCalls` is FALSE here, see section 5; what is proved of the treasury covers
both values, what is proved of the ballots assumes FALSE.

### GroupControl (run `group_control`)

One conversation's row (`conversation`, `epoch`), its `conversation_members` (`rows`
counts a user's rows, because no unique index keeps it at one), its
`group_control_events`, the requests that write them and a client that reads
them (`slot`).  A request's `pc` says which statement it has run.

| Module | Code |
|---|---|
| `Arrive` | the membership read that opens each route; 403 or 404 is no action |
| `CheckTarget`, `InsertMember` | POST /conversations/:id/members: look for a row of the target; `INSERT`, whose foreign key needs the conversation and keeps its row from being deleted |
| `CountMembers`, `DeleteOwnRows`, `DeleteConversation` | DELETE /conversations/:id/leave: `isLastMember`; the `DELETE` of the transaction; the deletion that cascades |
| `BumpEpoch` | `UPDATE conversations ... RETURNING epoch` in `appendGroupControlEvent`, which takes the row lock (`holder`) |
| `Append` | the event's insert and the commit, when all the transaction wrote shows to others |
| `ConversationGone`, `LoseSlot` | the `UPDATE` finds no row; anything else that rolls back |
| `ReadEpoch`, `ReadLatest`, `ReadEvents` | the three statements of GET /conversations/:id/group-control |

At READ COMMITTED a transaction's own insert or delete is invisible to others
until it commits, so `rows` changes in `Append` although the statement ran
before; `takes` remembers how many rows a `DELETE` found, and `Remaining` skips
the ones another departure has taken meanwhile.

Checked: who was last reported as added is a member (`AddedStays`), and a last
page takes the client to what the response reports (`CaughtUpIsCurrent`).
Instance: 3 users, 2 requests at once, 3 events, pages of 1.  Two requests are the
least that race, and one slot can serve several requests in turn.  Three events
let an invitation, a departure and another invitation of one user be logged while
a client is between its reads, and a page of 1 makes it read more than once.
Deadlock is not checked: without members nothing can arrive.

`applyMembershipCommit` in `routes/messages.ts` would be another writer of the
log, but the body schema is strict and refuses `membershipChange` with 400 before
it is reached.  `InsertMember` and `Append` stand for the route above only.

### Messaging (run `messaging`)

The handlers of one conversation behind the dispatcher.  `Dispatch` wraps an
event in an envelope with the client's clock; the network keeps a copy, so that
`Admit` may bring it late or again.  `Admit` is the dispatcher: freshness, then
`SET NX EX` of the event's key; `AdmitUnchecked` is the path where Redis fails and
the event goes through.  `Request` is a REST call, which has no event id.  The
handlers (`FindSend` ... `StampRead`) are split at their statements; `Fail` ends
one anywhere.  `at` is taken when a transaction begins, `createdAt`'s default.

Checked: an event runs again only after Redis failed or if it first ran ahead of
its stamp (`EachEventOnce`); an acknowledged message is stored with the envelopes
of one request (`AckedStored`); an announced deletion is complete
(`RetractionComplete`); a marker goes back only by the race of two handlers
(`MarkerAdvances`).  Instance: two slots, and four scenarios: a send that may run
twice with a resend over REST and a deletion; a send that forgets a sibling
device, a resend and two deletions; two edits in a chain; reads that overtake
each other.  The clock runs to 2 with freshness, skew and key lifetime of 1, so
that a key can end before, with and after its envelope.

### Delivery (run `delivery`)

What happens to an envelope after its message's insert: `Begin` and `Commit` of
the sender's transaction (two, because `createdAt` is older than the commit),
`Push` to connected devices, receipts in three steps (`TakeReceipt`,
`StampReceipt`, `CheckReceipt`), GET /sync with its page, its cursor and its
marking in the background (`Sync`, `Receive`, `MarkSynced`, or `LoseReply` and
`LoseMark`), `Collect`, and linking and revoking of devices.

Checked: what a device has not received it can still fetch, while the message is
young enough (`StillFetchable`, except for rows that commit behind a cursor); the
last receipt tells the sender (`LastReceiptTells`, except after a sync, crash or
revocation).  Instance: two messages to one device, or one message to two
devices, of which the second may be linked later; pages of 1, three ticks, one
fault, two receipts at once.  Two messages are what a cursor can put in the wrong
order; two receipts what can miss each other.

### Devices (run `devices`)

The devices of one account: sign-in and linking with nonces per process, log-out
everywhere, revocation with its announcement to the other instances and the
sockets it closes (`rows`, `socket`, `revokedMidSession`, `flight`), and the
publication and claiming of one-time prekeys and key packages (`fresh`, `used`,
`locked`) with the low-prekey latch (`latch`, `told`).  Requests run in slots on
two instances and are split at their statements; a slot may stop anywhere, an
instance restart (`Restart`), an announcement get lost.

Checked: nothing is handed out twice (`HandedOutOnce`); after an announced
revocation no socket gets an event through (`RevokedIsSilent`); a device that ran
low knows (`LowIsSignalled`, unless its claims overlapped something that moves the
stock).  Instance: a phone, a laptop and five scenarios, one for each question;
a cap and a threshold of 2, so that both can be hit with three keys.

### Files (run `files`)

`status`, `soft` and `hard` are columns of `files`; `object` is what the store
holds.  Confirming (`POST /uploads/:id/confirm`) reads the row, asks the store,
hashes and writes; messages refer to a file; retracting the last one soft-deletes
it; `Collect` is the cleanup job of an instance with its lists read beforehand.
`Streams` says whether the store answers a stream or a buffer, see section 5.

Checked: an accepted message's file stays readable (`StillReadable`), a retracted
file is not served (`RetractedNotServed`) and is collected in the end
(`RetractedCollected`, under `FairSpec`).  The exceptions are the faults named in
the properties.  Instance: two files, three messages, two handlers, one
collector, one fault; the second file is what one that is passed over could hold
up.

### Presence (run `presence`)

Redis's hash of a user's devices (`hash`, without expiry), the sets of sockets
(`registry`), each socket's three handlers (connection, heartbeat, end), the
watchdog, the delayed offline broadcast of each instance and `ReconcileBoot`, the
clean-up at the start of a process.

Checked, all under `FairSpec`: a socket that stays is registered for good
(`ConnectedIsRegistered`), without sockets the user is offline (`GoneIsOffline`)
and was announced so (`OfflineIsHeard`), with the exceptions section 5 lists.
Instance: one device connecting on one instance and then on another, or two
devices on one instance; one crash or dismissal.  The properties are about the
last socket among others, and two make a last and another.

### Ratchet (run `ratchet`)

`ratchetEncrypt` and `ratchetDecrypt` as one step each: the state moves before
the first await.  Keys are terms: a root key is the sequence of secrets mixed into
it, a chain key a root and a step.  `MKSKIPPED` is a sequence of entries in the
order of their insertion; a key that is set again keeps its place (`Put`), as in
a JavaScript Map, and the limit removes the oldest.  `skipMessageKeys` is a
recursive function of where the skip ends.  `sent` is the network; receiving does
not remove, so that messages come in any order, never, or again.

Checked: a message opens once and leaves nothing its key could be made from
(`ReadOnce`); late and lost messages harm nobody unless a key was given up or a
message repeated, and the roots agree (`LateIsReadable`).  Instance: five messages
one way and four the other, both limits 2, one repeated delivery: enough for three
chains in a direction, a gap beyond each limit, and a late message of a chain that
is gone.

### Sessions (run `sessions`)

A send: fetch the device set, check it against the pin, encrypt for each device,
post, and once more after `device_set_mismatch`.  `phase` is the implementation
behind `SessionCrypto`: sealed boxes, or Signal sessions made from bundles by
X3DH, whose secrets are sets of agreements.  `Change` is the peer's.

Checked: sealed envelopes are for pinned devices and keys (`SealedToPinned`);
chain steps serve one message each, the first alone carries the header, and the
header yields the sender's secret (`KeysLineUp`).  Instance: two devices, two
overlapping sends, two changes, three bundles: a session can be replaced by the
other send's and torn down by a refused one.

### Inbound (run `inbound`)

How a tab hears of messages: the socket's events and the device channel (`wire`),
GET /sync by the page and at every connect, the page's first load; decryption
waits for a key fetch (`run`), so that copies overlap; the two halves of a message
wait in maps.  `Drop`, `Reload`, `FetchFails`, `SyncFails` are faults;
`Resume` replays ephemeral events from a stored cursor.

Checked: what arrived is read, or its last attempt failed of its own
(`ArrivedIsRead`); a connect's sync brings all that was missed, and the cursor
passes nothing unseen (`NothingSkipped`, unless the sync failed or exceeds a
page).  Instance: four scenes with one or two messages, up to two faults, two
events, and pages of 2.

### Services and its parts (run `services`)

`Services` sends messages (`sending` is the handler: store, tell the room, drop
the caches, start the push), asks the assistant, connects, disconnects,
hides the peer's presence (PATCH /users/me: `ReadVisible`, `WriteVisible`,
`TellVisible`) and restarts the process; its parts are instances over its variables:

| Module | Code | State |
|---|---|---|
| `Push` | `pushNotification.ts`, `pushFilter.ts`, `routes/push.ts`, the service worker's tags | coalescing entries, windows, subscriptions, notifications shown |
| `ConversationList` | GET /conversations and its cache, PATCH settings, PATCH /conversations/:id, the sidebar's badges and the peer's presence | cache, request in progress, counts, newest ids, name, timer |
| `History` | `message_history`, `useMessageHistory`, GET /conversations/:id/messages | pages under way, the list shown, `hasReachedStart`; the walk from cursor to cursor |
| `Ledger` | `stellarListener.ts`, POST transfers, `routes/treasury.ts` | cursors, queue of the poll, transfers, proposals and votes |
| `Typing` | `typing_start`, `typing_stop`, the timers of relay and thread | handlers waiting, timers, what was relayed |
| `Limits` | `rateLimiter.ts`, first-contact and invitation caps | windows in Redis, per-node fallback, caps |

A scene switches on what one question needs: two for push, three for the list
(settings, renaming, the assistant), two for presence (a peer who comes and goes,
and one who hides), three for history (two for the hook, one for the HTTP listing
with two edits of one message), two for `Ledger`, one for typing and two for
budgets.  In each the rest of the system stands still, so that the properties of
one part are checked in the scene where it moves, together with the sending of
messages and restarts where they matter.

Checked: queued messages are answered by a push (`NothingForgotten`), one push a
window (`OncePerWindow`), caches are stale in messages, settings and name only in
a named race (`StaleOnlyInRace`), the sidebar shows the last presence event and a
peer who hid was not told to be online afterwards (`LastPresenceShows`), "start
reached" means that all of the conversation is there but what crossed a switch or
was never told, and a walk through the HTTP listing brings all that is not
superseded (`StartIsWhole`), cursors pass what was applied or failed
(`CursorCovers`), answered transfers stay (`AnsweredStays`), an indicator ends
(`TypingEnds`), and budgets hold (`WithinBudget`).  Two messages are the least that
coalesce, page or overtake; one restart and one failed call come anywhere.

### The proofs

`Groups_proofs` proves of MlsGroup, for all sets of devices and users and all bounds,
`TypeCorrect`, `CommitLog` (`CommitsGapFree`, `CommitterInTree`),
`MembershipMatchesLog` (`WindowsDisjoint`, `WindowsMatchLog`), `GroupSurvives`
(`NeverEmptied`) and `Refinement` (`ImplementsEpochLog`).  Assumed are only the
named assumptions of the module: an owner for every device, natural bounds, and
`NoDevice` not a device.

The safety properties are not inductive.  `IInv` adds what a request knows
without holding the lock: its epoch is at most one ahead of the group
(`RequestShape`), and if it is exactly one ahead no commit was applied since it
was posted, so that the leaf seen without the lock is there under it
(`RequestAuthor`); the lock holder is the only request past the epoch comparison
(`LockHolder`); intervals lie within the epochs reached (`LeafBounds`); and the
tables are empty without a group (`NoGroup`).  `PastTreesFixed` and `NewTree`
say what applying a commit does to the trees; the ledger's invariants and the
refinement step both rest on them.

Three more theorems relate the rows to what clients can do with them:
`EveryJoinIsWelcomed` (`EveryJoinHasWelcome`), `VisibilityIsRight`
(`VisibilityFollowsLog`) and `CatchingUpConverges` (`CatchUpConverges`).  They need
`LogInv`, which adds to `IInv` that a logged change changed something
(`ChangesAreReal`: no commit adds a device that is in the tree, which is where the
unique index and the comparison of epochs come in) and that each row after the
founder's stands for an addition in the log (`LeavesAreLogged`).

`Governance_proofs` proves of the treasury `TypeCorrect`, `Tallied`,
`PassedExactly`, `Backed`, `DecidedForGood` and `BlockingMinorityExact` for every
finite set of accounts and all bounds (`TreasuryAssumption`).  Everything rests on
the counters being the cardinalities of sets of voters; `Fresh` is needed because
`initialize` resets the proposal counter.  The last theorem is arithmetic of
cardinalities: members are the approvers, the rejecters and those yet to vote.
Of both contracts together it proves `TreasuryKept`: with `AskInv`, ballots ask for
amounts that a withdrawal may have, so that `execute_withdraw` makes no step the
treasury alone could not make, and its theorems carry over
(`RejectionStaysExact`).  `OutcomesFollowVotes` (`OutcomeFollowsVotes`) and
`FundImplemented` (`ImplementsFund`) use `BallotInv`: ids are handed out in order
(`Dense`), counters are the votes, an outcome agrees with the counters and came
after the expiry (`OutcomesSound`), and money moved for executed ballots only
(`PaidAreExecuted`).  These two assume `~EarlyCalls`: a `create_proposal` before
`initialize` breaks `Dense`, and with it both properties (section 5).

Of GroupControl it proves `ControlTypeCorrect`, `LogOrdered`, `AdditionsStay` and
`CatchUpSound` for any users, requests, number of events and page size
(`ControlAssumption`).  `ControlInv` adds what requests and client know: the lock holder
is the one request past the `UPDATE`, and its epoch is the next (`LockHolder`);
a departure takes no more rows than its user has, unless the conversation is gone
(`TakesRows`, `LeavesItself`, `NothingLeft`); what the client read earlier is no
more than what is there now (`ClientBehind`).  `AddedStays` needs `TakesRows`: an
invitation's row is on top of all that pending departures have found.
`PageIsInterval` turns the cardinalities of a page into an interval of sequence
numbers, by a bijection.

`Messaging_proofs` proves `TypeCorrect`, `AcksKept` (`AckedStored`),
`DeletionsComplete` (`RetractionComplete`), `MarkerMovesOn` (`MarkerAdvances`)
and, for `MaxAge <= Ttl` (the defaults are both 300 seconds), `EventsRunOnce`
(`EachEventOnce`), for any devices, events and handlers at once.  Assumed are
`BoundsAreNaturals`, `ScenariosOfEvents`, `EventsOfDevices` and
`NoMessageIsNone`.  A handler holds no lock, so `IInv` says what it still may
count on when it comes back to the tables (`Knows`): rows are never taken back,
a deletion is never undone (`TableGrows`), and envelopes appear only together
with their row (`NewEnvelopes`), so that the envelopes that a retraction has
removed stay away.  Replay protection has an invariant of its own: while an
envelope is fresh the key of its event is there and outlasts it (`KeyHeld`), save
for the two exceptions the property names.

`Delivery_proofs` proves `TypeCorrect`, `StillFetchableAlways` (`StillFetchable`)
and `LastReceiptReported` (`LastReceiptTells`) for any messages, devices, handlers,
pages and faults.  `StillFetchableAlways` assumes `WindowsNest`: the sync window is
no longer than the collector's retention and maximal age.  The defaults are 7, 7
and 30 days, but nothing in the code compares the settings.  `RowInv` says that only
the collection removes rows; `CursorInv` that what a device lacks and could still
get is ahead of its cursor, and ahead of the cursor of the answer under way unless
the answer brings it; `ToldInv` that once every copy is stamped the sender was told
or a receipt is about to look.

`Devices_proofs` proves `TypeCorrect`, `RevokedDevicesAreSilent`
(`RevokedIsSilent`), `KeysAreHandedOutOnce` (`HandedOutOnce`) and
`LowStockIsSignalled` (`LowIsSignalled`) for any devices, slots, instances, keys and
requests.  `OnceInv` adds that a key that was given is neither in stock nor can an
upload bring it back (`GivenIsGone`), and that what a claim has in hand is locked
for it alone (`LocksHeld`).  `LowInv` follows the steps of a claim on a device
nothing else disturbs: claims meet only claims (`AloneOn`), the number a claim
counted is the stock it will leave (`CountedOn`), a closed latch means that the
device was told or that somebody is about to open it (`LatchedOn`), and a stock
that ran low that somebody is about to tell (`SignalledOn`).

`Files_proofs` proves `TypeCorrect`, `AcceptedIsReadable` (`StillReadable`) and
`RetractedIsNotServed` (`RetractedNotServed`) for any files, messages, handlers and
any number of cleanup jobs.  `SoundInv`: unless a confirm met the collection of its
slot, a file that is being collected has neither been confirmed nor is about to be
(`CollectedAlone`), a row or a verdict "ready" stands for a good object and a
verdict "reject" for a bad one, so that a message inserted while its file was ready
keeps it.  `ServedInv` gives the reason why a file is still served: a live message,
a retraction under way, or one that stopped (`Explained`).

`Client_proofs` proves of Sessions `TypeCorrect`, `SealedForPinned` (`SealedToPinned`) and
`KeysAreRight` (`KeysLineUp`) for any devices, sends and bounds
(`SessionsAssumption`).  `Working` says that a send with an open task works on
the set that is pinned, though its set was fetched some awaits ago;
`SessionsSound` that a session is what its bundle made of it, with the header
until the first step; `KeysOrdered` that sessions have numbers of their own and
that no step ahead of a chain was taken.

Of Inbound it proves `ArrivedAreRead` (`ArrivedIsRead`) and `NothingIsSkipped`
(`NothingSkipped`) for any scenes and page size (`InboundAssumption`).
`ArrivedIsRead` is inductive with the types of what is on the wire and of the
answers under way.  For the sync, `DueInv` says that what a connect found stored
is a first part of the envelopes and, if it fits the page, is in the tab, in an
answer, or in the answer of a request still to be read (`OnItsWay`).  For the
cursor, `ReplayInv` looks at the order of the wire: before an event that would
move the cursor come all the events it moves past (`Replayed`).

Of Ratchet it proves `OpensOnce` (`ReadOnce`), `LateOnesOpen` (`LateIsReadable`)
and `RatchetTypeCorrect` for all limits and any number of messages and
repetitions (`RatchetAssumption`).  `OpensOnce` needs nothing of the sender: a root
key only grows, so that the keys of what was read are behind the receiver's root
and chain, and none is set aside (`Spent`).  `LateInv` adds what the two sides know
of each other.  `WellSent`: a message is sealed on the chain of a key pair its
sender generated, at its own number.  As long as nothing was repeated and no key
of a message that came was given up (`Intact`), one side is exactly one DH step
ahead of the other (`Ahead`), and of each message of a chain that is closed, or
earlier in the current one, the receiver has had it, has its key set aside, or
gave the key up (`Good`, `Settled`); hence what comes late opens, and what comes
on the next chain finds the root it was sealed under.  The roots of both sides
extend one another because of `Ahead`.  What skipping does to the state and to
the map (`SkipsTo`, `OneMore`) is needed for skips of every length; induction
not being available, the lemmas take the least length at which they would fail.

`Services_proofs` proves all nine properties of the run.  Each part has an
inductive invariant of its own, and a frame lemma says which steps of the others
touch its variables.

* Typing (`TypingStops`) and push (`OnePushPerWindow`, `PushesAreAnswered`):
  `TypingEnds` is inductive as it stands; a device that had its push in this
  window is in `recent` (`Bursts`).
* Listener (`CursorsCover`): what was fetched are the events in a row from one
  behind the cursor, and all before it was persisted or failed (`QueueFollows`).
* REST rows (`AnswersStay`).
* Budgets (`BudgetsHold`): what a window admits is mapped, one to one, to the
  hits of a counter that lives or has lived (`Tokens`, `AdmittedSpent`), and one
  counter has at most `limit` of them; the theorem is a bound on a product.
* The cached list (`CacheIsStaleOnlyInRaces`): the answer on its way to the cache
  is as good as a cached one (`ListInv`).
* Presence in the sidebar (`PresenceShows`): of several changes of the visibility
  at once one has disturbed the others, and a change that read the old value
  still finds it there (`RevealInv`).
* History (`HistoriesAreWhole`): what the hook lacks sorts before its oldest
  message and is covered by the page under way (`HistoryInv`, `Covers`); what the
  HTTP walk lacks sorts before its cursor or is superseded (`WalkInv`).  Both rest
  on `(createdAt, id)` being a total order on the conversation's messages, so that
  a page of the newest before a cursor leaves no gap.  `PostsAssumption` says that
  ids are unique; times may be equal.

Proving changed the models where they were wrong.  The lock of a claim that fails
was released even if the claim did not hold it (`Fail` of Devices), a second
cleanup job could mark a row that the first had removed (`MarkHard` of Files), and
a message emitted while the user had no socket was not counted as unheard
(`Deliver` of Services); the runs, with one job, few keys and two messages, could
not show it.  Posts of one time and one id had no order in the history, hence
`PostsAssumption`.  Some definitions were written again without changing what they
mean, because the prover has no facts about `SelectSeq` and `FoldLeft`: the rows a
history page adds are the sorted set of those that are new, and the ratchet's map
and its skipping are the functions above.

Checked by TLC only, because liveness under fairness is beyond the prover:
`RequestsAnswered`, `RetractedCollected`, and Presence's `ConnectedIsRegistered`,
`GoneIsOffline` and `OfflineIsHeard`.

## 5. Observations

What the models show of the code that a reader may not expect.  Where a property
has an exception, it is one of these.  A line in parentheses is the text that says
otherwise; the others contradict no document.

**MLS ledger.**  `claimWelcome` hands out the newest unclaimed Welcome and marks
that one alone; the next call returns an older one (`services/mlsGroups.ts:302`,
`docs/mls-group-membership.md:217`).  A group whose remaining leaves all belong to
users who left can never be extended (`routes/mls.ts:282`).

**Contracts.**  With threshold 1 the proposer's own approval reaches the threshold
and the proposal stays Active (`group_treasury/src/lib.rs:261`, comment at 291).
Rejections of members who were removed count against the number of members now
(`lib.rs:357`, comment at 336).  A Passed withdraw proposal has no entry point
that carries it out (`lib.rs:309`).  Deposits come before `initialize` too
(`lib.rs:150`).  `create_proposal` and `vote` run before `initialize`, which sets
`NextProposalId` back to 0: the next proposal takes an id that votes are recorded
under (`proposals/src/lib.rs:77`); deployment scripts initialise at once.
`execute_proposal` may mark a Passed proposal Executed without moving money.
After the expiry the first of `finalize_proposal` and
`finalize_expired_proposal` decides between Passed and Expired.  Ids start at 0,
while the treasury's listings start at 1.  The treasury's balance does not count
tokens sent to its address directly.

**Control log.**  Whether a leaver is the last member is read before the deletion
and never again: somebody invited in between is deleted with the conversation
(`routes/conversations.ts:871`, comment at 869).  A leave deletes before its turn
in the log comes, and the log may end with `member_left` of a member (`:880`,
comment at 877).  Two last members who leave at once leave an empty conversation;
two racing invitations of one user insert two rows.

**Messaging.**  A client's clock may run ahead by the tolerated skew; the event's
key then expires while its stamp is fresh, and the event may run again.  A
duplicate of an event whose handler failed is acknowledged
(`socket/dispatcher.ts`, `docs/api-websocket-events.md:1213`), and a resend that
races with the first send gets "Failed to persist" where an acknowledgement is
promised (`api-websocket-events.md:249`).  The read marker can go back when two
devices read on at once.  POST /messages asks for no sibling envelopes and starts
no push.  An edit points at the first version, whatever version it edits
(`socket/messaging.ts:404`), so that of two edits of one message both are listed by
GET /conversations/:id/messages (`routes/conversations.ts:588`, comment at 583, which
expects a chain that collapses to its tip).

**Delivery.**  The sync cursor passes rows that commit late
(`routes/sync.ts:119`, comment at 44).  GET /sync marks envelopes without telling
the sender; a crash after a receipt's stamp silences the later receipts; a lost
sync answer loses a message once the TTL is over; a device linked later, without
an envelope, keeps a message from being fully delivered.  Nothing compares the sync
window with the collector's windows, which must be at least as long
(`routes/sync.ts:12`, `services/envelopeGc.ts`).

**Devices.**  Two revocations at once can leave an account without an active
device (`routes/devices.ts:189`).  The latch of the low signal can be opened late,
the collection of old prekeys lowers the stock without a signal, and an upload
that races with a revocation leaves prekeys behind.  A revocation cut short is
never announced; `revokedMidSession` is never cleared; nonces belong to one
process.

**Files.**  The local store's `getObject` answers a Buffer where `fileIntegrity.ts`
reads a stream, so that every confirm fails there (`fileIntegrity.ts:93`); the
instance models the S3 store (`Streams = TRUE`).  A store error in a second
confirm rejects a file that is ready; a confirm that meets the collection of its
slot answers ready; sending takes a file id as it is; an upload URL outlives the
rejection of its object.

**Presence.**  The hash has no expiry: a heartbeat that spans the end of its socket
writes the device back; offline broadcasts belong to one process; a socket that
ends before its handler listens is never announced.  PATCH /users/me reads, writes
and announces `presenceVisible` in three steps: another change, a coming or a going
in between leaves a hidden user announced as online.

**Double ratchet.**  A repeated message of the current chain costs keys, one of an
older chain derails the session; so does a gap beyond `MAX_SKIP`, whose refusal
leaves the DH step made.  The app does not use it yet.

**Sessions.**  The one retry after `device_set_mismatch` cannot succeed once the
device set has changed, because the pin has not; `verifyContact` of the
conversation page never calls `trustDevices`; a bundle's identity key is not
compared with the pin, and one in flight revives a session that was torn down.

**Inbound.**  GET /sync ignores the `sinceSequence` the page sends; `resume` may be
dropped because it is sent before the server listens; a failed key fetch drops the
second copy with the first; live ephemeral events do not move the cursor; replays
raise the sidebar's unread counts.

**Push.**  `pushFilter` asks for one `userId` AND another, so that of two offline
users none is pushed; a push within the 30 s window is dropped and never made up
for; a restart loses coalesced pushes; nothing calls `sendPushForMessage`,
`touchSubscription` and `disableSubscription`.

**List and history.**  The cache is keyed by user although the list depends on the
device; the socket's `delete_message` and `message_read` do not drop it; a list
answer overwrites counts and newer ids; a fetched presence can overwrite a newer
event.  GET presence answers "unknown" for a hidden user, which the sidebar takes
for a boolean and shows as online (`ConversationListSidebar.tsx:184`).  No client
listens to `conversation_updated`, so a new name shows at the next listing.  In the
history hook a late answer after switching back leaves a gap, a lost one leaves `loadingOlder` set, and a cursor taken from a live message misses
what was stored later but sorts before it.

**Ledger.**  The cursor passes a failed event at the next success; an event without
any conversation is dropped; a transfer whose memo names nothing is attached to
any conversation, and the sender's own report then gets 409; of two transfer
events in one transaction one is kept; REST ids never match on-chain ids.

**Budgets and typing.**  `services/rateLimit.ts:89` says "sliding 1-hour windows";
it is a fixed window from the first hit.  INCR and EXPIRE are two calls, and a lost
EXPIRE blocks for good.  Every node that loses Redis has a budget of its own.  The
app never emits `typing_start`, and the thread does not clear its indicators when
the conversation changes.

## 6. What is not modelled

PROJECT.json lists every component with its status.  Not modelled at all: rooms
and back-pressure (counters and sets of one process; the models take a room as
the set of connected sockets), the audit log, user profiles, metrics and
configuration (single statements without protocol), the remaining web pages
(presentation), the AI service (stateless: its answer or failure is `Reply` and
`AskFails` of Services), infrastructure and scripts; `ratchetSession.ts`,
`prekeyStore.ts` and `sessionStore.ts`, which nothing calls.

Of the modelled components these parts are left out: integer widths (amounts are
`i128`, counters `u32`; sums stay far from either), contract events and list
pagination, several tokens (their balances are independent), a withdrawal to the
treasury's own address, contract upgrade; ciphertexts, payload checks and Welcome
payloads; the replay cursor of GET /mls/commits (it only narrows what is served);
deleting an account; the control log's payloads and broadcast (a client that
missed it catches up); creating a conversation; upload quotas and thumbnails;
names and profile fields of devices, signatures (taken as verdicts); headers and
byte quotas of the rate limiter; the listener's delay between polls; layout and
search of the sidebar.

Model-checked and not proved: the liveness properties (Presence,
`RequestsAnswered`, `RetractedCollected`), because fairness is beyond the prover.

## 7. How to run

In this directory, with TLC, tlapm 1.4.5 and the community modules installed:

    tlc -workers 2 -config MlsGroup.cfg MCMlsGroup

and likewise `Governance.cfg MCGovernance`, `GroupControl.cfg MCGroupControl`,
`Messaging.cfg MCMessaging`, `Delivery.cfg MCDelivery`, `Devices.cfg MCDevices`,
`Files.cfg MCFiles`, `Presence.cfg MCPresence`, `Ratchet.cfg MCRatchet`,
`Sessions.cfg MCSessions`, `Inbound.cfg MCInbound` and `Services.cfg MCServices`.
Each takes between ten seconds and two minutes.

    tlapm Groups_proofs.tla

and likewise for the other `_proofs` modules.  PROJECT.json lists the runs with
their properties, a mutant for each property, the theorems, the hazards, and for
every definition the lines it models.
