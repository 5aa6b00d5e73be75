------------------------------ MODULE Delivery ------------------------------
(***************************************************************************)
(* What happens to an envelope after it was sent: the transaction that     *)
(* stores it, the live push to device rooms (deliverMessage), the receipts *)
(* of devices and their aggregation into message_fully_delivered, the      *)
(* catch-up through GET /sync and the collection of old envelopes.         *)
(*                                                                         *)
(* One conversation and one recipient account with several devices, which  *)
(* are linked and revoked, go offline, lose answers and repeat receipts.   *)
(* A message is the number its envelopes' random ids sort by; times are    *)
(* ticks.  Transactions of senders run at the same time: created_at is     *)
(* the start of a transaction, which may commit later than a younger one.  *)
(***************************************************************************)
EXTENDS Integers, FiniteSets

CONSTANTS
  Messages,              \* a finite set of numbers: the order of the ids
  Devices,               \* the recipient's devices
  Setups,                \* what one behaviour has of each, and the devices linked at first
  Handlers,              \* the receipts handled at once
  PageSize,              \* SYNC_PAGE_SIZE
  Ttl,                   \* ENVELOPE_TTL_SECONDS: how long sync returns what was delivered
  Retention, MaxAge,     \* ENVELOPE_DELIVERED_RETENTION_DAYS, ENVELOPE_MAX_AGE_DAYS
  LastTick,              \* bound on the clock
  MaxFaults              \* bound on lost answers, crashed receipts, lost updates and links

ASSUME BoundsAreNaturals == {PageSize, Ttl, Retention, MaxAge, LastTick, MaxFaults} \subseteq Nat /\ LastTick > 0
ASSUME MessagesAreNumbered == Messages \subseteq Nat \ {0} /\ IsFiniteSet(Messages)
ASSUME SetupsAreSmaller == Setups \subseteq
  [messages : SUBSET Messages, devices : SUBSET Devices, linked : SUBSET Devices]

Never == LastTick + 1
Start == <<0, 0>>                       \* the cursor of a client that has none
NoReply == [kind |-> "none"]
NoReceipt == [pc |-> "idle"]
Positions == (0..LastTick) \X Nat
Reply == [kind : {"page"}, page : SUBSET Messages, next : Positions]
Receipt == [pc : {"mark", "check"}, of : Messages \X Devices]

VARIABLES
  setup,      \* the messages and devices of this behaviour
  now,        \* the clock
  tx,         \* state of each message's transaction: "none", "open", "in", "pushed"
  at,         \* created_at of a message and of its envelopes
  rows,       \* table message_envelopes: <<message, device>>
  stamp,      \* message_envelopes.delivered_at of a row, Never for NULL (kept when it goes)
  active,     \* devices that are linked and not revoked
  got,        \* the messages each device has received
  cursor,     \* nextCursor of the last page each device processed
  reply,      \* the answer of GET /sync under way to each device
  marking,    \* rows a sync still has to mark delivered, in the background
  acks,       \* message_delivered events on the network: <<message, device>>
  receipt,    \* handleDeviceDeliveryReceipt, as far as each handler got
  told,       \* messages the sender was told are fully delivered
  sent,       \* history: the rows that were ever stored
  overtaken,  \* history: rows committed behind a cursor already handed out
  quiet,      \* history: messages whose delivery was settled without a receipt's check
  faults

store == <<rows, stamp>>
history == <<sent, overtaken, quiet>>
client == <<got, cursor, reply>>
vars == <<setup, now, tx, at, store, active, client, marking, acks, receipt, told, history, faults>>

----------------------------------------------------------------------------
\* Rows are ordered by (created_at, id), across conversations.
Position(m) == <<at[m], m>>
Before(p, q) == p[1] < q[1] \/ (p[1] = q[1] /\ p[2] < q[2])

Delivered(v) == stamp[v] # Never

\* The rows GET /sync selects: behind the cursor, and not both delivered and
\* older than the retention window.
Kept(v) == ~Delivered(v) \/ at[v[1]] > now - Ttl
AfterTick(p, m) == p[1] < at[m]  \* mutant: no tie-break by id
AfterCursor(p, m) == Before(p, Position(m))
Waiting(d) == {m \in Messages : <<m, d>> \in rows /\ AfterCursor(cursor[d], m) /\ Kept(<<m, d>>)}

\* The first PageSize of them.
FirstOf(S) == {m \in S : Cardinality({n \in S : Before(Position(n), Position(m))}) < PageSize}
LastPosition(S) == CHOOSE p \in {Position(m) : m \in S} : \A m \in S : ~Before(p, Position(m))

\* isMessageFullyDeliveredToUser: every active device has its row stamped.
StampedByAll(m) ==  \* mutant: revoked devices count
  \A d \in setup.devices : <<m, d>> \in rows /\ Delivered(<<m, d>>)
FullyDelivered(m) == \A d \in active : <<m, d>> \in rows /\ Delivered(<<m, d>>)

\* runEnvelopeGcPass
Collectable(v) ==
  \/ Delivered(v) /\ stamp[v] < now - Retention
  \/ at[v[1]] < now - MaxAge

----------------------------------------------------------------------------
Init ==
  /\ setup \in Setups
  /\ now = 1
  /\ tx = [m \in Messages |-> "none"]
  /\ at = [m \in Messages |-> 0]
  /\ rows = {}
  /\ stamp = [v \in Messages \X Devices |-> Never]
  /\ active = setup.linked
  /\ got = [d \in Devices |-> {}]
  /\ cursor = [d \in Devices |-> Start]
  /\ reply = [d \in Devices |-> NoReply]
  /\ marking = {}
  /\ acks = {}
  /\ receipt = [h \in Handlers |-> NoReceipt]
  /\ told = {}
  /\ sent = {}
  /\ overtaken = {}
  /\ quiet = {}
  /\ faults = 0

Fault == faults < MaxFaults /\ faults' = faults + 1

Tick ==
  /\ now < LastTick
  /\ now' = now + 1
  /\ UNCHANGED <<setup, tx, at, store, active, client, marking, acks, receipt, told, history, faults>>

\* The transaction of a send starts: created_at defaults to now().
Begin(m) ==
  /\ tx[m] = "none"
  /\ tx' = [tx EXCEPT ![m] = "open"]
  /\ at' = [at EXCEPT ![m] = now]
  /\ UNCHANGED <<setup, now, store, active, client, marking, acks, receipt, told, history, faults>>

\* Handed out to a device: what it keeps, and what an answer brings it.
HandedOut(d) == IF reply[d].kind = "page" THEN {cursor[d], reply[d].next} ELSE {cursor[d]}

\* The rows of the active devices become visible, behind whatever is there.
Commit(m) ==
  /\ tx[m] = "open"
  /\ tx' = [tx EXCEPT ![m] = "in"]
  /\ rows' = rows \cup ({m} \X active)
  /\ sent' = sent \cup ({m} \X active)
  /\ overtaken' = overtaken \cup
       {<<m, d>> : d \in {d \in active : \E p \in HandedOut(d) : ~Before(p, Position(m))}}
  /\ UNCHANGED <<setup, now, at, stamp, active, client, marking, acks, receipt, told, quiet, faults>>

\* deliverMessage emits message_envelope to the room of every active device that
\* has a row; those connected receive it and answer message_delivered.
Push(m) ==
  /\ tx[m] = "in"
  /\ tx' = [tx EXCEPT ![m] = "pushed"]
  /\ \E reached \in SUBSET {d \in active : <<m, d>> \in rows} :
       /\ got' = [d \in Devices |-> IF d \in reached THEN got[d] \cup {m} ELSE got[d]]
       /\ acks' = acks \cup ({m} \X reached)
  /\ UNCHANGED <<setup, now, at, store, active, cursor, reply, marking, receipt, told, history, faults>>

----------------------------------------------------------------------------
\* GET /sync: one query; the rows it returns are marked in the background.
Sync(d) ==
  LET page == FirstOf(Waiting(d)) IN
  /\ d \in active
  /\ reply[d] = NoReply
  /\ reply' = [reply EXCEPT ![d] =
       [kind |-> "page", page |-> page,
        next |-> IF page = {} THEN cursor[d] ELSE LastPosition(page)]]
  /\ marking' = marking \cup {v \in page \X {d} : ~Delivered(v)}
  /\ UNCHANGED <<setup, now, tx, at, store, active, got, cursor, acks, receipt, told, history, faults>>

\* The update behind the answer: no receipt runs, so nobody checks for the last.
MarkSynced(v) ==
  /\ v \in marking
  /\ marking' = marking \ {v}
  /\ stamp' = IF v \in rows THEN [stamp EXCEPT ![v] = now] ELSE stamp
  /\ quiet' = quiet \cup {v[1]}
  /\ UNCHANGED <<setup, now, tx, at, rows, active, client, acks, receipt, told, sent, overtaken, faults>>

LoseMark(v) ==
  /\ v \in marking
  /\ Fault
  /\ marking' = marking \ {v}
  /\ UNCHANGED <<setup, now, tx, at, store, active, client, acks, receipt, told, history>>

\* A client keeps the page and its nextCursor together.
Receive(d) ==
  /\ reply[d].kind = "page"
  /\ got' = [got EXCEPT ![d] = @ \cup reply[d].page]
  /\ cursor' = [cursor EXCEPT ![d] = reply[d].next]
  /\ acks' = acks \cup (reply[d].page \X {d})
  /\ reply' = [reply EXCEPT ![d] = NoReply]
  /\ UNCHANGED <<setup, now, tx, at, store, active, marking, receipt, told, history, faults>>

LoseReply(d) ==
  /\ reply[d].kind = "page"
  /\ Fault
  /\ reply' = [reply EXCEPT ![d] = NoReply]
  /\ UNCHANGED <<setup, now, tx, at, store, active, got, cursor, marking, acks, receipt, told, history>>

----------------------------------------------------------------------------
\* handleDeviceDeliveryReceipt, started by any copy of a message_delivered: a row
\* that is stamped already answers the receipt.
TakeReceipt(h, v) ==
  /\ v \in acks
  /\ receipt[h] = NoReceipt
  /\ ~Delivered(v)
  /\ receipt' = [receipt EXCEPT ![h] = [pc |-> "mark", of |-> v]]
  /\ UNCHANGED <<setup, now, tx, at, store, active, client, marking, acks, told, history, faults>>

StampReceipt(h) ==
  /\ receipt[h].pc = "mark"
  /\ stamp' = IF receipt[h].of \in rows THEN [stamp EXCEPT ![receipt[h].of] = now] ELSE stamp
  /\ receipt' = [receipt EXCEPT ![h].pc = "check"]
  /\ UNCHANGED <<setup, now, tx, at, rows, active, client, marking, acks, told, history, faults>>

CheckReceipt(h) ==
  /\ receipt[h].pc = "check"
  /\ told' = IF FullyDelivered(receipt[h].of[1]) THEN told \cup {receipt[h].of[1]} ELSE told
  /\ receipt' = [receipt EXCEPT ![h] = NoReceipt]
  /\ UNCHANGED <<setup, now, tx, at, store, active, client, marking, acks, history, faults>>

\* The process stops after the stamp: the stamp makes every repetition return.
CrashReceipt(h) ==
  /\ receipt[h].pc = "check"
  /\ Fault
  /\ quiet' = quiet \cup {receipt[h].of[1]}
  /\ receipt' = [receipt EXCEPT ![h] = NoReceipt]
  /\ UNCHANGED <<setup, now, tx, at, store, active, client, marking, acks, told, sent, overtaken>>

----------------------------------------------------------------------------
Collect ==
  /\ \E v \in rows : Collectable(v)
  /\ rows' = {v \in rows : ~Collectable(v)}
  /\ UNCHANGED <<setup, now, tx, at, stamp, active, client, marking, acks, receipt, told, history, faults>>

\* A device joins and has no row of what was sent before; a device leaves, and
\* nothing checks again whether the others are all there are.
Link(d) ==
  /\ d \notin active
  /\ Fault
  /\ active' = active \cup {d}
  /\ UNCHANGED <<setup, now, tx, at, store, client, marking, acks, receipt, told, history>>

Revoke(d) ==
  /\ d \in active
  /\ Fault
  /\ active' = active \ {d}
  /\ quiet' = quiet \cup {m \in Messages : tx[m] \in {"in", "pushed"}}
  /\ UNCHANGED <<setup, now, tx, at, store, client, marking, acks, receipt, told, sent, overtaken>>

Next ==
  \/ Tick
  \/ Collect
  \/ \E m \in setup.messages : Begin(m) \/ Commit(m) \/ Push(m)
  \/ \E d \in setup.devices : Sync(d) \/ Receive(d) \/ LoseReply(d) \/ Link(d) \/ Revoke(d)
  \/ \E v \in setup.messages \X setup.devices : MarkSynced(v) \/ LoseMark(v)
  \/ \E h \in Handlers, v \in setup.messages \X setup.devices : TakeReceipt(h, v)
  \/ \E h \in Handlers : StampReceipt(h) \/ CheckReceipt(h) \/ CrashReceipt(h)

Spec == Init /\ [][Next]_vars

----------------------------------------------------------------------------
TypeOK ==
  /\ setup \in Setups
  /\ now \in 1..LastTick
  /\ tx \in [Messages -> {"none", "open", "in", "pushed"}]
  /\ at \in [Messages -> 0..LastTick]
  /\ stamp \in [Messages \X Devices -> 1..Never]
  /\ rows \subseteq sent /\ marking \cup acks \cup overtaken \subseteq sent
  /\ active \subseteq Devices /\ sent \subseteq Messages \X Devices
  /\ cursor \in [Devices -> Positions] /\ reply \in [Devices -> {NoReply} \cup Reply]
  /\ receipt \in [Handlers -> {NoReceipt} \cup Receipt]
  /\ got \in [Devices -> SUBSET Messages] /\ faults \in 0..MaxFaults
  /\ \A d \in Devices : got[d] \subseteq {v[1] : v \in {v \in sent : v[2] = d}}
  /\ told \subseteq Messages /\ quiet \subseteq Messages

\* A device that does not have a message can fetch it from where its cursor
\* stands, while the message is younger than the retention window, and until it
\* is MaxAge old if nothing marked it delivered; or an answer is bringing it.
\* The exception is a row that committed behind a cursor handed out already.
Fetchable(v) == v[1] \in Waiting(v[2]) \/ (reply[v[2]].kind = "page" /\ v[1] \in reply[v[2]].page)
InTime(v) == \/ now - at[v[1]] < Ttl
             \/ now - at[v[1]] <= MaxAge /\ ~Delivered(v)
StillFetchable ==
  \A v \in sent \ overtaken : (v[1] \notin got[v[2]] /\ InTime(v)) => Fetchable(v)

\* However the receipts of an account's devices interleave, the last one tells
\* the sender; only a sync, a crash or a revocation settles a message silently.
LastReceiptTells ==
  \A m \in Messages :
    (/\ active # {} /\ \A d \in active : <<m, d>> \in rows /\ stamp[<<m, d>>] # Never
     /\ m \notin quiet
     /\ \A h \in Handlers : receipt[h] = NoReceipt \/ receipt[h].of[1] # m)
      => m \in told
=============================================================================
