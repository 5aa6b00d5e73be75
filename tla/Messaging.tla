----------------------------- MODULE Messaging -----------------------------
(***************************************************************************)
(* The handlers of one conversation's messages (socket/messaging.ts and    *)
(* routes/messages.ts): send, edit, delete and read, behind the socket     *)
(* dispatcher with its freshness window and its replay keys in Redis.      *)
(*                                                                         *)
(* A client dispatches an event once, in an envelope stamped with its own  *)
(* clock; the network may lose it, delay it or bring it again.  Nothing    *)
(* orders the handlers: each slot runs one, split at its database calls,   *)
(* and may stop at any of them (an exception, a crash of the instance).    *)
(* Ciphertexts, sizes, content types and room names are left out; members  *)
(* and devices are those of the conversation and do not change here.       *)
(***************************************************************************)
EXTENDS Integers, FiniteSets

CONSTANTS
  Devices, UserOf,   \* the devices and the user each belongs to
  Events,            \* what clients ask: id, device, kind, via, message, original, to
  Scenarios,         \* the events of one behaviour, with a bound on the starts of each
  Slots,             \* the handlers that may run at once
  NoMessage, NoEvent,
  MaxAge, Skew,      \* SOCKET_EVENT_MAX_AGE_MS, SOCKET_EVENT_MAX_FUTURE_SKEW_MS
  Ttl,               \* REPLAY_PROTECTION_TTL_SECONDS
  LastTick,          \* bound on the clock
  MaxOpen            \* bound on events let through without a key

ASSUME BoundsAreNaturals == {MaxAge, Skew, Ttl, LastTick, MaxOpen} \subseteq Nat
ASSUME ScenariosOfEvents == \A asks \in Scenarios : DOMAIN asks \subseteq Events
ASSUME EventsOfDevices == \A e \in Events : e.device \in Devices /\ e.to \subseteq Devices
ASSUME NoMessageIsNone == NoMessage \notin {e.message : e \in Events}

Users == {UserOf[d] : d \in Devices}
Messages == {e.message : e \in Events}
Envelope == [event : Events, stamp : Nat]
Row == [sender : Users, root : Messages \cup {NoMessage}, at : Nat, deleted : BOOLEAN]
Handler == [pc : {"idle", "find", "begin", "insert", "deliver", "tell", "strip", "write", "stamp"},
            event : Events \cup {NoEvent}, root : Messages \cup {NoMessage},
            at : Nat, seen : Messages \cup {NoMessage}]
Idle == [pc |-> "idle", event |-> NoEvent, root |-> NoMessage, at |-> 0, seen |-> NoMessage]

\* A row or a key that is not there yet.
Put(map, k, v) == [x \in DOMAIN map \cup {k} |-> IF x = k THEN v ELSE map[x]]

VARIABLES
  asked,      \* the events clients ask for in this behaviour
  now,        \* the server's clock
  flight,     \* envelopes clients dispatched: the network keeps a copy of each
  keys,       \* replay keys of Redis: the last tick at which each is live
  handler,    \* the running handlers
  messages,   \* table messages, by id
  envelopes,  \* table message_envelopes: <<message, recipient device>>
  read,       \* the envelopes stamped read
  marker,     \* conversation_members.lastReadMessageId
  heard,      \* what the room was told: <<kind, message>>
  acked,      \* messages some client got a message_ack (or 200, 201) for
  ran,        \* history: how often each event's handler was started
  early,      \* history: events first started before the time they were stamped with
  open        \* history: events let through while Redis did not answer

db == <<messages, envelopes, read, marker>>
history == <<ran, early, open>>
vars == <<asked, now, flight, keys, handler, db, heard, acked, history>>

----------------------------------------------------------------------------
\* isEnvelopeTimestampFresh
Fresh(stamp) == now - MaxAge <= stamp /\ stamp <= now + Skew

\* isReplay: SET NX finds the key of the device's event while its EX runs.
KeyOf(e) == <<e.device, e.id>>
Seen(k) == k \in DOMAIN keys
ShortExpiry == now + Ttl - 1  \* mutant: the key does not outlive the envelope
Expiry == now + Ttl

Author(e) == UserOf[e.device]
Siblings(e) == {d \in Devices : UserOf[d] = Author(e)} \ {e.device}

\* Sends over the socket and edits need an envelope for every sibling device;
\* POST /messages does not ask for them.
CoversNothing(e) == TRUE  \* mutant: the check is dropped
Covers(e) == e.via = "http" \/ Siblings(e) \subseteq e.to

Exists(m) == m \in DOMAIN messages
Own(e, m) == Exists(m) /\ messages[m].sender = Author(e)

\* An edit of an edit names the message the chain starts from.
RootOf(m) == IF messages[m].root = NoMessage THEN m ELSE messages[m].root

\* Monotonicity check of message_read, on the marker the handler has read.
NotBefore(m, last) == last = NoMessage \/ messages[m].at >= messages[last].at  \* mutant: < for <=
Advances(m, last) == last = NoMessage \/ messages[m].at > messages[last].at

UpTo(m) == {n \in DOMAIN messages : messages[n].at <= messages[m].at}

Event(s) == handler[s].event
At(s, pc, kinds) == handler[s].pc = pc /\ Event(s).kind \in kinds
Goto(s, pc) == handler' = [handler EXCEPT ![s].pc = pc]
Return(s) == handler' = [handler EXCEPT ![s] = Idle]

----------------------------------------------------------------------------
Init ==
  /\ asked \in Scenarios
  /\ now = 0
  /\ flight = {}
  /\ keys = [k \in {} |-> 0]
  /\ handler = [s \in Slots |-> Idle]
  /\ messages = [m \in {} |-> 0]
  /\ envelopes = {}
  /\ read = {}
  /\ marker = [u \in Users |-> NoMessage]
  /\ heard = {}
  /\ acked = {}
  /\ ran = [e \in DOMAIN asked |-> 0]
  /\ early = {}
  /\ open = {}

\* Redis drops the keys whose time is over.
Tick ==
  /\ now < LastTick
  /\ now' = now + 1
  /\ keys' = [k \in {k \in DOMAIN keys : now < keys[k]} |-> keys[k]]
  /\ UNCHANGED <<asked, flight, handler, db, heard, acked, history>>

\* A client wraps an event in an envelope; its clock may run ahead of the
\* server's by as much as the dispatcher tolerates.
Dispatch(e, ahead) ==
  /\ e.via = "socket"
  /\ \A f \in flight : f.event # e
  /\ flight' = flight \cup {[event |-> e, stamp |-> now + ahead]}
  /\ UNCHANGED <<asked, now, keys, handler, db, heard, acked, history>>

Start(s, e) ==
  /\ ran[e] < asked[e]
  /\ handler' = [handler EXCEPT ![s] = [Idle EXCEPT !.pc = "find", !.event = e]]
  /\ ran' = [ran EXCEPT ![e] = @ + 1]

Admit(s, f) ==
  /\ handler[s].pc = "idle"
  /\ Fresh(f.stamp)
  /\ ~Seen(KeyOf(f.event))
  /\ keys' = Put(keys, KeyOf(f.event), Expiry)
  /\ Start(s, f.event)
  /\ early' = IF now < f.stamp /\ ran[f.event] = 0 THEN early \cup {f.event} ELSE early
  /\ UNCHANGED <<asked, now, flight, db, heard, acked, open>>

\* Redis is down or answers with an error: the event goes through unmarked.
AdmitUnchecked(s, f) ==
  /\ handler[s].pc = "idle"
  /\ Fresh(f.stamp)
  /\ Cardinality(open) < MaxOpen
  /\ Start(s, f.event)
  /\ open' = open \cup {f.event}
  /\ UNCHANGED <<asked, now, flight, keys, db, heard, acked, early>>

\* POST /messages and DELETE /messages/:id come without an event id.
Request(s, e) ==
  /\ e.via = "http"
  /\ handler[s].pc = "idle"
  /\ Start(s, e)
  /\ UNCHANGED <<asked, now, flight, keys, db, heard, acked, early, open>>

----------------------------------------------------------------------------
\* send_message, send_file_message, POST /messages: the existing row, then the
\* coverage of siblings.  A known id is acknowledged and nothing else happens.
FindSend(s) ==
  /\ At(s, "find", {"send"})
  /\ IF Exists(Event(s).message)
       THEN acked' = acked \cup {Event(s).message} /\ Return(s)
       ELSE UNCHANGED acked /\ IF Covers(Event(s)) THEN Goto(s, "begin") ELSE Return(s)
  /\ UNCHANGED <<asked, now, flight, keys, db, heard, history>>

\* edit_message: the original must be the editor's own; it may be deleted.
FindEdit(s) ==
  LET e == Event(s) IN
  /\ At(s, "find", {"edit"})
  /\ CASE ~Own(e, e.original) \/ (~Exists(e.message) /\ ~Covers(e)) ->
            Return(s) /\ UNCHANGED acked
       [] Own(e, e.original) /\ Exists(e.message) ->
            Return(s) /\ acked' = acked \cup {e.message}
       [] OTHER ->
            /\ handler' = [handler EXCEPT ![s].pc = "begin", ![s].root = RootOf(e.original)]
            /\ UNCHANGED acked
  /\ UNCHANGED <<asked, now, flight, keys, db, heard, history>>

\* createdAt defaults to the time the transaction starts.
BeginInsert(s) ==
  /\ handler[s].pc = "begin"
  /\ handler' = [handler EXCEPT ![s].pc = "insert", ![s].at = now]
  /\ UNCHANGED <<asked, now, flight, keys, db, heard, acked, history>>

\* The row and the envelopes of its recipients commit together.
Envelopes(e) == {<<e.message, d>> : d \in e.to}

\* A concurrent insert of the same id wins: "Failed to persist message".
CommitInsert(s) ==
  LET e == Event(s) IN
  /\ handler[s].pc = "insert"
  /\ IF Exists(e.message)
       THEN Return(s) /\ UNCHANGED <<messages, envelopes, acked>>
       ELSE /\ messages' = Put(messages, e.message,
                   [sender |-> Author(e), root |-> handler[s].root, at |-> handler[s].at,
                    deleted |-> FALSE])
            /\ envelopes' = envelopes \cup Envelopes(e)
            /\ acked' = acked \cup {e.message}
            /\ Goto(s, "deliver")
  /\ UNCHANGED <<asked, now, flight, keys, read, marker, heard, history>>

Deliver(s) ==
  LET e == Event(s) IN
  /\ handler[s].pc = "deliver"
  /\ heard' = heard \cup {<<"new", e.message>>}
  /\ IF e.kind = "edit" THEN Goto(s, "tell") ELSE Return(s)
  /\ UNCHANGED <<asked, now, flight, keys, db, acked, history>>

TellEdited(s) ==
  /\ At(s, "tell", {"edit"})
  /\ heard' = heard \cup {<<"edited", Event(s).message>>}
  /\ Return(s)
  /\ UNCHANGED <<asked, now, flight, keys, db, acked, history>>

----------------------------------------------------------------------------
\* delete_message and DELETE /messages/:id: three statements, each of its own.
SkipDeleted(s) ==  \* mutant: a message already marked is not deleted again
  /\ At(s, "find", {"delete"})
  /\ IF ~Own(Event(s), Event(s).message) THEN Return(s)
     ELSE Goto(s, IF messages[Event(s).message].deleted THEN "tell" ELSE "write")
  /\ UNCHANGED <<asked, now, flight, keys, db, heard, acked, history>>
FindDelete(s) ==
  /\ At(s, "find", {"delete"})
  /\ IF Own(Event(s), Event(s).message) THEN Goto(s, "write") ELSE Return(s)
  /\ UNCHANGED <<asked, now, flight, keys, db, heard, acked, history>>

MarkDeleted(s) ==
  /\ At(s, "write", {"delete"})
  /\ messages' = [messages EXCEPT ![Event(s).message].deleted = TRUE]
  /\ Goto(s, "strip")
  /\ UNCHANGED <<asked, now, flight, keys, envelopes, read, marker, heard, acked, history>>

StripEnvelopes(s) ==
  /\ At(s, "strip", {"delete"})
  /\ envelopes' = {v \in envelopes : v[1] # Event(s).message}
  /\ read' = read \cap envelopes'
  /\ Goto(s, "tell")
  /\ UNCHANGED <<asked, now, flight, keys, messages, marker, heard, acked, history>>

TellDeleted(s) ==
  /\ At(s, "tell", {"delete"})
  /\ heard' = heard \cup {<<"deleted", Event(s).message>>}
  /\ Return(s)
  /\ UNCHANGED <<asked, now, flight, keys, db, acked, history>>

----------------------------------------------------------------------------
\* message_read: marker and message are read, compared, and written later.
FindRead(s) ==
  LET m == Event(s).message
      last == marker[Author(Event(s))]
  IN
  /\ At(s, "find", {"read"})
  /\ IF Exists(m) /\ Advances(m, last)
       THEN handler' = [handler EXCEPT ![s].pc = "write", ![s].seen = last]
       ELSE Return(s)
  /\ UNCHANGED <<asked, now, flight, keys, db, heard, acked, history>>

WriteMarker(s) ==
  /\ At(s, "write", {"read"})
  /\ marker' = [marker EXCEPT ![Author(Event(s))] = Event(s).message]
  /\ Goto(s, "stamp")
  /\ UNCHANGED <<asked, now, flight, keys, messages, envelopes, read, heard, acked, history>>

StampRead(s) ==
  /\ At(s, "stamp", {"read"})
  /\ read' = read \cup (envelopes \cap (UpTo(Event(s).message) \X {Event(s).device}))
  /\ Return(s)
  /\ UNCHANGED <<asked, now, flight, keys, messages, envelopes, marker, heard, acked, history>>

----------------------------------------------------------------------------
\* A database call throws, or the instance goes down: nothing more is said.
Fail(s) ==
  /\ handler[s].pc # "idle"
  /\ handler' = [handler EXCEPT ![s] = Idle]
  /\ UNCHANGED <<asked, now, flight, keys, db, heard, acked, history>>

Run(s) ==
  \/ FindSend(s) \/ FindEdit(s) \/ BeginInsert(s) \/ CommitInsert(s) \/ Deliver(s)
  \/ TellEdited(s) \/ FindDelete(s) \/ MarkDeleted(s) \/ StripEnvelopes(s)
  \/ TellDeleted(s) \/ FindRead(s) \/ WriteMarker(s) \/ StampRead(s)
  \/ Fail(s)

Next ==
  \/ Tick
  \/ \E e \in DOMAIN asked, ahead \in 0..Skew : Dispatch(e, ahead)
  \/ \E s \in Slots, f \in flight : Admit(s, f) \/ AdmitUnchecked(s, f)
  \/ \E s \in Slots, e \in DOMAIN asked : Request(s, e)
  \/ \E s \in Slots : Run(s)

Spec == Init /\ [][Next]_vars

----------------------------------------------------------------------------
TypeOK ==
  /\ asked \in Scenarios
  /\ now \in 0..LastTick
  /\ flight \subseteq Envelope
  /\ DOMAIN keys \subseteq {KeyOf(e) : e \in Events}
  /\ handler \in [Slots -> Handler]
  /\ DOMAIN messages \subseteq Messages /\ \A m \in DOMAIN messages : messages[m] \in Row
  /\ envelopes \subseteq Messages \X Devices
  /\ read \subseteq envelopes
  /\ marker \in [Users -> Messages \cup {NoMessage}]
  /\ acked \subseteq Messages
  /\ ran \in [DOMAIN asked -> Nat] /\ early \subseteq Events /\ open \subseteq Events

\* Replay protection: an event of the socket runs a second time only if Redis
\* did not answer, or if it first ran ahead of its own time stamp: then the key
\* expires while the stamp is still fresh.
EachEventOnce ==
  \A e \in DOMAIN asked : (e.via = "socket" /\ ran[e] > 1) => e \in open \cup early

\* A message_ack is kept: until it is deleted the message is stored with all the
\* envelopes of one request, among them, unless it came by REST, one for every
\* other device of its author.
AckedStored ==
  \A m \in acked :
    /\ Exists(m)
    /\ \/ messages[m].deleted
       \/ \E e \in DOMAIN asked : /\ e.message = m
                                  /\ {m} \X e.to \subseteq envelopes
                                  /\ e.via = "http" \/ Siblings(e) \subseteq e.to

\* What the room was told is gone is gone: the row is marked and no device
\* can fetch an envelope of it, however sends, retries and crashes interleave.
RetractionComplete ==
  \A m \in Messages : <<"deleted", m>> \in heard =>
    Exists(m) /\ messages[m].deleted /\ \A v \in envelopes : v[1] # m

\* A user's read marker goes back only when another handler of that user moved
\* it between this handler's check and its write.
MarkerAdvances ==
  [][\A u \in Users : (marker[u] # NoMessage /\ marker'[u] # marker[u])
       => \/ messages[marker'[u]].at > messages[marker[u]].at
          \/ \E s \in Slots : /\ At(s, "write", {"read"})
                              /\ Event(s).message = marker'[u] /\ handler[s].seen # marker[u]]_vars
=============================================================================
