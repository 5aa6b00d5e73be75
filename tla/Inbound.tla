------------------------------- MODULE Inbound -------------------------------
(***************************************************************************)
(* How a browser tab hears of the messages of one conversation.  Four      *)
(* paths carry the same message: the socket's message_envelope, the        *)
(* device_envelope relayed over Redis, GET /sync asked by the page and     *)
(* again by the socket at every connect, and the page's first GET of the   *)
(* conversation.  Decryption waits for a key fetch, so copies of a message *)
(* overlap.  The tab also replays the ephemeral events it missed, from a   *)
(* cursor that outlives the page.                                          *)
(***************************************************************************)
EXTENDS Integers, Sequences, FiniteSets

CONSTANTS
  Scenes,  \* bounds of a behaviour, see Scene
  Page     \* SYNC_PAGE_SIZE

Kinds == {"good",    \* sealed for this device, sent to the device's room
          "broken",  \* the same, but it does not open
          "relayed", \* sealed for this device, sent over the device channel
          "bare"}    \* no envelope for this device

Scene ==
  [kinds : Seq(Kinds),  \* what is posted, in this order
   events : Nat,        \* ephemeral events recorded
   faults : Nat,        \* lost connections, failed fetches and syncs, reloads
   changes : Nat]       \* changes of the sender's key set, and links

ASSUME InboundAssumption == Scenes \subseteq Scene /\ Page \in Nat

VARIABLES
  scene, stored, delivered, stamped,  \* the server's rows
  recorded,                           \* length of the user's replay stream
  socket, wire, resuming,             \* the connection, and what is under way on it
  asks, answers,                      \* GET /sync and GET messages: requests, answers
  view,                               \* messagesById
  run,                                \* handleEnvelope, one run a message
  pendingMeta, pendingCiphertext,     \* halves that wait for the other one
  keyKnown, plaintexts, linked,       \* keyCache, plaintextCache, sessionKeys
  listed,                             \* messages of the page's first GET
  resumeCursor,                       \* localStorage
  faults, keyChanges,                 \* bounds
  arrived, failed, due, seen          \* history, see the properties

server == <<scene, stored, delivered, stamped, recorded>>
link == <<socket, wire, resuming>>
tab == <<view, run, pendingMeta, pendingCiphertext, keyKnown, plaintexts, linked, listed>>
bounds == <<faults, keyChanges>>
history == <<arrived, failed, due, seen>>
inboundVars == <<server, link, asks, answers, tab, resumeCursor, bounds, history>>

kinds == scene.kinds
Messages == 1..Len(kinds)
Stored == 1..stored
Sealed(m) == kinds[m] # "bare"
Event(type, of) == [type |-> type, of |-> of]

InboundTypeOK ==
  /\ scene \in Scenes /\ stored \in 0..Len(kinds)
  /\ delivered \subseteq Stored /\ stamped \subseteq Stored
  /\ recorded \in 0..scene.events /\ resumeCursor \in 0..recorded
  /\ socket \in {"down", "accepted", "joined"} /\ resuming \in BOOLEAN
  /\ \A i \in DOMAIN wire :
       wire[i].type \in {"message_envelope", "device_envelope", "new_message",
                         "ephemeral_replay", "resume_complete"}
  /\ view \in [Messages -> {"none", "pending", "decrypted", "unavailable"}]
  /\ run \in [Messages -> {"idle", "keying", "opening", "cached"}]
  /\ pendingMeta \cup pendingCiphertext \cup plaintexts \cup listed \subseteq Messages

InboundInit ==
  /\ scene \in Scenes
  /\ stored = 0 /\ delivered = {} /\ stamped = {} /\ recorded = 0
  /\ socket = "down" /\ wire = <<>> /\ resuming = FALSE
  /\ asks = {"page", "list"} /\ answers = {}
  /\ view = [m \in Messages |-> "none"] /\ run = [m \in Messages |-> "idle"]
  /\ pendingMeta = {} /\ pendingCiphertext = {}
  /\ keyKnown = FALSE /\ plaintexts = {} /\ linked = TRUE /\ listed = {}
  /\ resumeCursor = 0 /\ faults = 0 /\ keyChanges = 0
  /\ arrived = {} /\ failed = {} /\ due = {} /\ seen = {}

Fault == faults < scene.faults /\ faults' = faults + 1

-----------------------------------------------------------------------------
(* The server *)

Insert ==
  /\ stored < Len(kinds)
  /\ stored' = stored + 1
  /\ UNCHANGED <<scene, delivered, stamped, recorded, link, asks, answers, tab,
                 resumeCursor, bounds, history>>

\* deliverMessage, once the rows are in: the ciphertext to the device's room,
\* then the bare row to the conversation's.  A relayed ciphertext takes the
\* device channel instead, which is not ordered with the rooms.
Deliver(m) ==
  /\ m \in Stored \ delivered
  /\ delivered' = delivered \cup {m}
  /\ LET row == Event("new_message", m)
         letter == Event(IF kinds[m] = "relayed" THEN "device_envelope" ELSE "message_envelope", m)
     IN wire' \in IF socket # "joined" THEN {wire}
                  ELSE IF ~Sealed(m) THEN {Append(wire, row)}
                  ELSE {wire \o <<letter, row>>} \cup
                       (IF kinds[m] = "relayed" THEN {wire \o <<row, letter>>} ELSE {})
  /\ UNCHANGED <<scene, stored, stamped, recorded, socket, resuming, asks, answers, tab,
                 resumeCursor, bounds, history>>

\* publishEphemeral; the live copy does not move the tab's cursor.
Record ==
  /\ recorded < scene.events
  /\ recorded' = recorded + 1
  /\ UNCHANGED <<scene, stored, delivered, stamped, link, asks, answers, tab,
                 resumeCursor, bounds, history>>

\* The rows GET /sync returns: a first page always, since the clients send
\* sinceSequence, which it does not read, and never its cursor.  Rows already
\* stamped stay in for the time envelopes are kept.
\* mutant: what was stamped as delivered is not sent again
Undelivered == {m \in Stored \ stamped : Sealed(m)}
Deliverable == {m \in Stored : Sealed(m)}
FirstPage(rows) == {m \in rows : Cardinality({n \in rows : n < m}) < Page}

Answer(by) ==
  /\ by \in asks \ {"list"}
  /\ asks' = asks \ {by}
  /\ answers' = answers \cup {[by |-> by, rows |-> FirstPage(Deliverable),
                               more |-> Cardinality(Deliverable) > Page]}
  /\ stamped' = stamped \cup FirstPage(Deliverable)
  /\ UNCHANGED <<scene, stored, delivered, recorded, link, tab, resumeCursor, bounds, history>>

\* The connection handler joins its rooms and registers the handlers after
\* several awaits.
Join ==
  /\ socket = "accepted"
  /\ socket' = "joined"
  /\ UNCHANGED <<server, wire, resuming, asks, answers, tab, resumeCursor, bounds, history>>

Missed == {e \in 1..recorded : e > resumeCursor}

\* resume, for a request sent with the cursor the tab has: a socket without its
\* handlers drops it.
Resume ==
  /\ resuming
  /\ resuming' = FALSE
  /\ wire' = IF socket # "joined" THEN wire
             ELSE wire \o [i \in 1..Cardinality(Missed) |->
                             Event("ephemeral_replay", resumeCursor + i)]
                       \o <<Event("resume_complete", recorded)>>
  /\ UNCHANGED <<server, socket, asks, answers, tab, resumeCursor, bounds, history>>

-----------------------------------------------------------------------------
(* The pipeline *)

\* handleEnvelope up to its first await.  A message in hand is left to the run
\* that has it.
Started(ms) ==
  [m \in Messages |->
     IF m \notin ms \/ run[m] # "idle" THEN run[m]
     ELSE IF m \in plaintexts THEN "cached"
     ELSE IF keyKnown THEN "opening" ELSE "keying"]

Merged(m, status) == IF view[m] = "decrypted" THEN view[m] ELSE status

\* mutant: a ciphertext that waited is taken and not handled
ForgetHalf(rows, handled) ==
  LET whole == rows \cap pendingCiphertext
  IN /\ pendingMeta' = (pendingMeta \cup rows) \ whole
     /\ pendingCiphertext' = pendingCiphertext \ whole
     /\ run' = Started(handled)
     /\ view' = [m \in Messages |-> IF m \in rows THEN Merged(m, "pending") ELSE view[m]]
     /\ arrived' = arrived \cup handled \cup whole
\* ingestMeta for rows: a half that waited is taken, both halves go to
\* handleEnvelope, and the row shows as pending.
IngestMeta(rows, handled) ==
  LET whole == rows \cap pendingCiphertext
  IN /\ pendingMeta' = (pendingMeta \cup rows) \ whole
     /\ pendingCiphertext' = pendingCiphertext \ whole
     /\ run' = Started(handled \cup whole)
     /\ view' = [m \in Messages |-> IF m \in rows THEN Merged(m, "pending") ELSE view[m]]
     /\ arrived' = arrived \cup handled \cup whole

\* ingestCiphertext: the other half is read, not taken.
IngestCiphertext(m) ==
  /\ IF m \in pendingMeta
     THEN /\ run' = Started({m})
          /\ UNCHANGED pendingCiphertext
          /\ arrived' = arrived \cup {m}
     ELSE /\ pendingCiphertext' = pendingCiphertext \cup {m}
          /\ UNCHANGED <<run, arrived>>
  /\ UNCHANGED <<pendingMeta, view>>

Untouched == UNCHANGED <<keyKnown, plaintexts, linked, listed>>
NothingIngested ==
  UNCHANGED <<view, run, pendingMeta, pendingCiphertext, arrived>>

FetchSenderDevicePublicKey(m) ==
  /\ run[m] = "keying"
  /\ run' = [run EXCEPT ![m] = "opening"]
  /\ keyKnown' = TRUE
  /\ UNCHANGED <<server, link, asks, answers, view, pendingMeta, pendingCiphertext,
                 plaintexts, linked, listed, resumeCursor, bounds, history>>

\* The end of a run: the status is merged into the row of the message.
Settle(m, status) ==
  /\ run' = [run EXCEPT ![m] = "idle"]
  /\ view' = [view EXCEPT ![m] = Merged(m, status)]
  /\ UNCHANGED <<server, link, asks, answers, pendingMeta, pendingCiphertext, keyKnown,
                 linked, listed, resumeCursor, keyChanges, arrived, due, seen>>

FetchFails(m) ==
  /\ run[m] = "keying"
  /\ Fault
  /\ Settle(m, "unavailable")
  /\ failed' = failed \cup {m}
  /\ UNCHANGED plaintexts

\* decryptAndVerifyEnvelope with the session key of the sender's device.
Open(m) ==
  /\ run[m] = "opening"
  /\ IF linked /\ kinds[m] # "broken"
     THEN /\ Settle(m, "decrypted")
          /\ plaintexts' = plaintexts \cup {m}
          /\ failed' = failed \ {m}
     ELSE /\ Settle(m, "unavailable")
          /\ failed' = failed \cup {m}
          /\ UNCHANGED plaintexts
  /\ UNCHANGED faults

OpenCached(m) ==
  /\ run[m] = "cached"
  /\ Settle(m, "decrypted")
  /\ UNCHANGED <<plaintexts, failed, faults>>

-----------------------------------------------------------------------------
(* The tab *)

\* The next event of the socket, in the order it was sent.
Receive ==
  /\ wire # <<>>
  /\ wire' = Tail(wire)
  /\ LET event == Head(wire)
     IN /\ CASE event.type = "message_envelope" ->
                  /\ run' = Started({event.of})
                  /\ arrived' = arrived \cup {event.of}
                  /\ UNCHANGED <<view, pendingMeta, pendingCiphertext, asks, resumeCursor, seen>>
             [] event.type = "device_envelope" ->
                  /\ IngestCiphertext(event.of)
                  /\ UNCHANGED <<asks, resumeCursor, seen>>
             [] event.type = "new_message" ->
                  /\ IngestMeta({event.of}, {})
                  /\ UNCHANGED <<asks, resumeCursor, seen>>
             [] event.type = "ephemeral_replay" ->
                  /\ resumeCursor' = event.of
                  /\ seen' = seen \cup {event.of}
                  /\ NothingIngested /\ UNCHANGED asks
             [] event.type = "resume_complete" ->
                  /\ resumeCursor' = IF event.of > 0 THEN event.of ELSE resumeCursor
                  /\ asks' = asks \cup {"resumed"}
                  /\ NothingIngested /\ UNCHANGED seen
  /\ Untouched
  /\ UNCHANGED <<server, socket, resuming, answers, bounds, failed, due>>

\* An answer comes in.  runSync hands each row to handleEnvelope;
\* runSocketSync replays it to every listener as a message_envelope and a
\* new_message; a page that is not the last is asked again.
Take(answer) ==
  /\ answer \in answers
  /\ answers' = answers \ {answer}
  /\ asks' = IF answer.more THEN asks \cup {answer.by} ELSE asks
  /\ IF answer.by = "page"
     THEN /\ run' = Started(answer.rows)
          /\ arrived' = arrived \cup answer.rows
          /\ UNCHANGED <<view, pendingMeta, pendingCiphertext>>
     ELSE IngestMeta(answer.rows, answer.rows)
  /\ Untouched
  /\ UNCHANGED <<server, link, resumeCursor, bounds, failed, due, seen>>

\* loadConversation: the page's own list, read once.
Load ==
  /\ "list" \in asks
  /\ asks' = asks \ {"list"}
  /\ listed' = Stored
  /\ NothingIngested
  /\ UNCHANGED <<server, link, answers, keyKnown, plaintexts, linked, resumeCursor, bounds,
                 failed, due, seen>>

\* The request or its answer is lost, or refused: the loop ends.
SyncFails(by) ==
  /\ Fault
  /\ \/ by \in asks /\ asks' = asks \ {by} /\ UNCHANGED answers
     \/ /\ \E answer \in answers : answer.by = by
        /\ answers' = {answer \in answers : answer.by # by}
        /\ UNCHANGED asks
  /\ due' = IF by = "connect" THEN {} ELSE due
  /\ UNCHANGED <<server, link, tab, resumeCursor, keyChanges, arrived, failed, seen>>

\* onConnect: the resume request, and a sync that does not wait for the rooms.
\* Two requests of one kind under way at once are taken for one.
Connect ==
  /\ socket = "down"
  /\ socket' = "accepted"
  /\ resuming' = TRUE
  /\ asks' = asks \cup {"connect"}
  /\ due' = {m \in Stored : Sealed(m)}
  /\ UNCHANGED <<server, wire, answers, tab, resumeCursor, bounds, arrived, failed, seen>>

\* What was on the way to the tab is gone; its HTTP requests are not.
Drop ==
  /\ socket # "down"
  /\ Fault
  /\ socket' = "down" /\ wire' = <<>> /\ resuming' = FALSE
  /\ UNCHANGED <<server, asks, answers, tab, resumeCursor, keyChanges, history>>

\* handleKeyChange forgets the session keys and neither cache.
KeyChange ==
  /\ linked /\ keyChanges < scene.changes
  /\ linked' = FALSE /\ keyChanges' = keyChanges + 1
  /\ UNCHANGED <<server, link, asks, answers, view, run, pendingMeta, pendingCiphertext,
                 keyKnown, plaintexts, listed, resumeCursor, faults, history>>

\* A session with the sender's device (importSessionKey).
Relink ==
  /\ ~linked /\ keyChanges < scene.changes
  /\ linked' = TRUE /\ keyChanges' = keyChanges + 1
  /\ UNCHANGED <<server, link, asks, answers, view, run, pendingMeta, pendingCiphertext,
                 keyKnown, plaintexts, listed, resumeCursor, faults, history>>

\* The page is loaded again: only localStorage is left.
Reload ==
  /\ Fault
  /\ socket' = "down" /\ wire' = <<>> /\ resuming' = FALSE
  /\ asks' = {"page", "list"} /\ answers' = {}
  /\ view' = [m \in Messages |-> "none"] /\ run' = [m \in Messages |-> "idle"]
  /\ pendingMeta' = {} /\ pendingCiphertext' = {}
  /\ keyKnown' = FALSE /\ plaintexts' = {} /\ linked' = FALSE /\ listed' = {}
  /\ arrived' = {} /\ failed' = {} /\ due' = {}
  /\ UNCHANGED <<server, resumeCursor, keyChanges, seen>>

InboundNext ==
  \/ Insert \/ Record \/ Join \/ Resume \/ Receive \/ Load \/ Connect \/ Drop
  \/ KeyChange \/ Relink \/ Reload
  \/ \E m \in Messages :
       \/ Deliver(m)
       \/ FetchSenderDevicePublicKey(m) \/ FetchFails(m) \/ Open(m) \/ OpenCached(m)
  \/ \E by \in {"page", "list", "connect", "resumed"} : Answer(by) \/ SyncFails(by)
  \/ \E answer \in answers : Take(answer)

InboundSpec == InboundInit /\ [][InboundNext]_inboundVars

-----------------------------------------------------------------------------
(* Safety *)

\* A message whose ciphertext and row both came in is in hand, or shown, or
\* its last attempt failed for a reason of its own: no copy is dropped because
\* another one was in the way.
ArrivedIsRead ==
  \A m \in arrived : run[m] # "idle" \/ view[m] = "decrypted" \/ m \in failed

\* Once the sync of the last connect is through, every envelope that was stored
\* when the socket connected has come in, whatever earlier connections, syncs
\* and loads of the page lost of it, already stamped as delivered; unless the
\* sync failed or has more than fits its page.  And the resume cursor never
\* passes an ephemeral event the tab has not replayed.
NothingSkipped ==
  /\ /\ "connect" \notin asks
     /\ \A answer \in answers : answer.by # "connect"
     /\ Cardinality(due) <= Page
     => due \subseteq arrived
  /\ 1..resumeCursor \subseteq seen

=============================================================================
