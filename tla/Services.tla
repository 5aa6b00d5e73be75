------------------------------ MODULE Services ------------------------------
(***************************************************************************)
(* What follows once a message is stored, and what else runs beside the    *)
(* sockets: its handler tells the room, drops the cached lists and starts  *)
(* the push (Push, ConversationList, History), while the listener and the  *)
(* treasury's routes fill the tables (Ledger).  One process of the backend *)
(* and one browser; a scene says what may happen in a behaviour.           *)
(***************************************************************************)
EXTENDS Integers, Sequences, FiniteSets

CONSTANTS Scenes, Devices, Endpoints

\* What a scene says of limits, windows and pages are numbers, a page has room
\* for a message, and a peer hides or not.
ASSUME ScenesAssumption ==
  \A s \in Scenes :
    s.limit \in Nat /\ s.windows \in Nat /\ s.visible \in BOOLEAN /\ s.page \in Nat \ {0}

\* The posts are a sequence; those of the history have a time, and an id that is
\* theirs alone.
ASSUME PostsAssumption ==
  \A s \in Scenes :
    /\ Len(s.posts) \in Nat /\ DOMAIN s.posts = 1..Len(s.posts)
    /\ \A m, n \in {k \in DOMAIN s.posts : s.posts[k] = s.paged} :
         s.times[m] \in Nat /\ s.ids[m] \in Nat /\ (s.ids[m] = s.ids[n] => m = n)

VARIABLES
  scene, restarts,      \* scene: what may happen; bounds
  stored, sending,      \* messages; handlers that send one
  asking, asked, quiet, \* ask_assistant under way, their bound; replies
  missed,               \* messages the page's socket was never told of
  peer, changes,        \* the peer's presence, and its bound
  visible, told,        \* users.presenceVisible of the peer, what was sent last
  revealing, disturbed, \* PATCH /users/me of the peer; history, see the property
  connected, muted,
  filtering, pending, recent, flights, subs, shown, trouble, queued, settled, burst,
  marker, cache, setting, name, naming, wire, reads, request, list, counts, latest, selected, mounts,
  peerShown, offlineTimer, presence, raced, last,
  visit, viewing, hist, loadingOlder, hasReachedStart, pages, live, walk,
  crossed, chain, listener, cursor, transfers, conversations, posting, proposals, proposalVotes,
  listed, ballots, mishaps, begun, seen, failed, answered,
  typed, checking, typingTimers, left, relayed, typing, hiding, lastRelayed,
  window, counters, localCounters, charging, arrived, admitted, fellBack, contacts, arming

P == INSTANCE Push
L == INSTANCE ConversationList
H == INSTANCE History
G == INSTANCE Ledger
T == INSTANCE Typing
K == INSTANCE Limits

pushVars == <<filtering, pending, recent, flights, subs, shown, trouble, queued, settled, burst>>
peerVars == <<peer, changes, visible, told, revealing, disturbed>>
serverVars == <<stored, muted, marker, cache, setting, name, naming>>
sidebarVars == <<reads, request, list, counts, latest, selected, mounts, peerShown, offlineTimer,
                 presence, last>>
listVars == <<serverVars, sidebarVars, wire, raced>>
historyVars == <<visit, viewing, hist, loadingOlder, hasReachedStart, pages, live, crossed, walk>>
ledgerVars == <<chain, listener, cursor, transfers, conversations, posting, proposals,
                proposalVotes, listed, ballots, mishaps, begun, seen, failed, answered>>
typingVars == <<typed, checking, typingTimers, left, relayed, typing, hiding, lastRelayed>>
limitVars == <<window, counters, localCounters, charging, arrived, admitted, fellBack, contacts,
               arming>>
otherVars == <<ledgerVars, typingVars, limitVars>>
handlerVars == <<restarts, sending, asking, asked, quiet, missed, peerVars, connected>>
vars == <<scene, handlerVars, pushVars, listVars, historyVars, otherVars>>

Init ==
  /\ scene \in Scenes
  /\ restarts = 0 /\ sending = [m \in {} |-> ""] /\ missed = {}
  /\ asking = 0 /\ asked = 0 /\ quiet = {}
  /\ peer = "offline" /\ changes = 0 /\ visible = scene.visible /\ told = "nothing"
  /\ revealing = {} /\ disturbed = FALSE
  /\ connected = scene.online
  /\ P!Init /\ L!Init /\ H!Init /\ G!Init /\ T!Init /\ K!Init

-----------------------------------------------------------------------------
(* send_message after its insert *)

Without(m) == [n \in DOMAIN sending \ {m} |-> sending[n]]
WithStored(m) == [n \in DOMAIN sending \cup {m} |-> IF n = m THEN "stored" ELSE sending[n]]
Toward(event) == IF P!IsOnline(scene.me) THEN Append(wire, event) ELSE wire

StoredVars ==
  /\ stored' = stored + 1
  /\ sending' = WithStored(stored + 1)
  /\ UNCHANGED <<scene, restarts, missed, peerVars, connected, pushVars, muted, marker, cache,
                 setting, name, naming, wire, sidebarVars, raced, historyVars, otherVars>>

Store ==
  /\ stored < Len(scene.posts)
  /\ StoredVars
  /\ UNCHANGED <<asking, asked, quiet>>

\* ask_assistant: the reply is stored like a message once the agent answers,
\* and nobody is pushed.
Ask ==
  /\ asked < scene.asks
  /\ asked' = asked + 1
  /\ asking' = asking + 1
  /\ UNCHANGED <<scene, restarts, sending, quiet, missed, peerVars, connected, pushVars,
                 listVars, historyVars, otherVars>>

Reply ==
  /\ asking > 0 /\ stored < Len(scene.posts)
  /\ asking' = asking - 1
  /\ quiet' = quiet \cup {stored + 1}
  /\ StoredVars
  /\ UNCHANGED asked

AskFails ==
  /\ asking > 0
  /\ asking' = asking - 1
  /\ UNCHANGED <<scene, restarts, sending, asked, quiet, missed, peerVars, connected,
                 pushVars, listVars, historyVars, otherVars>>

\* new_message to the room
Deliver(m) ==
  /\ m \in DOMAIN sending /\ sending[m] = "stored"
  /\ sending' = [sending EXCEPT ![m] = "delivered"]
  /\ wire' = Toward([kind |-> "new_message", of |-> m])
  /\ missed' = IF P!IsOnline(scene.me) THEN missed ELSE missed \cup {m}
  /\ UNCHANGED <<scene, restarts, asking, asked, quiet, peerVars, connected, pushVars,
                 serverVars, sidebarVars, raced, historyVars, otherVars>>

\* invalidateConversationCaches, and dispatchOfflinePush started; edit_message
\* pushes to nobody.
Invalidate(m) ==
  /\ m \in DOMAIN sending /\ sending[m] = "delivered"
  /\ sending' = Without(m)
  /\ L!Forget(<<"message", m>>)
  /\ IF m \in quiet \/ H!Edited(m) # {} THEN UNCHANGED filtering ELSE P!Dispatch(m, scene.posts[m])
  /\ UNCHANGED <<scene, restarts, asking, asked, quiet, missed, peerVars, connected, muted,
                 pending, recent, flights, subs, shown, trouble, queued, settled, burst, stored, marker,
                 setting, name, naming, wire, sidebarVars, historyVars, otherVars>>

-----------------------------------------------------------------------------
(* Sockets *)

Connect(d) ==
  /\ scene.moves /\ d \notin connected
  /\ connected' = connected \cup {d}
  /\ UNCHANGED <<scene, restarts, sending, asking, asked, quiet, missed, peerVars, pushVars,
                 listVars, historyVars, otherVars>>

Disconnect(d) ==
  /\ scene.moves /\ d \in connected
  /\ connected' = connected \ {d}
  /\ UNCHANGED <<scene, restarts, sending, asking, asked, quiet, missed, peerVars, pushVars,
                 listVars, historyVars, otherVars>>

\* What the members hear of it, when, is Presence; of a peer who hides nothing.
PeerChanges ==
  /\ changes < scene.changes
  /\ changes' = changes + 1
  /\ peer' = IF peer = "online" THEN "offline" ELSE "online"
  /\ told' = IF visible THEN peer' ELSE told
  /\ wire' = IF visible THEN Toward([kind |-> peer', of |-> 0]) ELSE wire
  /\ disturbed' = (disturbed \/ revealing # {})
  /\ UNCHANGED <<scene, restarts, sending, asking, asked, quiet, missed, visible, revealing, connected,
                 pushVars, serverVars, sidebarVars, raced, historyVars, otherVars>>

\* PATCH /users/me with presenceVisible: the old value, the update, and when
\* they differ what the others are told of a peer who is online.
ReadVisible(v) ==
  /\ changes < scene.changes /\ scene.hides
  /\ changes' = changes + 1
  /\ revealing' = revealing \cup {[pc |-> "read", old |-> visible, new |-> v]}
  /\ disturbed' = (disturbed \/ revealing # {})
  /\ UNCHANGED <<scene, restarts, sending, asking, asked, quiet, missed, peer, visible, told, connected,
                 pushVars, listVars, historyVars, otherVars>>

WriteVisible(r) ==
  /\ r \in revealing /\ r.pc = "read"
  /\ visible' = r.new
  /\ revealing' = (revealing \ {r}) \cup {[r EXCEPT !.pc = "written"]}
  /\ UNCHANGED <<scene, restarts, sending, asking, asked, quiet, missed, peer, changes, told, disturbed,
                 connected, pushVars, listVars, historyVars, otherVars>>

Announced(r) == r.new # r.old /\ peer = "online"
TellVisible(r) ==
  LET kind == IF r.new THEN "online" ELSE "offline" IN
  /\ r \in revealing /\ r.pc = "written"
  /\ revealing' = revealing \ {r}
  /\ told' = IF Announced(r) THEN kind ELSE told
  /\ wire' = IF Announced(r) THEN Toward([kind |-> kind, of |-> 0]) ELSE wire
  /\ UNCHANGED <<scene, restarts, sending, asking, asked, quiet, missed, peer, changes, visible, disturbed,
                 connected, pushVars, serverVars, sidebarVars, raced, historyVars, otherVars>>

\* One socket serves the sidebar and the page with its thread.
Hear ==
  /\ L!Hear
  /\ IF Head(wire).kind = "new_message" THEN H!OnNewMessage(Head(wire).of) /\ T!HideAll
     ELSE UNCHANGED <<historyVars, typingVars>>
  /\ UNCHANGED <<scene, restarts, sending, asking, asked, quiet, missed, peerVars, connected,
                 pushVars, ledgerVars, limitVars>>

Restart ==
  /\ restarts < scene.restarts
  /\ restarts' = restarts + 1
  /\ sending' = [m \in {} |-> ""]
  /\ missed' = missed \cup {m \in DOMAIN sending : sending[m] = "stored"}
                      \cup {wire[i].of : i \in DOMAIN wire}
  /\ P!LosePushes
  /\ L!LoseRequests({<<"message", m>> : m \in DOMAIN sending})
  /\ H!LosePages
  /\ G!LoseCursors
  /\ K!LoseCharges
  /\ asking' = 0
  /\ revealing' = {} /\ disturbed' = (disturbed \/ revealing # {})
  /\ UNCHANGED <<scene, asked, quiet, peer, changes, visible, told, connected, typingVars>>

-----------------------------------------------------------------------------
Pushes == P!Next /\ UNCHANGED <<scene, handlerVars, listVars, historyVars, otherVars>>

Lists ==
  /\ L!Next \/ L!AnswerPresence(IF visible THEN peer ELSE "unknown")
  /\ UNCHANGED <<scene, handlerVars, pushVars, historyVars, otherVars>>

Histories == H!Next /\ UNCHANGED <<scene, handlerVars, pushVars, listVars, otherVars>>
Others ==
  /\ \/ G!Next /\ UNCHANGED <<typingVars, limitVars>>
     \/ T!Next /\ UNCHANGED <<ledgerVars, limitVars>>
     \/ K!Next /\ UNCHANGED <<ledgerVars, typingVars>>
  /\ UNCHANGED <<scene, handlerVars, pushVars, listVars, historyVars>>

Next ==
  \/ Store \/ Ask \/ Reply \/ AskFails
  \/ \E m \in DOMAIN sending : Deliver(m) \/ Invalidate(m)
  \/ \E d \in Devices : Connect(d) \/ Disconnect(d)
  \/ \E v \in BOOLEAN : ReadVisible(v)
  \/ \E r \in revealing : WriteVisible(r) \/ TellVisible(r)
  \/ PeerChanges \/ Hear \/ Restart
  \/ Pushes \/ Lists \/ Histories \/ Others

Spec == Init /\ [][Next]_vars

-----------------------------------------------------------------------------
TypeOK ==
  /\ scene \in Scenes
  /\ stored \in 0..Len(scene.posts)
  /\ sending \in [DOMAIN sending -> {"stored", "delivered"}]
  /\ connected \subseteq Devices
  /\ subs \in [Endpoints -> {P!None} \cup [device : Devices, state : {"enabled", "backoff"}]]
  /\ request \in {"idle", "asked", "reading", "answered"}
  /\ presence \in {"idle", "asked", "online", "offline", "unknown"}
  /\ {viewing, loadingOlder, hasReachedStart} \subseteq BOOLEAN
  /\ \A s \in G!Streams : cursor[s] \in 0..chain[s]

\* A cached list misses a message, a setting or a name only while the handler
\* that stored it is still on its way to the cache, or when the list was read
\* before the cache was dropped and written after, or the handler ended with
\* the process (GET /conversations, invalidateConversationCaches, PATCH).
StaleOnlyInRace ==
  cache # L!None =>
    /\ \A m \in (cache[1].known + 1)..stored : m \in DOMAIN sending \/ <<"message", m>> \in raced
    /\ cache[1].muted = L!Muted \/ setting \/ <<"setting", 0>> \in raced
    /\ cache[1].name = name \/ naming > 0 \/ <<"name", 0>> \in raced

NothingForgotten == P!NothingForgotten
OncePerWindow == P!OncePerWindow

\* The sidebar shows the last event (see there), and the last event about a
\* peer who has hidden is never that they came online; unless something came
\* between the steps of the change: another one, a coming or going, a restart
\* (PATCH /users/me, whose update and announcement nothing ties together).
LastPresenceShows ==
  /\ L!LastPresenceShows
  /\ ~visible /\ revealing = {} /\ ~disturbed => told # "online"

Unheard ==
  missed \cup {m \in DOMAIN sending : sending[m] = "stored"} \cup {wire[i].of : i \in DOMAIN wire}

\* However it is read, by the hook or from cursor to cursor, the history of a
\* conversation is whole (see there).
StartIsWhole == H!StartIsWhole(Unheard) /\ H!ListIsWhole

CursorCovers == G!CursorCovers
AnsweredStays == G!AnsweredStays
TypingEnds == T!TypingEnds
WithinBudget == K!WithinBudget

=============================================================================
