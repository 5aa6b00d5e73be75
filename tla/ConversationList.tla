-------------------------- MODULE ConversationList --------------------------
(***************************************************************************)
(* The conversation list of one user: GET /conversations with its cache in *)
(* Redis, the settings and the renaming of a group that drop the cache,    *)
(* and the sidebar that seeds its badges from the list and goes on from    *)
(* the socket's events.  The list has a group, and one direct message with *)
(* a peer, whose presence the sidebar shows.  Posting, and what the socket *)
(* brings, are steps of Services.                                          *)
(***************************************************************************)
EXTENDS Integers, Sequences, FiniteSets

VARIABLES
  scene,     \* scene.posts: the conversation of each message; bounds
  stored,    \* number of messages in the table
  muted,     \* conversationMembers.isMuted, of <<user, conversation>>
  marker,    \* conversationMembers.lastReadMessageId, 0 for NULL
  cache,     \* conv cache of the user
  setting,   \* PATCH /settings has written and not yet dropped the cache
  name,      \* conversations.name of the group: how often it was changed
  naming,    \* PATCH /conversations/:id that have written, as above
  wire,      \* events for the sidebar's socket
  reads,     \* message_read events under way
  request, list,     \* GET /conversations in progress, and what it has read
  counts, latest, selected,    \* unreadCounts, latestMessageIds, selectedId
  mounts,                      \* bound: times the sidebar was mounted
  peerShown, offlineTimer,     \* onlineUsers and offlineTimers for the peer
  presence,                    \* GET /users/:id/presence in progress
  raced, last                  \* history, see the properties

serverVars == <<stored, muted, marker, cache, setting, name, naming>>
badgeVars == <<counts, latest, selected, mounts>>
peerVars == <<peerShown, offlineTimer, presence, last>>

None == <<>>
Me == scene.me
Conversations == {scene.posts[m] : m \in DOMAIN scene.posts}
InConversation(c, n) == {m \in 1..n : scene.posts[m] = c}
Newest(ms) == IF ms = {} THEN 0 ELSE CHOOSE m \in ms : \A n \in ms : n <= m
Muted == {c \in Conversations : <<Me, c>> \in muted}

\* What GET /conversations computes; unread counts need a read position.
Unread(c) ==
  IF marker[c] = 0 THEN 0 ELSE Cardinality({m \in InConversation(c, stored) : m > marker[c]})
List == [known |-> stored, muted |-> Muted, name |-> name, unread |-> [c \in Conversations |-> Unread(c)]]

Init ==
  /\ stored = 0 /\ muted = {}
  /\ marker = [c \in Conversations |-> 0]
  /\ cache = None /\ setting = FALSE /\ name = 0 /\ naming = 0
  /\ wire = <<>> /\ reads = {} /\ request = "idle" /\ list = None
  /\ counts = [c \in Conversations |-> 0] /\ latest = [c \in Conversations |-> 0]
  /\ selected = None /\ mounts = 0
  /\ peerShown = "unknown" /\ offlineTimer = FALSE /\ presence = "idle"
  /\ raced = {} /\ last = "none"

-----------------------------------------------------------------------------
(* The server *)

\* GET /conversations: from the cache, or from the tables; the latter in
\* several queries, here one, before the cache is written.
ServeCached ==
  /\ request = "asked" /\ cache # None
  /\ request' = "answered" /\ list' = cache
  /\ UNCHANGED <<serverVars, badgeVars, peerVars, wire, reads, raced>>

ReadRows ==
  /\ request = "asked" /\ cache = None
  /\ request' = "reading" /\ list' = <<List>>
  /\ raced' = {}
  /\ UNCHANGED <<serverVars, badgeVars, peerVars, wire, reads>>

\* Redis may fail to answer; the list is served all the same.
WriteCache ==
  /\ request = "reading"
  /\ request' = "answered"
  /\ cache' \in {list, cache}
  /\ UNCHANGED <<stored, muted, marker, setting, name, naming, badgeVars, peerVars, wire, reads,
                 list, raced>>

\* invalidateConversationCaches, and the DEL of PATCH /settings
Uncached == cache  \* mutant: other members only
Emptied == None
Forget(what) ==
  /\ cache' = Emptied
  /\ raced' = IF request = "reading" THEN raced \cup {what} ELSE raced

\* isMuted is taken from the body.
Toggled(c) == IF <<Me, c>> \in muted THEN muted \ {<<Me, c>>} ELSE muted \cup {<<Me, c>>}

WriteSetting(c) ==
  /\ ~setting /\ scene.settings
  /\ muted' = Toggled(c)
  /\ setting' = TRUE
  /\ UNCHANGED <<stored, marker, cache, name, naming, badgeVars, peerVars, wire, reads, request,
                 list, raced>>

DropForSetting ==
  /\ setting
  /\ setting' = FALSE
  /\ Forget(<<"setting", 0>>)
  /\ UNCHANGED <<stored, muted, marker, name, naming, badgeVars, peerVars, wire, reads, request, list>>

\* Any member may rename the group; what others are sent of it no client hears.
WriteName ==
  /\ name < scene.renames
  /\ name' = name + 1
  /\ naming' = naming + 1
  /\ UNCHANGED <<stored, muted, marker, cache, setting, badgeVars, peerVars, wire, reads, request,
                 list, raced>>

DropForName ==
  /\ naming > 0
  /\ naming' = naming - 1
  /\ Forget(<<"name", 0>>)
  /\ UNCHANGED <<stored, muted, marker, setting, name, badgeVars, peerVars, wire, reads, request, list>>

\* CONV_CACHE_TTL
Expire ==
  /\ cache # None
  /\ cache' = None
  /\ UNCHANGED <<stored, muted, marker, setting, name, naming, badgeVars, peerVars, wire, reads,
                 request, list, raced>>

\* message_read, which leaves the cache as it is
MessageRead(r) ==
  /\ r \in reads
  /\ reads' = reads \ {r}
  /\ marker' = [marker EXCEPT ![scene.posts[r]] = IF r > @ THEN r ELSE @]
  /\ UNCHANGED <<stored, muted, cache, setting, name, naming, badgeVars, peerVars, wire, request,
                 list, raced>>

-----------------------------------------------------------------------------
(* The sidebar *)

\* loadConversations
Mount ==
  /\ mounts < scene.mounts /\ request = "idle"
  /\ mounts' = mounts + 1
  /\ request' = "asked"
  /\ UNCHANGED <<serverVars, peerVars, wire, reads, list, counts, latest, selected, raced>>

\* The answer replaces what the events have counted meanwhile, and the list
\* that comes asks for the peer's presence.
Seed ==
  /\ request = "answered"
  /\ request' = "idle" /\ list' = None
  /\ counts' = list[1].unread
  /\ latest' = [c \in Conversations |-> Newest(InConversation(c, list[1].known))]
  /\ presence' = IF presence = "idle" THEN "asked" ELSE presence
  /\ UNCHANGED <<serverVars, wire, reads, selected, mounts, peerShown, offlineTimer, raced, last>>

\* GET /users/:id/presence answers what holds then, and comes when it comes;
\* of a peer who hides it says "unknown".
AnswerPresence(online) ==
  /\ presence = "asked"
  /\ presence' = online
  /\ UNCHANGED <<serverVars, badgeVars, wire, reads, request, list, peerShown, offlineTimer,
                 raced, last>>

\* The avatar has its dot for whatever is not FALSE, for "unknown" too.
TakePresence ==
  /\ presence \in {"online", "offline", "unknown"}
  /\ presence' = "idle"
  /\ peerShown' = IF presence = "offline" THEN "offline" ELSE "online"
  /\ last' = "fetched"
  /\ UNCHANGED <<serverVars, badgeVars, wire, reads, request, list, offlineTimer, raced>>

HandleNewMessage(m) ==
  LET c == scene.posts[m] IN
  /\ latest' = [latest EXCEPT ![c] = m]
  /\ IF selected = <<c>> THEN reads' = reads \cup {m} /\ UNCHANGED counts
     ELSE counts' = [counts EXCEPT ![c] = @ + 1] /\ UNCHANGED reads
  /\ UNCHANGED <<peerShown, offlineTimer, last>>

\* handleOnline stops the timer that handleOffline set.
TimerKept == offlineTimer  \* mutant: not cleared
TimerStopped == FALSE
HandlePresence(status) ==
  /\ last' = status
  /\ IF status = "online"
     THEN peerShown' = "online" /\ offlineTimer' = TimerStopped
     ELSE offlineTimer' = TRUE /\ UNCHANGED peerShown
  /\ UNCHANGED <<counts, latest, reads>>

Hear ==
  /\ wire # <<>>
  /\ wire' = Tail(wire)
  /\ LET event == Head(wire) IN
       IF event.kind = "new_message" THEN HandleNewMessage(event.of)
       ELSE HandlePresence(event.kind)
  /\ UNCHANGED <<serverVars, request, list, selected, mounts, presence, raced>>

OfflineTimer ==
  /\ offlineTimer
  /\ offlineTimer' = FALSE
  /\ peerShown' = "offline"
  /\ UNCHANGED <<serverVars, badgeVars, wire, reads, request, list, presence, raced, last>>

\* A conversation is opened: its badge goes, and what is known of it is read.
Select(c) ==
  /\ mounts > 0 /\ selected # <<c>>
  /\ selected' = <<c>>
  /\ counts' = [counts EXCEPT ![c] = 0]
  /\ reads' = IF latest[c] = 0 THEN reads ELSE reads \cup {latest[c]}
  /\ UNCHANGED <<serverVars, peerVars, wire, request, list, latest, mounts, raced>>

\* The process ends, and with it the sockets and the requests; `lost' names the
\* messages whose handlers had not come to the cache.
LoseRequests(lost) ==
  /\ request' = "idle" /\ list' = None
  /\ wire' = <<>> /\ reads' = {}
  /\ presence' = "idle" /\ setting' = FALSE /\ naming' = 0
  /\ raced' = raced \cup lost \cup (IF setting THEN {<<"setting", 0>>} ELSE {})
                   \cup (IF naming > 0 THEN {<<"name", 0>>} ELSE {})
  /\ UNCHANGED <<stored, muted, marker, cache, name, badgeVars, peerShown, offlineTimer, last>>

Next ==
  \/ ServeCached \/ ReadRows \/ WriteCache \/ DropForSetting \/ WriteName \/ DropForName
  \/ Expire
  \/ \E c \in Conversations : WriteSetting(c) \/ Select(c)
  \/ \E r \in reads : MessageRead(r)
  \/ Mount \/ Seed \/ TakePresence \/ OfflineTimer

-----------------------------------------------------------------------------
\* Whatever the order of the peer's events, their timers and the answers:
\* the sidebar shows the last event once no timer is set, and a timer that is
\* set is about the last event (handleOnline, handleOffline).
LastPresenceShows ==
  /\ ~offlineTimer /\ last \in {"online", "offline"} => peerShown = last
  /\ offlineTimer => last \in {"offline", "fetched"}

=============================================================================
