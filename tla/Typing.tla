------------------------------- MODULE Typing -------------------------------
(***************************************************************************)
(* Typing indicators of one socket: the relay with its five-second timers, *)
(* and one other member's thread with its own timer for the user.          *)
(***************************************************************************)
EXTENDS Integers, Sequences, FiniteSets

VARIABLES
  scene,         \* scene.keys: conversation, or conversation and device; bounds
  typed,         \* bound: events of the client
  checking,      \* handlers that wait for the membership
  typingTimers,  \* keys with a timer
  left,          \* the socket has disconnected
  relayed,       \* events for the thread
  typing, hiding, \* typingUsers and autoHideTimers of the thread, for the user
  lastRelayed    \* history, see the property

Init ==
  /\ typed = 0 /\ checking = {} /\ typingTimers = {} /\ left = FALSE
  /\ relayed = <<>> /\ typing = FALSE /\ hiding = FALSE
  /\ lastRelayed = [k \in scene.keys |-> "stop"]

-----------------------------------------------------------------------------
(* typing_start, typing_stop and disconnect *)

Relay(event, keys) ==
  /\ relayed' = IF keys = {} THEN relayed ELSE Append(relayed, event)
  /\ lastRelayed' = [k \in scene.keys |-> IF k \in keys THEN event ELSE lastRelayed[k]]

Type(event, k) ==
  /\ typed < scene.typed /\ ~left
  /\ typed' = typed + 1
  /\ checking' = checking \cup {[event |-> event, key |-> k, nr |-> typed]}
  /\ UNCHANGED <<typingTimers, left, relayed, typing, hiding, lastRelayed>>

\* A handler that waited goes on after the socket is gone.
RelayStart(r) ==
  /\ r \in checking /\ r.event = "start"
  /\ checking' = checking \ {r}
  /\ typingTimers' = typingTimers \cup {r.key}
  /\ Relay("start", {r.key})
  /\ UNCHANGED <<typed, left, typing, hiding>>

RelayStop(r) ==
  /\ r \in checking /\ r.event = "stop"
  /\ checking' = checking \ {r}
  /\ typingTimers' = typingTimers \ {r.key}
  /\ Relay("stop", {r.key})
  /\ UNCHANGED <<typed, left, typing, hiding>>

RefuseTyping(r) ==
  /\ r \in checking
  /\ checking' = checking \ {r}
  /\ UNCHANGED <<typed, typingTimers, left, relayed, typing, hiding, lastRelayed>>

TypingTimer(k) ==
  /\ k \in typingTimers
  /\ typingTimers' = typingTimers \ {k}
  /\ Relay("stop", {k})
  /\ UNCHANGED <<typed, checking, left, typing, hiding>>

Silent == {}  \* mutant: the timers are cleared without a word
Stopped == typingTimers
Leave ==
  /\ ~left
  /\ left' = TRUE
  /\ typingTimers' = {}
  /\ Relay("stop", Stopped)
  /\ UNCHANGED <<typed, checking, typing, hiding>>

-----------------------------------------------------------------------------
(* The thread *)

HearTyping ==
  /\ relayed # <<>>
  /\ relayed' = Tail(relayed)
  /\ typing' = (Head(relayed) = "start") /\ hiding' = typing'
  /\ UNCHANGED <<typed, checking, typingTimers, left, lastRelayed>>

AutoHide ==
  /\ hiding
  /\ typing' = FALSE /\ hiding' = FALSE
  /\ UNCHANGED <<typed, checking, typingTimers, left, relayed, lastRelayed>>

\* A new message hides every indicator.
HideAll ==
  /\ typing' = FALSE /\ hiding' = FALSE
  /\ UNCHANGED <<typed, checking, typingTimers, left, relayed, lastRelayed>>

Next ==
  \/ \E k \in scene.keys : Type("start", k) \/ Type("stop", k)
  \/ \E r \in checking : RelayStart(r) \/ RelayStop(r) \/ RefuseTyping(r)
  \/ \E k \in typingTimers : TypingTimer(k)
  \/ Leave \/ HearTyping \/ AutoHide

-----------------------------------------------------------------------------
\* Nobody types forever: what was last relayed of a key is a stop, or a timer
\* will relay one, though the socket has gone meanwhile or starts and stops
\* overtake one another (typing_start, disconnect).
TypingEnds == \A k \in scene.keys : lastRelayed[k] = "start" => k \in typingTimers

=============================================================================
