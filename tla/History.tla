------------------------------- MODULE History -------------------------------
(***************************************************************************)
(* useMessageHistory and the message_history handler: a conversation is    *)
(* paged backwards from its newest message while new ones arrive and the   *)
(* user switches to another conversation and back.  Another client lists   *)
(* it with GET /conversations/:id/messages, from cursor to cursor.         *)
(* Posting, and what the socket delivers, are steps of Services.           *)
(***************************************************************************)
EXTENDS Integers, Sequences, FiniteSets

VARIABLES
  scene,     \* scene.posts, .times, .ids, .edits, .page, .visits, .paged, .walks
  stored,    \* number of messages in the table
  visit,     \* visits to the conversation, the bound of Switch
  viewing,   \* it is the hook's conversation now
  hist, loadingOlder, hasReachedStart,  \* messages and the hook's flags
  pages,     \* message_history events and answers under way
  walk,      \* the client that lists: its request, what it got, what was stored then
  live, crossed  \* history, see the property


None == <<>>
InList(m) == \E i \in DOMAIN hist : hist[i] = m
Chat == {m \in 1..stored : scene.posts[m] = scene.paged}

\* The order of (createdAt, id); neither follows the order of the commits.
OlderByTime(m, n) == scene.times[m] < scene.times[n]  \* mutant: no tie-break
Older(m, n) ==
  \/ scene.times[m] < scene.times[n]
  \/ scene.times[m] = scene.times[n] /\ scene.ids[m] < scene.ids[n]

\* The versions that editsMessageId of another row points at
Edited(n) == IF n \in DOMAIN scene.edits THEN {scene.edits[n]} \ {0} ELSE {}
Superseded(ns) == UNION {Edited(n) : n \in ns}

Init ==
  /\ visit = 0 /\ viewing = FALSE
  /\ hist = <<>> /\ loadingOlder = FALSE /\ hasReachedStart = FALSE
  /\ pages = {} /\ live = {} /\ crossed = FALSE
  /\ walk = [pc |-> "none", cursor |-> 0, hidden |-> {}, got |-> {}, from |-> 0]

-----------------------------------------------------------------------------
\* The state is reset while the component renders the other conversation.
Switch ==
  /\ viewing \/ visit < scene.visits
  /\ viewing' = ~viewing
  /\ visit' = IF viewing THEN visit ELSE visit + 1
  /\ hist' = <<>> /\ loadingOlder' = FALSE /\ hasReachedStart' = FALSE
  /\ live' = {} /\ crossed' = FALSE
  /\ UNCHANGED <<pages, walk>>

LoadOlder ==
  /\ viewing /\ ~loadingOlder /\ ~hasReachedStart
  /\ loadingOlder' = TRUE
  /\ pages' = pages \cup {[visit |-> visit, before |-> IF hist = <<>> THEN 0 ELSE Head(hist),
                           rows |-> None]}
  /\ UNCHANGED <<visit, viewing, hist, hasReachedStart, live, crossed, walk>>

\* The newest scene.page of them, and messages with the oldest first
Newest(ms) == {m \in ms : Cardinality({n \in ms : Older(m, n)}) < scene.page}
Sorted(ms) ==
  CHOOSE s \in [1..Cardinality(ms) -> ms] :
    \A i, j \in DOMAIN s : i < j => s[i] # s[j] /\ ~Older(s[j], s[i])

Before(cursor) == {m \in Chat : cursor = 0 \/ Older(m, cursor)}
Page(before) == Sorted(Newest(Before(before)))

AnswerHistory(p) ==
  /\ p \in pages /\ p.rows = None
  /\ pages' = (pages \ {p}) \cup {[p EXCEPT !.rows = <<Page(p.before)>>]}
  /\ UNCHANGED <<visit, viewing, hist, loadingOlder, hasReachedStart, live, crossed, walk>>

\* A refusal, or a socket that ends: the hook hears nothing.
LosePage(p) ==
  /\ p \in pages
  /\ pages' = pages \ {p}
  /\ UNCHANGED <<visit, viewing, hist, loadingOlder, hasReachedStart, live, crossed, walk>>

\* An answer names its conversation and not its question.  Its rows are sorted,
\* and the filter keeps their order.
OnHistory(p) ==
  /\ p \in pages /\ p.rows # None
  /\ pages' = pages \ {p}
  /\ IF ~viewing
     THEN UNCHANGED <<hist, loadingOlder, hasReachedStart, crossed>>
     ELSE LET rows == p.rows[1] IN
          /\ loadingOlder' = FALSE
          /\ hasReachedStart' = (hasReachedStart \/ rows = <<>>)
          /\ hist' = Sorted({rows[i] : i \in {j \in DOMAIN rows : ~InList(rows[j])}}) \o hist
          /\ crossed' = (crossed \/ p.visit # visit)
  /\ UNCHANGED <<visit, viewing, live, walk>>

OnNewMessage(m) ==
  /\ IF viewing /\ scene.posts[m] = scene.paged /\ ~InList(m)
     THEN hist' = Append(hist, m) /\ live' = live \cup {m}
     ELSE UNCHANGED <<hist, live>>
  /\ UNCHANGED <<visit, viewing, loadingOlder, hasReachedStart, pages, crossed, walk>>

\* The process ends; a list that was asked for is asked for again.
LosePages ==
  /\ pages' = {}
  /\ walk' = [walk EXCEPT !.pc = IF @ = "rows" THEN "asked" ELSE @]
  /\ UNCHANGED <<visit, viewing, hist, loadingOlder, hasReachedStart, live, crossed>>

-----------------------------------------------------------------------------
(* GET /conversations/:id/messages; edits come between its queries *)

AskList ==
  /\ walk.pc = "none" /\ scene.walks
  /\ walk' = [walk EXCEPT !.pc = "asked", !.from = stored]
  /\ UNCHANGED <<visit, viewing, hist, loadingOlder, hasReachedStart, pages, live, crossed>>

ReadSuperseded ==
  /\ walk.pc = "asked"
  /\ walk' = [walk EXCEPT !.pc = "rows", !.hidden = Superseded(Chat)]
  /\ UNCHANGED <<visit, viewing, hist, loadingOlder, hasReachedStart, pages, live, crossed>>

\* One row more than the limit tells whether there is a next cursor.
ReadList ==
  LET below == Before(walk.cursor) \ walk.hidden
      rows == Newest(below)
  IN
  /\ walk.pc = "rows"
  /\ walk' = [walk EXCEPT
                !.got = @ \cup rows,
                !.pc = IF rows = below THEN "done" ELSE "asked",
                !.cursor = IF rows = below THEN @
                           ELSE CHOOSE m \in rows : \A n \in rows : ~Older(n, m)]
  /\ UNCHANGED <<visit, viewing, hist, loadingOlder, hasReachedStart, pages, live, crossed>>

Next ==
  \/ AskList \/ ReadSuperseded \/ ReadList
  \/ Switch \/ LoadOlder
  \/ \E p \in pages : AnswerHistory(p) \/ LosePage(p) \/ OnHistory(p)

-----------------------------------------------------------------------------
\* A list that says it has reached the start holds the conversation, except
\* for what is still to be heard, for messages that sort behind a live one
\* (loadOlder asks for what sorts before it), and unless an answer to an
\* earlier visit was taken for one to this visit (onHistory).
StartIsWhole(unheard) ==
  viewing /\ hasReachedStart /\ ~crossed =>
    \A m \in Chat : InList(m) \/ m \in unheard \/ \E n \in live : Older(n, m)

\* A list that has come to its end has every message that was stored when it
\* began, and none that was superseded by then, whatever was posted or edited
\* between its pages; one that was edited meanwhile it may have passed over.
ListIsWhole ==
  walk.pc = "done" =>
    /\ \A m \in Chat : m <= walk.from => m \in walk.got \/ m \in Superseded(Chat)
    /\ walk.got \cap Superseded({m \in Chat : m <= walk.from}) = {}

=============================================================================
