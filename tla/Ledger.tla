------------------------------- MODULE Ledger -------------------------------
(***************************************************************************)
(* The database's copy of what happens on the chain: the Stellar listener  *)
(* polls the events of two contracts, the members' own clients report      *)
(* transfers, and proposals are made and voted on through REST.  The delay *)
(* between polls is left out.                                              *)
(***************************************************************************)
EXTENDS Integers, Sequences, FiniteSets

VARIABLES
  scene,      \* scene.events: of each contract; scene.members; bounds
  chain,      \* number of events of each contract so far
  listener,   \* runForever: the poll in progress
  cursor,     \* of each contract, in memory
  transfers,  \* tokenTransfers, by txHash
  conversations,  \* rows of conversations
  posting,    \* POST /conversations/:id/transfers in progress
  proposals,  \* status of treasuryProposals, by id
  proposalVotes,  \* by <<user, proposal>>
  listed,     \* proposals on each member's page
  ballots,    \* votes in progress
  mishaps,    \* bound: failed calls, deleted conversations
  begun, seen, failed, answered  \* history, see the properties

listenerVars == <<chain, listener, cursor, begun, seen, failed>>
treasuryVars == <<proposals, proposalVotes, listed, ballots>>

None == <<>>
Streams == {"transfer", "treasury"}
Hashes == {scene.events.transfer[i].tx : i \in DOMAIN scene.events.transfer}
Members == DOMAIN scene.members
Waiting == [at |-> "wait", queue |-> <<>>]
Mishap == mishaps < scene.mishaps /\ mishaps' = mishaps + 1

Init ==
  /\ chain = [s \in Streams |-> 0]
  /\ listener = Waiting
  /\ cursor = [s \in Streams |-> 0]  \* 0 for null
  /\ transfers = [h \in Hashes |-> None]
  /\ conversations = {scene.members[u] : u \in Members}
  /\ posting = {}
  /\ proposals = [p \in {} |-> ""] /\ proposalVotes = [v \in {} |-> ""] /\ ballots = {}
  /\ listed = [u \in Members |-> {}]
  /\ mishaps = 0
  /\ begun = [s \in Streams |-> 0]
  /\ seen = {} /\ failed = {}
  /\ answered = [h \in Hashes |-> None]

\* External: a contract emits.
Emit(s) ==
  /\ chain[s] < Len(scene.events[s])
  /\ chain' = [chain EXCEPT ![s] = @ + 1]
  /\ UNCHANGED <<listener, cursor, transfers, conversations, posting, treasuryVars, mishaps,
                 begun, seen, failed, answered>>

-----------------------------------------------------------------------------
(* runForever *)

\* Events behind the cursor; without one the RPC server chooses the start.
From(s) == IF cursor[s] = 0 THEN 0..chain[s] ELSE {cursor[s]}
Fetched(s, start) == [i \in 1..(chain[s] - start) |-> start + i]

Fetch(s) ==
  /\ listener.queue = <<>>
  /\ \E start \in From(s) :
       /\ listener' = [at |-> s, queue |-> Fetched(s, start)]
       /\ begun' = IF cursor[s] = 0 THEN [begun EXCEPT ![s] = start] ELSE begun
  /\ UNCHANGED <<chain, cursor, transfers, conversations, posting, treasuryVars, mishaps, seen,
                 failed, answered>>

FetchTransfers == listener.at = "wait" /\ Fetch("transfer")
FetchTreasury == listener.at = "transfer" /\ Fetch("treasury")

\* One backoff for both contracts
FetchFails ==
  /\ listener.at \in {"wait", "transfer"} /\ listener.queue = <<>>
  /\ Mishap
  /\ listener' = Waiting
  /\ UNCHANGED <<chain, cursor, transfers, conversations, posting, treasuryVars, begun, seen,
                 failed, answered>>

EndPoll ==
  /\ listener.at = "treasury" /\ listener.queue = <<>>
  /\ listener' = Waiting
  /\ UNCHANGED <<chain, cursor, transfers, conversations, posting, treasuryVars, mishaps, begun,
                 seen, failed, answered>>

\* The memo's message, or whatever conversation and user the tables yield
Linked(event) ==
  IF event.origin \in conversations THEN {[conversation |-> event.origin, sender |-> "memo"]}
  ELSE {[conversation |-> c, sender |-> "any"] : c \in conversations}

\* The upsert on txHash leaves an existing row its conversation and sender.
Replaced(event, row) == [transfers EXCEPT ![event.tx] = row]  \* mutant: the row is replaced
Upsert(event, row) ==
  IF transfers[event.tx] = None THEN [transfers EXCEPT ![event.tx] = row] ELSE transfers

\* The treasury's UPDATE names the contract's proposal id; the rows have ids
\* that POST /propose made up.
Updated(event) ==
  [p \in DOMAIN proposals |-> IF p = <<"chain", event.id>> THEN event.status ELSE proposals[p]]

AtFetch(s) == [cursor EXCEPT ![s] = IF listener.queue = <<>> THEN @
                                    ELSE listener.queue[Len(listener.queue)]]  \* mutant
Advanced(s) == [cursor EXCEPT ![s] = Head(listener.queue)]

Persist ==
  /\ listener.queue # <<>>
  /\ LET s == listener.at
         i == Head(listener.queue)
         event == scene.events[s][i] IN
       /\ listener' = [listener EXCEPT !.queue = Tail(@)]
       /\ cursor' = Advanced(s)
       /\ seen' = seen \cup {<<s, i>>}
       /\ IF s = "treasury"
          THEN proposals' = Updated(event) /\ UNCHANGED transfers
          ELSE /\ transfers' \in IF conversations = {} THEN {transfers}
                                ELSE {Upsert(event, <<row>>) : row \in Linked(event)}
               /\ UNCHANGED proposals
  /\ UNCHANGED <<chain, conversations, posting, proposalVotes, listed, ballots, mishaps, begun,
                 failed, answered>>

PersistFails ==
  /\ listener.queue # <<>>
  /\ Mishap
  /\ listener' = [listener EXCEPT !.queue = Tail(@)]
  /\ failed' = failed \cup {<<listener.at, Head(listener.queue)>>}
  /\ UNCHANGED <<chain, cursor, transfers, conversations, posting, treasuryVars, begun, seen,
                 answered>>

-----------------------------------------------------------------------------
(* POST /conversations/:id/transfers *)

FindExisting(u, h) ==
  /\ ~\E r \in posting : r.user = u
  /\ scene.members[u] \in conversations
  /\ answered[h] = None /\ transfers[h] = None  \* else 409
  /\ posting' = posting \cup {[user |-> u, tx |-> h]}
  /\ UNCHANGED <<listenerVars, transfers, conversations, treasuryVars, mishaps, answered>>

\* The unique index answers what the question before it has missed.
InsertTransfer(r) ==
  /\ r \in posting
  /\ posting' = posting \ {r}
  /\ LET c == scene.members[r.user] IN
       IF transfers[r.tx] = None /\ c \in conversations
       THEN /\ transfers' = [transfers EXCEPT ![r.tx] = <<[conversation |-> c, sender |-> r.user]>>]
            /\ answered' = [answered EXCEPT ![r.tx] = <<[conversation |-> c, sender |-> r.user]>>]
       ELSE UNCHANGED <<transfers, answered>>
  /\ UNCHANGED <<listenerVars, conversations, treasuryVars, mishaps>>

\* The last member leaves: the transfers go with the conversation.
DeleteConversation(c) ==
  /\ c \in conversations
  /\ Mishap
  /\ conversations' = conversations \ {c}
  /\ transfers' = [h \in Hashes |->
       IF transfers[h] # None /\ transfers[h][1].conversation = c THEN None ELSE transfers[h]]
  /\ UNCHANGED <<listenerVars, posting, treasuryVars, answered>>

-----------------------------------------------------------------------------
(* /treasury *)

\* prop-<ms>: two proposals of a millisecond collide on the unique index.
Propose(ms) ==
  /\ <<"rest", ms>> \notin DOMAIN proposals
  /\ proposals' = [p \in DOMAIN proposals \cup {<<"rest", ms>>} |->
                     IF p \in DOMAIN proposals THEN proposals[p] ELSE "active"]
  /\ UNCHANGED <<listenerVars, transfers, conversations, posting, proposalVotes, listed,
                 ballots, mishaps, answered>>

\* GET /treasury/proposals and the page that asks for it
Rows(u) ==
  {[id |-> p, status |-> proposals[p], voted |-> <<u, p>> \in DOMAIN proposalVotes] :
     p \in DOMAIN proposals}

FetchProposals(u) ==
  /\ listed' = [listed EXCEPT ![u] = Rows(u)]
  /\ UNCHANGED <<listenerVars, transfers, conversations, posting, proposals, proposalVotes,
                 ballots, mishaps, answered>>

\* castVote of the card: one vote at a time, none for a vote it knows of
CastVote(u, row) ==
  /\ ~row.voted /\ row.status = "active"
  /\ ~\E b \in ballots : b.user = u /\ b.proposal = row.id
  /\ \E vote \in {"approve", "reject"} :
       ballots' = ballots \cup {[user |-> u, proposal |-> row.id, vote |-> vote]}
  /\ UNCHANGED <<listenerVars, transfers, conversations, posting, proposals, proposalVotes,
                 listed, mishaps, answered>>

\* handleVote: the first vote of a user stays.
InsertVote(b) ==
  /\ b \in ballots
  /\ ballots' = ballots \ {b}
  /\ LET k == <<b.user, b.proposal>>
         counts == proposals[b.proposal] = "active" /\ k \notin DOMAIN proposalVotes IN
       proposalVotes' = [v \in DOMAIN proposalVotes \cup (IF counts THEN {k} ELSE {}) |->
                           IF v \in DOMAIN proposalVotes THEN proposalVotes[v] ELSE b.vote]
  /\ UNCHANGED <<listenerVars, transfers, conversations, posting, proposals, listed, mishaps,
                 answered>>

\* The process ends: cursors and requests are gone.
LoseCursors ==
  /\ listener' = Waiting
  /\ cursor' = [s \in Streams |-> 0]
  /\ posting' = {} /\ ballots' = {}
  /\ begun' = [s \in Streams |-> 0] /\ seen' = {} /\ failed' = {}
  /\ UNCHANGED <<chain, transfers, conversations, proposals, proposalVotes, listed, mishaps,
                 answered>>

Next ==
  \/ \E s \in Streams : Emit(s)
  \/ FetchTransfers \/ FetchTreasury \/ FetchFails \/ EndPoll \/ Persist \/ PersistFails
  \/ \E u \in Members, h \in Hashes : FindExisting(u, h)
  \/ \E r \in posting : InsertTransfer(r)
  \/ \E c \in conversations : DeleteConversation(c)
  \/ \E ms \in 1..scene.proposals : Propose(ms)
  \/ \E u \in Members : FetchProposals(u) \/ \E row \in listed[u] : CastVote(u, row)
  \/ \E b \in ballots : InsertVote(b)

-----------------------------------------------------------------------------
\* A cursor passes no event of its contract since the listener's first one:
\* each was persisted, or failed and was passed by a later event that was not
\* (runForever moves the cursor per event).
CursorCovers ==
  \A s \in Streams : \A i \in (begun[s] + 1)..cursor[s] :
    \/ <<s, i>> \in seen
    \/ <<s, i>> \in failed /\ \E j \in (i + 1)..cursor[s] : <<s, j>> \in seen

\* A transfer a member was told is saved stays in the member's conversation
\* and theirs, whatever the listener makes of the event, until the conversation
\* is deleted (POST transfers, defaultPersistEvent).
AnsweredStays ==
  \A h \in Hashes :
    answered[h] # None /\ answered[h][1].conversation \in conversations => transfers[h] = answered[h]

=============================================================================
