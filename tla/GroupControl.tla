----------------------------- MODULE GroupControl -----------------------------
(***************************************************************************)
(* The group control log of one conversation (services/groupControl.ts),   *)
(* the routes that write it - invite, leave, submit a commit - and the     *)
(* catch-up a client reads it with.                                        *)
(*                                                                         *)
(* A request is split at its statements.  At READ COMMITTED each statement *)
(* sees what was committed when it began: the membership reads come before *)
(* the transaction, a transaction's own insert or delete shows to others   *)
(* when it commits, and the UPDATE of the conversation's row, which bumps  *)
(* the epoch, makes transactions that append an event wait for each other. *)
(***************************************************************************)
EXTENDS Integers, FiniteSets

CONSTANTS
  Accounts,   \* users
  Requests,   \* requests in flight at a time
  NoRequest,  \* no transaction holds the conversation's row
  MaxEvents,  \* bound: events appended
  PageSize    \* limit of the catch-up read

ASSUME ControlAssumption ==
  /\ NoRequest \notin Requests
  /\ MaxEvents \in Nat
  /\ PageSize \in Nat \ {0}

VARIABLES
  conversation,  \* the conversation has a row
  epoch,         \* conversations.epoch
  rows,          \* conversation_members: rows of each user (no unique index)
  log,           \* group_control_events
  holder,        \* request whose transaction updated the conversation's row
  slot,          \* the request in each slot
  client         \* a client that catches up

tables == <<conversation, epoch, rows, log>>
controlVars == <<conversation, epoch, rows, log, holder, slot, client>>

Kinds == {"invite", "leave", "commit"}
Event == [sequence : Nat, epoch : Nat, kind : Kinds, target : Accounts]
\* takes: member rows the transaction's DELETE found; epoch: what UPDATE returned
Slot ==
  [pc : {"idle", "member", "vetted", "last", "several", "inserted", "deleted", "locked"},
   kind : Kinds, actor : Accounts, target : Accounts, takes : Nat, epoch : Nat]
Client ==
  [pc : {"idle", "epoch", "state"}, epoch : Nat, latest : Nat,
   cursor : Nat, applied : SUBSET Nat, caughtUp : BOOLEAN]

ControlTypeOK ==
  /\ conversation \in BOOLEAN
  /\ epoch \in Nat
  /\ rows \in [Accounts -> Nat]
  /\ log \in SUBSET Event
  /\ holder \in Requests \cup {NoRequest}
  /\ slot \in [Requests -> Slot]
  /\ client \in Client

-----------------------------------------------------------------------------
IsMember(u) == rows[u] > 0

\* coalesce(max(sequence), 0)
Latest == IF log = {} THEN 0 ELSE CHOOSE n \in {e.sequence : e \in log} :
                                    \A e \in log : e.sequence <= n

\* isLastMember, which counts rows
OnlyRow == \E u \in Accounts : rows = [v \in Accounts |-> IF v = u THEN 1 ELSE 0]

\* The UPDATE of conversations waits for the transaction that has updated it.
Turn == holder = NoRequest

Without(u, n) == [rows EXCEPT ![u] = @ - n]

\* What others see of a DELETE before its transaction commits
DeletedAtOnce(u) == [rows EXCEPT ![u] = 0]  \* mutant: not in the transaction
DeletePending(u) == rows

\* readGroupControlEvents: one event more than the page tells whether more follow.
After(n) == {e \in log : e.sequence > n}
Page(n) ==
  {e \in After(n) : Cardinality({f \in After(n) : f.sequence < e.sequence}) < PageSize}
NoneBeyondNext(n) == Cardinality(After(n)) > PageSize + 1  \* mutant: off by one
HasMore(n) == Cardinality(After(n)) > PageSize

Goto(r, pc) == slot' = [slot EXCEPT ![r].pc = pc]
Respond(r) == slot' = [slot EXCEPT ![r].pc = "idle", ![r].takes = 0, ![r].epoch = 0]

\* A row that is gone is skipped by the DELETE of another request that found it.
Remaining(q, r) ==
  IF slot[q].actor # slot[r].actor THEN slot[q].takes
  ELSE IF slot[q].takes > slot[r].takes THEN slot[q].takes - slot[r].takes
  ELSE 0
AnswerAppended(r) ==
  slot' = [q \in Requests |->
            IF q = r THEN [slot[q] EXCEPT !.pc = "idle", !.takes = 0, !.epoch = 0]
            ELSE [slot[q] EXCEPT !.takes = Remaining(q, r)]]

-----------------------------------------------------------------------------
\* After create_conversation: the creator and whoever was named, one row each.
ControlInit ==
  /\ conversation = TRUE
  /\ epoch = 0
  /\ rows \in [Accounts -> {0, 1}]
  /\ \E u \in Accounts : rows[u] = 1
  /\ log = {}
  /\ holder = NoRequest
  /\ \E u \in Accounts :
       slot = [r \in Requests |-> [pc |-> "idle", kind |-> "commit", actor |-> u,
                                  target |-> u, takes |-> 0, epoch |-> 0]]
  /\ client = [pc |-> "idle", epoch |-> 0, latest |-> 0, cursor |-> 0,
               applied |-> {}, caughtUp |-> FALSE]

\* A request arrives and its author's membership is read; others get 403 or 404.
Arrive(r, kind, u, target) ==
  /\ slot[r].pc = "idle"
  /\ Cardinality(log) + Cardinality({q \in Requests : slot[q].pc # "idle"}) < MaxEvents
  /\ IsMember(u)
  /\ kind # "invite" => target = u
  /\ slot' = [slot EXCEPT ![r] = [pc |-> "member", kind |-> kind, actor |-> u,
                                target |-> target, takes |-> 0, epoch |-> 0]]
  /\ UNCHANGED <<tables, holder, client>>

\* Invite: 409 for somebody who has a row already.
CheckTarget(r) ==
  /\ slot[r].pc = "member" /\ slot[r].kind = "invite"
  /\ IF IsMember(slot[r].target) THEN Respond(r) ELSE Goto(r, "vetted")
  /\ UNCHANGED <<tables, holder, client>>

\* The insert of the transaction: its foreign key fails without a conversation,
\* and keeps the conversation's row from being deleted until it ends.
InsertMember(r) ==
  /\ slot[r].pc = "vetted"
  /\ IF conversation THEN Goto(r, "inserted") ELSE Respond(r)
  /\ UNCHANGED <<tables, holder, client>>

\* Leave: are there several rows, or is this the last?
CountMembers(r) ==
  /\ slot[r].pc = "member" /\ slot[r].kind = "leave"
  /\ Goto(r, IF OnlyRow THEN "last" ELSE "several")
  /\ UNCHANGED <<tables, holder, client>>

\* The delete of the transaction that records the departure
DeleteOwnRows(r) ==
  /\ slot[r].pc = "several"
  /\ slot' = [slot EXCEPT ![r].pc = "deleted", ![r].takes = rows[slot[r].actor]]
  /\ rows' = DeletePending(slot[r].actor)
  /\ UNCHANGED <<conversation, epoch, log, holder, client>>

\* The last member leaves: the conversation is deleted with all that hangs on
\* it, once the transactions that hold its row have ended.
DeleteConversation(r) ==
  /\ slot[r].pc = "last"
  /\ Turn
  /\ \A q \in Requests : slot[q].pc # "inserted"
  /\ conversation' = FALSE
  /\ epoch' = 0
  /\ rows' = [u \in Accounts |-> 0]
  /\ log' = {}
  /\ Respond(r)
  /\ UNCHANGED <<holder, client>>

\* appendGroupControlEvent: UPDATE conversations ... RETURNING epoch
ReadyToAppend(r) ==
  \/ slot[r].pc \in {"inserted", "deleted"}
  \/ slot[r].pc = "member" /\ slot[r].kind = "commit"
BumpEpoch(r) ==
  /\ ReadyToAppend(r)
  /\ Turn
  /\ conversation
  /\ holder' = r
  /\ slot' = [slot EXCEPT ![r].pc = "locked", ![r].epoch = epoch + 1]
  /\ UNCHANGED <<tables, client>>

\* No row to update: the transaction is rolled back, 409 or 500.
ConversationGone(r) ==
  /\ ReadyToAppend(r)
  /\ ~conversation
  /\ Respond(r)
  /\ UNCHANGED <<tables, holder, client>>

\* The next sequence, the event, and the transaction's commit
Append(r) ==
  /\ slot[r].pc = "locked"
  /\ epoch' = slot[r].epoch
  /\ log' = log \cup {[sequence |-> Latest + 1, epoch |-> slot[r].epoch,
                       kind |-> slot[r].kind, target |-> slot[r].target]}
  /\ rows' = CASE slot[r].kind = "invite" -> [rows EXCEPT ![slot[r].target] = @ + 1]
               [] slot[r].kind = "leave" -> Without(slot[r].actor, slot[r].takes)
               [] OTHER -> rows
  /\ holder' = NoRequest
  /\ AnswerAppended(r)
  /\ UNCHANGED <<conversation, client>>

\* A setting of the target or a rate limit refuses, or the process dies.
LoseSlot(r) ==
  /\ slot[r].pc # "idle"
  /\ Respond(r)
  /\ holder' = IF holder = r THEN NoRequest ELSE holder
  /\ UNCHANGED <<tables, client>>

-----------------------------------------------------------------------------
(* GET /conversations/:id/group-control of a client: three statements *)

ReadEpoch ==
  /\ client.pc = "idle"
  /\ conversation
  /\ client' = [client EXCEPT !.pc = "epoch", !.epoch = epoch, !.caughtUp = FALSE]
  /\ UNCHANGED <<tables, holder, slot>>

ReadLatest ==
  /\ client.pc = "epoch"
  /\ client' = [client EXCEPT !.pc = "state", !.latest = Latest]
  /\ UNCHANGED <<tables, holder, slot>>

ReadEvents ==
  /\ client.pc = "state"
  /\ LET new == {e.sequence : e \in Page(client.cursor)} IN
       client' = [client EXCEPT
                    !.pc = "idle",
                    !.applied = @ \cup new,
                    !.cursor = IF new = {} THEN @
                               ELSE CHOOSE n \in new : \A m \in new : m <= n,
                    !.caughtUp = ~HasMore(client.cursor)]
  /\ UNCHANGED <<tables, holder, slot>>

ControlNext ==
  \/ \E r \in Requests :
       \/ \E kind \in Kinds, u, target \in Accounts : Arrive(r, kind, u, target)
       \/ CheckTarget(r)
       \/ InsertMember(r)
       \/ CountMembers(r)
       \/ DeleteOwnRows(r)
       \/ DeleteConversation(r)
       \/ BumpEpoch(r)
       \/ ConversationGone(r)
       \/ Append(r)
       \/ LoseSlot(r)
  \/ ReadEpoch
  \/ ReadLatest
  \/ ReadEvents

ControlSpec == ControlInit /\ [][ControlNext]_controlVars

-----------------------------------------------------------------------------
(* Safety *)

\* The n-th event has sequence n and left the group at epoch n, and the epoch
\* of the conversation is the newest one's: concurrent changes are forced into
\* one order (appendGroupControlEvent).
LogOrdersEpochs ==
  /\ {e.sequence : e \in log} = 1..epoch
  /\ \A e \in log : e.epoch = e.sequence
  /\ \A e, f \in log : e.sequence = f.sequence => e = f

\* Nobody whom the log last reports as added is without a member row: an
\* invitation that committed late is not undone by a leave that ran before it.
Concerns(u) == {e \in log : e.target = u /\ e.kind # "commit"}
AddedStays ==
  \A e \in log :
    /\ e.kind = "invite"
    /\ \A f \in Concerns(e.target) : f.sequence <= e.sequence
    => IsMember(e.target)

\* Whatever commits while a client reads, no event ever turns up behind its
\* cursor: it has applied all of them, in order, up to there.
NothingBehindCursor ==
  /\ client.applied = 1..client.cursor
  /\ conversation => client.cursor <= Latest

\* A response without hasMore takes the client at least to the epoch and the
\* sequence it reports, although they were read before the events.
CaughtUpIsCurrent ==
  conversation /\ client.pc = "idle" /\ client.caughtUp =>
    client.cursor >= client.latest /\ client.cursor >= client.epoch

=============================================================================
