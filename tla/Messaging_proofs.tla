-------------------------- MODULE Messaging_proofs --------------------------
(***************************************************************************)
(* What the message handlers keep for every set of devices and events,     *)
(* every number of handlers at once and every bound.                       *)
(*                                                                         *)
(* A handler holds no lock and acts on what it read some statements ago.   *)
(* The heart of the invariant is Knows: what is still true of the tables   *)
(* when the handler comes back to them.  Replay protection rests on an     *)
(* invariant of its own, OnceInv.                                          *)
(***************************************************************************)
EXTENDS Messaging, TLAPS

\* The partial maps: the rows of the table and the keys of Redis.
Maps ==
  /\ messages \in [DOMAIN messages -> Row]
  /\ keys \in [DOMAIN keys -> Nat]

\* Whatever runs or travels was asked for.
RunsAsked ==
  /\ \A s \in Slots : handler[s].pc # "idle" => Event(s) \in DOMAIN asked
  /\ \A f \in flight : f.event \in DOMAIN asked /\ f.event.via = "socket"

TypeInv == TypeOK /\ Maps /\ RunsAsked

LEMMA EventFacts ==
  ASSUME TypeInv, NEW e \in DOMAIN asked
  PROVE  /\ e \in Events /\ e.message \in Messages /\ e.message # NoMessage
         /\ e.device \in Devices /\ Author(e) \in Users /\ e.to \subseteq Devices
BY ScenariosOfEvents, EventsOfDevices, NoMessageIsNone DEF TypeInv, TypeOK, Messages, Author, Users

LEMMA InitTypes == Init => TypeInv
<1> SUFFICES ASSUME Init PROVE TypeInv
  OBVIOUS
<1> USE BoundsAreNaturals, ScenariosOfEvents, EventsOfDevices DEF Init
<1>1. TypeOK
  BY DEF TypeOK, Handler, Idle, Users, Messages
<1>2. Maps
  BY DEF Maps
<1>3. RunsAsked
  BY DEF RunsAsked, Idle
<1> QED BY <1>1, <1>2, <1>3 DEF TypeInv

\* What a handler of an event knows of its record.
LEMMA HandlerFacts ==
  ASSUME TypeInv, NEW s \in Slots, handler[s].pc # "idle"
  PROVE  /\ Event(s) \in DOMAIN asked
         /\ Event(s) \in Events /\ Event(s).message \in Messages
         /\ Event(s).message # NoMessage
         /\ Author(Event(s)) \in Users /\ Event(s).to \subseteq Devices
BY EventFacts DEF TypeInv, RunsAsked

\* A slot that takes a record of an event that was asked for.
LEMMA PutHandler ==
  ASSUME TypeInv, NEW s \in Slots, NEW new \in Handler, new.event \in DOMAIN asked,
         handler' = [handler EXCEPT ![s] = new], UNCHANGED <<asked, flight>>
  PROVE  handler' \in [Slots -> Handler] /\ RunsAsked'
<1>1. handler' \in [Slots -> Handler]
  BY DEF TypeInv, TypeOK
<1>2. \A t \in Slots : handler'[t] = IF t = s THEN new ELSE handler[t]
  BY DEF TypeInv, TypeOK
<1> QED BY <1>1, <1>2 DEF TypeInv, RunsAsked, Event

\* Steps that leave a handler where its event still runs, or idle.
LEMMA GotoTypes ==
  ASSUME TypeInv, NEW s \in Slots, handler[s].pc # "idle", UNCHANGED <<asked, flight>>,
         \/ Return(s)
         \/ \E pc \in {"find", "begin", "insert", "deliver", "tell", "strip", "write", "stamp"} : Goto(s, pc)
  PROVE  handler' \in [Slots -> Handler] /\ RunsAsked'
BY DEF TypeInv, TypeOK, RunsAsked, Handler, Idle, Return, Goto, Event

LEMMA StepTypes == TypeInv /\ [Next]_vars => TypeInv'
<1> SUFFICES ASSUME TypeInv, [Next]_vars PROVE TypeInv'
  OBVIOUS
<1> USE BoundsAreNaturals
<1>1. CASE Tick
  <2>1. TypeOK'
    BY <1>1 DEF TypeInv, TypeOK, Tick, db, history
  <2>2. Maps'
    BY <1>1 DEF TypeInv, Maps, Tick, db
  <2>3. RunsAsked'
    BY <1>1 DEF TypeInv, RunsAsked, Event, Tick
  <2> QED BY <2>1, <2>2, <2>3 DEF TypeInv
<1>2. ASSUME NEW e \in DOMAIN asked, NEW ahead \in 0..Skew, Dispatch(e, ahead)
      PROVE  TypeInv'
  <2>1. [event |-> e, stamp |-> now + ahead] \in Envelope
    BY EventFacts DEF TypeInv, TypeOK, Envelope
  <2>2. TypeOK'
    BY <1>2, <2>1 DEF TypeInv, TypeOK, Dispatch, db, history
  <2>3. Maps'
    BY <1>2 DEF TypeInv, Maps, Dispatch, db
  <2>4. RunsAsked'
    BY <1>2 DEF TypeInv, RunsAsked, Event, Dispatch
  <2> QED BY <2>2, <2>3, <2>4 DEF TypeInv
<1>3. ASSUME NEW s \in Slots, NEW e \in DOMAIN asked, Start(s, e), UNCHANGED <<asked, flight>>
      PROVE  /\ handler' \in [Slots -> Handler] /\ RunsAsked'
             /\ ran' \in [DOMAIN asked' -> Nat]
  <2>1. PICK new : new = [Idle EXCEPT !.pc = "find", !.event = e]
    OBVIOUS
  <2>2. new \in Handler /\ new.event = e
    BY <2>1, EventFacts DEF Handler, Idle
  <2>3. handler' \in [Slots -> Handler] /\ RunsAsked'
    BY <1>3, <2>1, <2>2, PutHandler DEF Start
  <2>4. ran' \in [DOMAIN asked' -> Nat]
    BY <1>3 DEF TypeInv, TypeOK, Start
  <2> QED BY <2>3, <2>4
<1>4. ASSUME NEW s \in Slots, NEW f \in flight, Admit(s, f)
      PROVE  TypeInv'
  <2>1. f.event \in DOMAIN asked /\ f.event \in Events
    BY EventFacts DEF TypeInv, RunsAsked
  <2>2. handler' \in [Slots -> Handler] /\ RunsAsked' /\ ran' \in [DOMAIN asked' -> Nat]
    BY <1>3, <1>4, <2>1 DEF Admit
  <2>3. Expiry \in Nat
    BY DEF TypeInv, TypeOK, Expiry
  <2>4. keys' \in [DOMAIN keys' -> Nat] /\ DOMAIN keys' = DOMAIN keys \cup {KeyOf(f.event)}
    <3>1. PICK k, x : k = KeyOf(f.event) /\ x = Expiry
      OBVIOUS
    <3>2. keys' = Put(keys, k, x) /\ x \in Nat /\ keys \in [DOMAIN keys -> Nat]
      BY <1>4, <2>3, <3>1 DEF Admit, TypeInv, Maps
    <3>3. /\ Put(keys, k, x) \in [DOMAIN Put(keys, k, x) -> Nat]
          /\ DOMAIN Put(keys, k, x) = DOMAIN keys \cup {k}
      BY <3>2 DEF Put
    <3> QED BY <3>1, <3>2, <3>3
  <2>5. TypeOK'
    BY <1>4, <2>1, <2>2, <2>4 DEF TypeInv, TypeOK, Admit, db
  <2>6. Maps'
    BY <1>4, <2>4 DEF TypeInv, Maps, Admit, db
  <2> QED BY <2>2, <2>5, <2>6 DEF TypeInv
<1>5. ASSUME NEW s \in Slots, NEW f \in flight, AdmitUnchecked(s, f)
      PROVE  TypeInv'
  <2>1. f.event \in DOMAIN asked /\ f.event \in Events
    BY EventFacts DEF TypeInv, RunsAsked
  <2>2. handler' \in [Slots -> Handler] /\ RunsAsked' /\ ran' \in [DOMAIN asked' -> Nat]
    BY <1>3, <1>5, <2>1 DEF AdmitUnchecked
  <2> QED BY <1>5, <2>1, <2>2 DEF TypeInv, TypeOK, Maps, AdmitUnchecked, db
<1>6. ASSUME NEW s \in Slots, NEW e \in DOMAIN asked, Request(s, e)
      PROVE  TypeInv'
  <2>1. handler' \in [Slots -> Handler] /\ RunsAsked' /\ ran' \in [DOMAIN asked' -> Nat]
    BY <1>3, <1>6 DEF Request
  <2> QED BY <1>6, <2>1 DEF TypeInv, TypeOK, Maps, Request, db
<1>7. ASSUME NEW s \in Slots, FindSend(s) PROVE TypeInv'
  <2>1. handler[s].pc # "idle"
    BY <1>7 DEF FindSend, At
  <2>2. handler' \in [Slots -> Handler] /\ RunsAsked'
    BY <1>7, <2>1, GotoTypes DEF FindSend
  <2> QED BY <1>7, <2>1, <2>2, HandlerFacts DEF TypeInv, TypeOK, Maps, FindSend, db, history
<1>8. ASSUME NEW s \in Slots, FindEdit(s) PROVE TypeInv'
  <2>1. handler[s].pc # "idle"
    BY <1>8 DEF FindEdit, At
  <2>2. handler' \in [Slots -> Handler] /\ RunsAsked'
    <3>1. CASE Return(s)
      BY <1>8, <2>1, <3>1, GotoTypes DEF FindEdit
    <3>2. CASE ~Return(s)
      <4>1. Own(Event(s), Event(s).original)
            /\ handler' = [handler EXCEPT ![s].pc = "begin", ![s].root = RootOf(Event(s).original)]
        BY <1>8, <3>2 DEF FindEdit
      <4>2. RootOf(Event(s).original) \in Messages \cup {NoMessage}
        BY <4>1 DEF TypeInv, TypeOK, RootOf, Own, Exists, Row
      <4>3. PICK new : new = [handler[s] EXCEPT !.pc = "begin", !.root = RootOf(Event(s).original)]
        OBVIOUS
      <4>4. new \in Handler /\ new.event = Event(s)
        <5>1. handler[s] \in Handler
          BY DEF TypeInv, TypeOK
        <5> QED BY <4>2, <4>3, <5>1 DEF Handler, Event
      <4>5. handler' = [handler EXCEPT ![s] = new]
        BY <4>1, <4>3 DEF TypeInv, TypeOK
      <4> QED BY <1>8, <2>1, <4>4, <4>5, PutHandler, HandlerFacts DEF FindEdit
    <3> QED BY <3>1, <3>2
  <2>3. acked' \subseteq Messages
    BY <1>8, <2>1, HandlerFacts DEF TypeInv, TypeOK, FindEdit
  <2> QED BY <1>8, <2>2, <2>3 DEF TypeInv, TypeOK, Maps, FindEdit, db, history
<1>9. ASSUME NEW s \in Slots, BeginInsert(s) PROVE TypeInv'
  <2>1. handler' \in [Slots -> Handler] /\ RunsAsked'
    <3>1. PICK new : new = [handler[s] EXCEPT !.pc = "insert", !.at = now]
      OBVIOUS
    <3>2. new \in Handler /\ new.event = Event(s)
      <4>1. handler[s] \in Handler /\ now \in Nat
        BY DEF TypeInv, TypeOK
      <4> QED BY <3>1, <4>1 DEF Handler, Event
    <3>3. handler' = [handler EXCEPT ![s] = new]
      BY <1>9, <3>1 DEF TypeInv, TypeOK, BeginInsert
    <3> QED BY <1>9, <3>2, <3>3, PutHandler, HandlerFacts DEF BeginInsert
  <2> QED BY <1>9, <2>1 DEF TypeInv, TypeOK, Maps, BeginInsert, db, history
<1>10. ASSUME NEW s \in Slots, CommitInsert(s) PROVE TypeInv'
  <2>1. handler[s].pc # "idle"
    BY <1>10 DEF CommitInsert
  <2>2. handler' \in [Slots -> Handler] /\ RunsAsked'
    BY <1>10, <2>1, GotoTypes DEF CommitInsert
  <2> DEFINE row == [sender |-> Author(Event(s)), root |-> handler[s].root,
                     at |-> handler[s].at, deleted |-> FALSE]
  <2>3. row \in Row
    BY <2>1, HandlerFacts DEF TypeInv, TypeOK, Handler, Row
  <2>4. CASE Exists(Event(s).message)
    BY <1>10, <2>2, <2>4 DEF TypeInv, TypeOK, Maps, CommitInsert, history
  <2>5. CASE ~Exists(Event(s).message)
    <3>1. messages' = Put(messages, Event(s).message, row)
      BY <1>10, <2>5 DEF CommitInsert
    <3>2. messages' \in [DOMAIN messages' -> Row] /\ DOMAIN messages' = DOMAIN messages \cup {Event(s).message}
      <4>1. PICK m : m = Event(s).message
        OBVIOUS
      <4>2. PICK r : r = row
        OBVIOUS
      <4>3. messages' = Put(messages, m, r) /\ r \in Row /\ messages \in [DOMAIN messages -> Row]
        BY <2>3, <3>1, <4>1, <4>2 DEF TypeInv, Maps
      <4>4. /\ Put(messages, m, r) \in [DOMAIN Put(messages, m, r) -> Row]
            /\ DOMAIN Put(messages, m, r) = DOMAIN messages \cup {m}
        BY <4>3 DEF Put
      <4> QED BY <4>1, <4>3, <4>4
    <3>3. DOMAIN messages' \subseteq Messages
      BY <2>1, <3>2, HandlerFacts DEF TypeInv, TypeOK
    <3>4. envelopes' \subseteq Messages \X Devices /\ envelopes \subseteq envelopes'
      BY <1>10, <2>1, <2>5, HandlerFacts DEF TypeInv, TypeOK, CommitInsert, Envelopes
    <3>5. acked' \subseteq Messages
      BY <1>10, <2>1, <2>5, HandlerFacts DEF TypeInv, TypeOK, CommitInsert
    <3>6. TypeOK'
      BY <1>10, <2>2, <3>2, <3>3, <3>4, <3>5 DEF TypeInv, TypeOK, CommitInsert, history
    <3>7. Maps'
      BY <1>10, <3>2 DEF TypeInv, Maps, CommitInsert
    <3> QED BY <2>2, <3>6, <3>7 DEF TypeInv
  <2> QED BY <2>4, <2>5
<1>11. ASSUME NEW s \in Slots, Deliver(s) \/ TellEdited(s) \/ FindDelete(s) \/ TellDeleted(s)
       PROVE  TypeInv'
  <2>1. handler[s].pc # "idle"
    BY <1>11 DEF Deliver, TellEdited, FindDelete, TellDeleted, At
  <2>2. handler' \in [Slots -> Handler] /\ RunsAsked'
    BY <1>11, <2>1, GotoTypes DEF Deliver, TellEdited, FindDelete, TellDeleted
  <2> QED BY <1>11, <2>2
       DEF TypeInv, TypeOK, Maps, Deliver, TellEdited, FindDelete, TellDeleted, db, history
<1>12. ASSUME NEW s \in Slots, MarkDeleted(s) PROVE TypeInv'
  <2>1. handler[s].pc # "idle"
    BY <1>12 DEF MarkDeleted, At
  <2>2. handler' \in [Slots -> Handler] /\ RunsAsked'
    BY <1>12, <2>1, GotoTypes DEF MarkDeleted
  <2>3. messages' \in [DOMAIN messages' -> Row] /\ DOMAIN messages' = DOMAIN messages
    BY <1>12 DEF TypeInv, Maps, MarkDeleted, Row
  <2> QED BY <1>12, <2>2, <2>3 DEF TypeInv, TypeOK, Maps, MarkDeleted, history
<1>13. ASSUME NEW s \in Slots, StripEnvelopes(s) PROVE TypeInv'
  <2>1. handler[s].pc # "idle"
    BY <1>13 DEF StripEnvelopes, At
  <2>2. handler' \in [Slots -> Handler] /\ RunsAsked'
    BY <1>13, <2>1, GotoTypes DEF StripEnvelopes
  <2> QED BY <1>13, <2>2 DEF TypeInv, TypeOK, Maps, StripEnvelopes, history
<1>14. ASSUME NEW s \in Slots, FindRead(s) PROVE TypeInv'
  <2>1. handler[s].pc # "idle"
    BY <1>14 DEF FindRead, At
  <2>2. marker[Author(Event(s))] \in Messages \cup {NoMessage}
    BY <2>1, HandlerFacts DEF TypeInv, TypeOK
  <2>3. handler' \in [Slots -> Handler] /\ RunsAsked'
    <3>1. CASE Return(s)
      BY <1>14, <2>1, <3>1, GotoTypes DEF FindRead
    <3>2. CASE ~Return(s)
      BY <1>14, <2>1, <2>2, <3>2 DEF TypeInv, TypeOK, RunsAsked, Handler, Event, FindRead
    <3> QED BY <3>1, <3>2
  <2> QED BY <1>14, <2>3 DEF TypeInv, TypeOK, Maps, FindRead, db, history
<1>15. ASSUME NEW s \in Slots, WriteMarker(s) PROVE TypeInv'
  <2>1. handler[s].pc # "idle"
    BY <1>15 DEF WriteMarker, At
  <2>2. handler' \in [Slots -> Handler] /\ RunsAsked'
    BY <1>15, <2>1, GotoTypes DEF WriteMarker
  <2> QED BY <1>15, <2>1, <2>2, HandlerFacts DEF TypeInv, TypeOK, Maps, WriteMarker, history
<1>16. ASSUME NEW s \in Slots, StampRead(s) PROVE TypeInv'
  <2>1. handler[s].pc # "idle"
    BY <1>16 DEF StampRead, At
  <2>2. handler' \in [Slots -> Handler] /\ RunsAsked'
    BY <1>16, <2>1, GotoTypes DEF StampRead
  <2> QED BY <1>16, <2>2 DEF TypeInv, TypeOK, Maps, StampRead, history
<1>17. ASSUME NEW s \in Slots, Fail(s) PROVE TypeInv'
  <2>1. handler' \in [Slots -> Handler] /\ RunsAsked'
    BY <1>17, GotoTypes DEF Fail, Return
  <2> QED BY <1>17, <2>1 DEF TypeInv, TypeOK, Maps, Fail, db, history
<1>18. CASE UNCHANGED vars
  BY <1>18 DEF TypeInv, TypeOK, Maps, RunsAsked, Event, vars, db, history
<1> QED
  BY <1>1, <1>2, <1>4, <1>5, <1>6, <1>7, <1>8, <1>9, <1>10, <1>11, <1>12, <1>13, <1>14, <1>15,
     <1>16, <1>17, <1>18 DEF Next, Run

-----------------------------------------------------------------------------
(* What is stored, announced and marked *)

\* The handler in a slot knows, wherever it stands, that its message covers its
\* author's devices (insert), that the row and its envelopes are as far gone as
\* it has brought them (delete), and that its message is younger than the
\* marker it saw (read).
Knows(s) ==
  LET m == Event(s).message IN
  /\ handler[s].pc \in {"begin", "insert"} => Covers(Event(s))
  /\ Event(s).kind = "delete" /\ handler[s].pc \in {"write", "strip", "tell"} => Exists(m)
  /\ Event(s).kind = "delete" /\ handler[s].pc \in {"strip", "tell"} => messages[m].deleted
  /\ Event(s).kind = "delete" /\ handler[s].pc = "tell" => \A v \in envelopes : v[1] # m
  /\ Event(s).kind = "read" /\ handler[s].pc = "write" =>
       Exists(m) /\ Advances(m, handler[s].seen)
         /\ (handler[s].seen = NoMessage \/ Exists(handler[s].seen))

\* Every message has the envelopes of one request, until it is deleted.
StoredWhole ==
  \A m \in DOMAIN messages :
    \/ messages[m].deleted
    \/ \E e \in DOMAIN asked :
         e.message = m /\ {m} \X e.to \subseteq envelopes /\ Covers(e)

MarkersExist == \A u \in Users : marker[u] = NoMessage \/ Exists(marker[u])

IInv ==
  /\ TypeInv
  /\ \A s \in Slots : Knows(s)
  /\ acked \subseteq DOMAIN messages
  /\ StoredWhole
  /\ RetractionComplete
  /\ MarkersExist

\* No step takes a row back, changes its time, or undoes its deletion.
LEMMA TableGrows ==
  ASSUME TypeInv, [Next]_vars, NEW m \in DOMAIN messages
  PROVE  /\ m \in DOMAIN messages'
         /\ messages'[m].at = messages[m].at
         /\ messages[m].deleted => messages'[m].deleted
<1>1. ASSUME NEW s \in Slots, CommitInsert(s)
      PROVE  m \in DOMAIN messages' /\ messages'[m] = messages[m]
  BY <1>1 DEF CommitInsert, Exists, Put
<1>2. ASSUME NEW s \in Slots, MarkDeleted(s)
      PROVE  /\ m \in DOMAIN messages'
             /\ messages'[m].at = messages[m].at
             /\ messages[m].deleted => messages'[m].deleted
  <2>1. messages[m] \in Row /\ messages' = [messages EXCEPT ![Event(s).message].deleted = TRUE]
    BY <1>2 DEF TypeInv, TypeOK, MarkDeleted
  <2> QED BY <2>1 DEF Row
<1>3. CASE \A s \in Slots : ~CommitInsert(s) /\ ~MarkDeleted(s)
  <2>1. messages' = messages
    BY <1>3 DEF Next, Run, Tick, Dispatch, Admit, AdmitUnchecked, Request, FindSend, FindEdit,
         BeginInsert, Deliver, TellEdited, FindDelete, StripEnvelopes, TellDeleted, FindRead,
         WriteMarker, StampRead, Fail, vars, db
  <2> QED BY <2>1
<1> QED BY <1>1, <1>2, <1>3

\* New envelopes are those of a message that is new.
LEMMA NewEnvelopes ==
  ASSUME TypeInv, [Next]_vars, NEW v \in envelopes', v \notin envelopes
  PROVE  v[1] \notin DOMAIN messages
<1>1. ASSUME NEW s \in Slots, CommitInsert(s)
      PROVE  v[1] \notin DOMAIN messages
  BY <1>1 DEF CommitInsert, Exists, Envelopes
<1>2. CASE \A s \in Slots : ~CommitInsert(s)
  BY <1>2 DEF Next, Run, Tick, Dispatch, Admit, AdmitUnchecked, Request, FindSend, FindEdit,
       BeginInsert, MarkDeleted, Deliver, TellEdited, FindDelete, StripEnvelopes, TellDeleted,
       FindRead, WriteMarker, StampRead, Fail, vars, db
<1> QED BY <1>1, <1>2

\* A slot that moves runs a step of its handler, or starts one.
LEMMA SlotMoves ==
  ASSUME TypeInv, [Next]_vars, NEW t \in Slots, handler'[t] # handler[t]
  PROVE  Run(t) \/ handler'[t].pc = "find"
<1> USE DEF TypeInv, TypeOK
<1>1. ASSUME NEW s \in Slots, NEW e \in DOMAIN asked, Start(s, e)
      PROVE  handler'[t].pc = "find"
  BY <1>1 DEF Start, Idle
<1>2. ASSUME NEW s \in Slots, Run(s)
      PROVE  s = t
  BY <1>2 DEF Run, FindSend, FindEdit, BeginInsert, CommitInsert, Deliver, TellEdited,
       FindDelete, MarkDeleted, StripEnvelopes, TellDeleted, FindRead, WriteMarker, StampRead,
       Fail, Goto, Return
<1>3. ASSUME NEW s \in Slots, NEW f \in flight, Admit(s, f) \/ AdmitUnchecked(s, f)
      PROVE  handler'[t].pc = "find"
  BY <1>1, <1>3 DEF Admit, AdmitUnchecked, RunsAsked
<1>4. ASSUME NEW s \in Slots, NEW e \in DOMAIN asked, Request(s, e)
      PROVE  handler'[t].pc = "find"
  BY <1>1, <1>4 DEF Request
<1> QED BY <1>2, <1>3, <1>4 DEF Next, Tick, Dispatch, vars

\* What a step that only moves on leaves in its slot.
LEMMA MovesOn ==
  ASSUME TypeInv, NEW t \in Slots, NEW pc, Goto(t, pc)
  PROVE  handler'[t].pc = pc /\ Event(t)' = Event(t) /\ handler'[t].seen = handler[t].seen
<1>1. handler[t] \in Handler /\ handler'[t] = [handler[t] EXCEPT !.pc = pc]
  BY DEF TypeInv, TypeOK, Goto
<1> QED BY <1>1 DEF Handler, Event

\* A slot that stands still keeps what it knows.
LEMMA StandsStill ==
  ASSUME IInv, [Next]_vars, NEW t \in Slots, handler'[t] = handler[t]
  PROVE  Knows(t)'
<1>1. TypeInv /\ Knows(t)
  BY DEF IInv
<1>2. PICK m : m = Event(t).message
  OBVIOUS
<1>3. Event(t)' = Event(t)
  BY DEF Event
<1>4. \A n \in DOMAIN messages : n \in DOMAIN messages' /\ messages'[n].at = messages[n].at
                                 /\ (messages[n].deleted => messages'[n].deleted)
  BY <1>1, TableGrows
<1>5. (handler[t].pc \in {"begin", "insert"} => Covers(Event(t)))'
  BY <1>1, <1>3 DEF Knows, Covers, Siblings, Author
<1>6. (Event(t).kind = "delete" /\ handler[t].pc \in {"write", "strip", "tell"} => Exists(Event(t).message))'
  BY <1>1, <1>3, <1>4 DEF Knows, Exists
<1>7. (Event(t).kind = "delete" /\ handler[t].pc \in {"strip", "tell"} => messages[Event(t).message].deleted)'
  BY <1>1, <1>3, <1>4 DEF Knows, Exists
<1>8. (Event(t).kind = "delete" /\ handler[t].pc = "tell" => \A v \in envelopes : v[1] # Event(t).message)'
  <2>1. SUFFICES ASSUME Event(t).kind = "delete", handler[t].pc = "tell", NEW v \in envelopes'
        PROVE  v[1] # m
    BY <1>2, <1>3
  <2>2. m \in DOMAIN messages /\ \A w \in envelopes : w[1] # m
    BY <1>1, <1>2, <2>1 DEF Knows, Exists
  <2> QED BY <1>1, <2>2, NewEnvelopes
<1>9. (Event(t).kind = "read" /\ handler[t].pc = "write" =>
         Exists(Event(t).message) /\ Advances(Event(t).message, handler[t].seen)
           /\ (handler[t].seen = NoMessage \/ Exists(handler[t].seen)))'
  BY <1>1, <1>3, <1>4 DEF Knows, Exists, Advances
<1> QED BY <1>5, <1>6, <1>7, <1>8, <1>9 DEF Knows

LEMMA SlotsKnow ==
  ASSUME IInv, [Next]_vars, NEW t \in Slots
  PROVE  Knows(t)'
<1>1. TypeInv /\ TypeInv' /\ Knows(t) /\ MarkersExist
  BY StepTypes DEF IInv
<1>2. CASE handler'[t].pc \in {"find", "idle"}
  BY <1>2 DEF Knows
<1>3. ASSUME Run(t), handler'[t].pc \notin {"find", "idle"}
      PROVE  Knows(t)'
  <2>1. ~Return(t)
    BY <1>1, <1>3 DEF Return, Idle, TypeInv, TypeOK
  <2>2. CASE FindSend(t)
    <3>1. Covers(Event(t)) /\ Goto(t, "begin") /\ Event(t).kind = "send"
      BY <2>1, <2>2 DEF FindSend, At
    <3>2. handler'[t].pc = "begin" /\ Event(t)' = Event(t)
      BY <1>1, <3>1, MovesOn
    <3> QED BY <3>1, <3>2 DEF Knows, Covers, Siblings, Author
  <2>3. CASE FindEdit(t)
    <3>1. Covers(Event(t)) /\ Event(t).kind = "edit"
      BY <2>1, <2>3 DEF FindEdit, At
    <3>2. handler'[t] = [handler[t] EXCEPT !.pc = "begin", !.root = RootOf(Event(t).original)]
      BY <1>1, <2>1, <2>3 DEF FindEdit, TypeInv, TypeOK
    <3>3. handler'[t].pc = "begin" /\ Event(t)' = Event(t)
      BY <1>1, <3>2 DEF TypeInv, TypeOK, Handler, Event
    <3> QED BY <3>1, <3>3 DEF Knows, Covers, Siblings, Author
  <2>4. CASE BeginInsert(t)
    <3>1. handler'[t] = [handler[t] EXCEPT !.pc = "insert", !.at = now] /\ handler[t].pc = "begin"
      BY <1>1, <2>4 DEF BeginInsert, TypeInv, TypeOK
    <3>2. handler'[t].pc = "insert" /\ Event(t)' = Event(t)
      BY <1>1, <3>1 DEF TypeInv, TypeOK, Handler, Event
    <3> QED BY <1>1, <3>1, <3>2 DEF Knows, Covers, Siblings, Author
  <2>5. CASE CommitInsert(t)
    <3>1. handler'[t].pc = "deliver"
      BY <1>1, <2>1, <2>5, MovesOn DEF CommitInsert
    <3> QED BY <3>1 DEF Knows
  <2>6. CASE Deliver(t)
    <3>1. Event(t).kind = "edit" /\ Goto(t, "tell")
      BY <2>1, <2>6 DEF Deliver
    <3>2. handler'[t].pc = "tell" /\ Event(t)' = Event(t)
      BY <1>1, <3>1, MovesOn
    <3> QED BY <3>1, <3>2 DEF Knows
  <2>7. CASE FindDelete(t)
    <3>1. Exists(Event(t).message) /\ Goto(t, "write") /\ Event(t).kind = "delete"
          /\ messages' = messages
      BY <2>1, <2>7 DEF FindDelete, Own, At, db
    <3>2. handler'[t].pc = "write" /\ Event(t)' = Event(t)
      BY <1>1, <3>1, MovesOn
    <3> QED BY <3>1, <3>2 DEF Knows, Exists
  <2>8. CASE MarkDeleted(t)
    <3>1. Exists(Event(t).message) /\ Goto(t, "strip") /\ Event(t).kind = "delete"
      BY <1>1, <2>8 DEF MarkDeleted, At, Knows
    <3>2. handler'[t].pc = "strip" /\ Event(t)' = Event(t)
      BY <1>1, <3>1, MovesOn
    <3>3. messages[Event(t).message] \in Row
      BY <1>1, <3>1 DEF Exists, TypeInv, TypeOK
    <3>4. Exists(Event(t).message)' /\ messages'[Event(t).message].deleted
      BY <2>8, <3>1, <3>2, <3>3 DEF MarkDeleted, Exists, Row
    <3> QED BY <3>1, <3>2, <3>4 DEF Knows
  <2>9. CASE StripEnvelopes(t)
    <3>1. Exists(Event(t).message) /\ messages[Event(t).message].deleted
          /\ Goto(t, "tell") /\ Event(t).kind = "delete" /\ messages' = messages
      BY <1>1, <2>9 DEF StripEnvelopes, At, Knows
    <3>2. handler'[t].pc = "tell" /\ Event(t)' = Event(t)
      BY <1>1, <3>1, MovesOn
    <3>3. \A v \in envelopes' : v[1] # Event(t).message
      BY <2>9 DEF StripEnvelopes
    <3> QED BY <3>1, <3>2, <3>3 DEF Knows, Exists
  <2>10. CASE FindRead(t)
    <3>1. PICK last : last = marker[Author(Event(t))]
      OBVIOUS
    <3>2. /\ Event(t).kind = "read" /\ handler[t].pc = "find" /\ messages' = messages
          /\ Exists(Event(t).message) /\ Advances(Event(t).message, last)
          /\ handler' = [handler EXCEPT ![t].pc = "write", ![t].seen = last]
      BY <2>1, <2>10, <3>1 DEF FindRead, At, db
    <3>3. handler'[t] = [handler[t] EXCEPT !.pc = "write", !.seen = last] /\ handler[t] \in Handler
      BY <1>1, <3>2 DEF TypeInv, TypeOK
    <3>4. handler'[t].pc = "write" /\ Event(t)' = Event(t) /\ handler'[t].seen = last
      BY <3>3 DEF Handler, Event
    <3>5. Event(t).device \in Devices
      BY <1>1, <3>2, HandlerFacts, EventFacts
    <3>6. last = NoMessage \/ Exists(last)
      BY <1>1, <3>1, <3>5 DEF MarkersExist, Users, Author
    <3> QED BY <3>2, <3>4, <3>6 DEF Knows, Exists, Advances
  <2>11. CASE WriteMarker(t)
    <3>1. handler'[t].pc = "stamp"
      BY <1>1, <2>11, MovesOn DEF WriteMarker
    <3> QED BY <3>1 DEF Knows
  <2>12. ~TellEdited(t) /\ ~TellDeleted(t) /\ ~StampRead(t) /\ ~Fail(t)
    BY <2>1 DEF TellEdited, TellDeleted, StampRead, Fail, Return
  <2> QED
    BY <1>3, <2>2, <2>3, <2>4, <2>5, <2>6, <2>7, <2>8, <2>9, <2>10, <2>11, <2>12 DEF Run
<1> QED BY <1>1, <1>2, <1>3, SlotMoves, StandsStill

LEMMA RowsKept ==
  ASSUME IInv, [Next]_vars
  PROVE  (acked \subseteq DOMAIN messages)'
<1>1. TypeInv /\ acked \subseteq DOMAIN messages
  BY DEF IInv
<1>2. DOMAIN messages \subseteq DOMAIN messages'
  BY <1>1, TableGrows
<1>3. ASSUME NEW s \in Slots, FindSend(s) \/ FindEdit(s) \/ CommitInsert(s)
      PROVE  acked' \subseteq DOMAIN messages'
  BY <1>1, <1>2, <1>3 DEF FindSend, FindEdit, CommitInsert, Exists, Put
<1>4. CASE \A s \in Slots : ~FindSend(s) /\ ~FindEdit(s) /\ ~CommitInsert(s)
  <2>1. acked' = acked
    BY <1>4 DEF Next, Run, Tick, Dispatch, Admit, AdmitUnchecked, Request, BeginInsert, Deliver,
         TellEdited, FindDelete, MarkDeleted, StripEnvelopes, TellDeleted, FindRead, WriteMarker,
         StampRead, Fail, vars
  <2> QED BY <1>1, <1>2, <2>1
<1> QED BY <1>3, <1>4

LEMMA RowsWhole ==
  ASSUME IInv, [Next]_vars
  PROVE  StoredWhole'
<1>1. TypeInv /\ TypeInv' /\ StoredWhole /\ asked' = asked
  BY StepTypes DEF IInv, Next, Run, Tick, Dispatch, Admit, AdmitUnchecked, Request, FindSend,
       FindEdit, BeginInsert, CommitInsert, Deliver, TellEdited, FindDelete, MarkDeleted,
       StripEnvelopes, TellDeleted, FindRead, WriteMarker, StampRead, Fail, vars
<1>2. SUFFICES ASSUME NEW m \in DOMAIN messages', ~messages'[m].deleted
      PROVE  \E e \in DOMAIN asked :
               e.message = m /\ {m} \X e.to \subseteq envelopes' /\ Covers(e)
  BY <1>1 DEF StoredWhole, Covers, Siblings, Author
<1>3. ASSUME m \in DOMAIN messages, \A v \in envelopes : v[1] = m => v \in envelopes'
      PROVE  \E e \in DOMAIN asked :
               e.message = m /\ {m} \X e.to \subseteq envelopes' /\ Covers(e)
  <2>1. ~messages[m].deleted
    BY <1>1, <1>2, <1>3, TableGrows
  <2>2. PICK e \in DOMAIN asked : e.message = m /\ {m} \X e.to \subseteq envelopes /\ Covers(e)
    BY <1>1, <1>3, <2>1 DEF StoredWhole
  <2>3. {m} \X e.to \subseteq envelopes'
    BY <1>3, <2>2
  <2> QED BY <2>2, <2>3
<1>4. ASSUME NEW s \in Slots, CommitInsert(s), m \notin DOMAIN messages
      PROVE  \E e \in DOMAIN asked :
               e.message = m /\ {m} \X e.to \subseteq envelopes' /\ Covers(e)
  <2>1. Event(s).message = m /\ ~Exists(m)
    BY <1>2, <1>4 DEF CommitInsert, Exists, Put
  <2>2. {m} \X Event(s).to \subseteq envelopes'
    BY <1>4, <2>1 DEF CommitInsert, Envelopes
  <2>3. Covers(Event(s)) /\ Event(s) \in DOMAIN asked
    BY <1>1, <1>4, HandlerFacts DEF CommitInsert, IInv, Knows
  <2> QED BY <2>1, <2>2, <2>3
<1>5. ASSUME NEW s \in Slots, StripEnvelopes(s), m \in DOMAIN messages
      PROVE  \A v \in envelopes : v[1] = m => v \in envelopes'
  <2>1. Event(s).message # m
    BY <1>2, <1>5 DEF IInv, Knows, StripEnvelopes, At
  <2> QED BY <1>5, <2>1 DEF StripEnvelopes
<1>6. CASE \A s \in Slots : ~StripEnvelopes(s)
  <2>1. envelopes \subseteq envelopes'
    BY <1>6 DEF Next, Run, Tick, Dispatch, Admit, AdmitUnchecked, Request, FindSend, FindEdit,
         BeginInsert, CommitInsert, Deliver, TellEdited, FindDelete, MarkDeleted, TellDeleted,
         FindRead, WriteMarker, StampRead, Fail, vars, db
  <2>2. m \in DOMAIN messages \/ \E s \in Slots : CommitInsert(s)
    BY DEF Next, Run, Tick, Dispatch, Admit, AdmitUnchecked, Request, FindSend, FindEdit,
         BeginInsert, Deliver, TellEdited, FindDelete, MarkDeleted, StripEnvelopes, TellDeleted,
         FindRead, WriteMarker, StampRead, Fail, vars, db
  <2> QED BY <1>3, <1>4, <2>1, <2>2
<1>7. ASSUME NEW s \in Slots, StripEnvelopes(s)
      PROVE  m \in DOMAIN messages
  BY <1>7 DEF StripEnvelopes
<1> QED BY <1>3, <1>5, <1>6, <1>7

LEMMA ToldIsGone ==
  ASSUME IInv, [Next]_vars
  PROVE  RetractionComplete'
<1>1. TypeInv /\ RetractionComplete
  BY DEF IInv
<1>2. SUFFICES ASSUME NEW m \in Messages, <<"deleted", m>> \in heard'
      PROVE  Exists(m)' /\ messages'[m].deleted /\ \A v \in envelopes' : v[1] # m
  BY DEF RetractionComplete
<1>3. Exists(m) /\ messages[m].deleted /\ \A v \in envelopes : v[1] # m
  <2>1. CASE <<"deleted", m>> \in heard
    BY <1>1, <2>1 DEF RetractionComplete
  <2>2. CASE <<"deleted", m>> \notin heard
    <3>1. ASSUME NEW s \in Slots, Deliver(s) \/ TellEdited(s)
          PROVE  FALSE
      <4>1. PICK x \in {"new", "edited"}, y \in {Event(s).message} : heard' = heard \cup {<<x, y>>}
        BY <3>1 DEF Deliver, TellEdited
      <4>2. <<"deleted", m>> = <<x, y>>
        BY <1>2, <2>2, <4>1
      <4> QED BY <4>2
    <3>2. heard' = heard \/ \E s \in Slots : Deliver(s) \/ TellEdited(s) \/ TellDeleted(s)
      BY DEF Next, Run, Tick, Dispatch, Admit, AdmitUnchecked, Request, FindSend, FindEdit,
           BeginInsert, CommitInsert, FindDelete, MarkDeleted, StripEnvelopes, FindRead,
           WriteMarker, StampRead, Fail, vars
    <3>3. PICK s \in Slots : TellDeleted(s)
      BY <1>2, <2>2, <3>1, <3>2
    <3>4. Event(s).message = m
      BY <1>2, <2>2, <3>3 DEF TellDeleted
    <3> QED BY <3>3, <3>4 DEF IInv, Knows, TellDeleted, At
  <2> QED BY <2>1, <2>2
<1> QED BY <1>1, <1>3, TableGrows, NewEnvelopes DEF Exists

LEMMA MarkersKept ==
  ASSUME IInv, [Next]_vars
  PROVE  MarkersExist'
<1>1. TypeInv /\ MarkersExist
  BY DEF IInv
<1>2. \A n : Exists(n) => Exists(n)'
  BY <1>1, TableGrows DEF Exists
<1>3. ASSUME NEW s \in Slots, WriteMarker(s)
      PROVE  MarkersExist'
  <2>1. Exists(Event(s).message)
    BY <1>3 DEF IInv, Knows, WriteMarker, At
  <2> QED BY <1>1, <1>2, <1>3, <2>1 DEF MarkersExist, WriteMarker, TypeInv, TypeOK
<1>4. CASE \A s \in Slots : ~WriteMarker(s)
  <2>1. marker' = marker
    BY <1>4 DEF Next, Run, Tick, Dispatch, Admit, AdmitUnchecked, Request, FindSend, FindEdit,
         BeginInsert, CommitInsert, Deliver, TellEdited, FindDelete, MarkDeleted, StripEnvelopes,
         TellDeleted, FindRead, StampRead, Fail, vars, db
  <2> QED BY <1>1, <1>2, <2>1 DEF MarkersExist
<1> QED BY <1>3, <1>4

LEMMA SpecIInv == Spec => []IInv
<1>1. Init => IInv
  BY InitTypes DEF Init, IInv, Knows, Idle, Event, StoredWhole, RetractionComplete, MarkersExist
<1>2. IInv /\ [Next]_vars => IInv'
  BY StepTypes, SlotsKnow, RowsKept, RowsWhole, ToldIsGone, MarkersKept DEF IInv
<1> QED BY <1>1, <1>2, PTL DEF Spec

\* Handlers, tables and keys stay well formed, however the handlers interleave,
\* fail and are started again.
THEOREM TypeCorrect == Spec => []TypeOK
<1>1. IInv => TypeOK
  BY DEF IInv, TypeInv
<1> QED BY <1>1, SpecIInv, PTL

\* An acknowledged message is stored, and until it is deleted it has every
\* envelope of one request, covering its author's other devices (send, edit).
THEOREM AcksKept == Spec => []AckedStored
<1>1. IInv => AckedStored
  BY DEF IInv, AckedStored, StoredWhole, Exists, Covers
<1> QED BY <1>1, SpecIInv, PTL

\* When the room is told a message is deleted, its row is marked and no envelope
\* of it is left, or comes back later (delete_message, DELETE /messages/:id).
THEOREM DeletionsComplete == Spec => []RetractionComplete
<1>1. IInv => RetractionComplete
  BY DEF IInv
<1> QED BY <1>1, SpecIInv, PTL

\* message_read moves a user's marker to a later message, unless another handler
\* moved it between the check and the write.
THEOREM MarkerMovesOn == Spec => MarkerAdvances
<1> DEFINE Ahead(u) ==
      \/ messages[marker'[u]].at > messages[marker[u]].at
      \/ \E s \in Slots : /\ At(s, "write", {"read"})
                          /\ Event(s).message = marker'[u] /\ handler[s].seen # marker[u]
<1>1. ASSUME IInv, [Next]_vars, NEW u \in Users, marker[u] # NoMessage, marker'[u] # marker[u]
      PROVE  Ahead(u)
  <2>1. PICK s \in Slots : WriteMarker(s)
    BY <1>1 DEF Next, Run, Tick, Dispatch, Admit, AdmitUnchecked, Request, FindSend, FindEdit,
         BeginInsert, CommitInsert, Deliver, TellEdited, FindDelete, MarkDeleted, StripEnvelopes,
         TellDeleted, FindRead, StampRead, Fail, vars, db
  <2>2. At(s, "write", {"read"}) /\ marker'[u] = Event(s).message
    BY <1>1, <2>1 DEF WriteMarker, IInv, TypeInv, TypeOK
  <2>3. Advances(Event(s).message, handler[s].seen)
    BY <1>1, <2>2 DEF IInv, Knows, At
  <2> QED BY <1>1, <2>2, <2>3 DEF Advances
<1>2. IInv /\ [Next]_vars =>
        [\A u \in Users : (marker[u] # NoMessage /\ marker'[u] # marker[u]) => Ahead(u)]_vars
  BY <1>1
<1> QED BY <1>2, SpecIInv, PTL DEF Spec, MarkerAdvances

-----------------------------------------------------------------------------
(* Replay protection *)

\* A client wraps an event once.
OneEnvelope == \A f, g \in flight : f.event = g.event => f = g

\* What ran came in an envelope.
Dispatched == \A e \in DOMAIN asked :
  e.via = "socket" /\ ran[e] > 0 => \E f \in flight : f.event = e

\* While an envelope is fresh, the key of the event that ran is there, and
\* stays as long as the envelope is fresh.
KeyHeld == \A f \in flight :
  ran[f.event] > 0 /\ f.event \notin open \cup early /\ now <= f.stamp + MaxAge
    => KeyOf(f.event) \in DOMAIN keys /\ keys[KeyOf(f.event)] >= f.stamp + MaxAge

OnceInv == TypeInv /\ OneEnvelope /\ Dispatched /\ KeyHeld /\ EachEventOnce

\* A handler that runs leaves clock, network, keys and history alone.
LEMMA RunsLeaveKeys ==
  ASSUME NEW s \in Slots, Run(s)
  PROVE  UNCHANGED <<asked, now, flight, keys, history>>
BY DEF Run, FindSend, FindEdit, BeginInsert, CommitInsert, Deliver, TellEdited, FindDelete,
     MarkDeleted, StripEnvelopes, TellDeleted, FindRead, WriteMarker, StampRead, Fail

\* The event of an envelope that comes in runs for the first time, or is one of
\* those whose key was not set or has gone.
LEMMA FirstRun ==
  ASSUME OnceInv, NEW s \in Slots, NEW f \in flight, Admit(s, f)
  PROVE  ran[f.event] = 0 \/ f.event \in open \cup early
<1>1. now \in Nat /\ MaxAge \in Nat /\ f.stamp \in Nat /\ ran[f.event] \in Nat
  BY BoundsAreNaturals DEF OnceInv, TypeInv, TypeOK, RunsAsked, Envelope
<1>2. now <= f.stamp + MaxAge /\ KeyOf(f.event) \notin DOMAIN keys
  BY <1>1 DEF Admit, Fresh, Seen
<1> QED BY <1>1, <1>2 DEF OnceInv, KeyHeld

LEMMA StepOnce ==
  ASSUME MaxAge <= Ttl, OnceInv, [Next]_vars
  PROVE  OnceInv'
<1> USE BoundsAreNaturals
<1>0. TypeInv /\ TypeInv' /\ OneEnvelope /\ Dispatched /\ KeyHeld /\ EachEventOnce
  BY StepTypes DEF OnceInv
<1>1. CASE UNCHANGED <<asked, now, flight, keys, history>>
  BY <1>0, <1>1 DEF OnceInv, OneEnvelope, Dispatched, KeyHeld, EachEventOnce, KeyOf, history
<1>2. CASE Tick
  <2>1. UNCHANGED <<asked, flight, ran, early, open>> /\ now' = now + 1
    BY <1>2 DEF Tick, history
  <2>2. KeyHeld'
    <3>1. SUFFICES ASSUME NEW f \in flight, ran[f.event] > 0, f.event \notin open \cup early,
                          now + 1 <= f.stamp + MaxAge
          PROVE  KeyOf(f.event) \in DOMAIN keys' /\ keys'[KeyOf(f.event)] >= f.stamp + MaxAge
      BY <2>1 DEF KeyHeld, KeyOf
    <3>2. now \in Nat /\ f.stamp \in Nat /\ keys \in [DOMAIN keys -> Nat]
      BY <1>0 DEF TypeInv, TypeOK, Maps, Envelope
    <3>3. KeyOf(f.event) \in DOMAIN keys /\ keys[KeyOf(f.event)] >= f.stamp + MaxAge
      BY <1>0, <3>1, <3>2 DEF KeyHeld
    <3>4. now < keys[KeyOf(f.event)]
      BY <3>1, <3>2, <3>3
    <3> QED BY <1>2, <3>3, <3>4 DEF Tick
  <2> QED BY <1>0, <2>1, <2>2 DEF OnceInv, OneEnvelope, Dispatched, EachEventOnce
<1>3. ASSUME NEW e \in DOMAIN asked, NEW ahead \in 0..Skew, Dispatch(e, ahead)
      PROVE  OnceInv'
  <2>1. PICK f : f = [event |-> e, stamp |-> now + ahead]
    OBVIOUS
  <2>2. /\ flight' = flight \cup {f} /\ f.event = e /\ e.via = "socket"
        /\ \A g \in flight : g.event # e
        /\ UNCHANGED <<asked, now, keys, ran, early, open>>
    BY <1>3, <2>1 DEF Dispatch, history
  <2>3. ran[e] = 0
    BY <1>0, <2>2 DEF Dispatched, TypeInv, TypeOK
  <2>4. KeyHeld'
    BY <1>0, <2>2, <2>3 DEF KeyHeld, KeyOf
  <2> QED BY <1>0, <2>2, <2>4 DEF OnceInv, OneEnvelope, Dispatched, EachEventOnce
<1>4. ASSUME NEW s \in Slots, NEW f \in flight, Admit(s, f)
      PROVE  OnceInv'
  <2>1. /\ keys' = Put(keys, KeyOf(f.event), now + Ttl) /\ KeyOf(f.event) \notin DOMAIN keys
        /\ ran' = [ran EXCEPT ![f.event] = ran[f.event] + 1]
        /\ early' = IF now < f.stamp /\ ran[f.event] = 0 THEN early \cup {f.event} ELSE early
        /\ UNCHANGED <<asked, now, flight, open>>
    BY <1>4 DEF Admit, Start, Seen, Expiry
  <2>2. f.event \in DOMAIN asked /\ f.event.via = "socket" /\ ran \in [DOMAIN asked -> Nat]
    BY <1>0 DEF TypeInv, TypeOK, RunsAsked
  <2>3. ran[f.event] = 0 \/ f.event \in open \cup early
    BY <1>4, FirstRun
  <2>4. Dispatched'
    BY <1>0, <2>1, <2>2 DEF Dispatched
  <2>5. EachEventOnce'
    BY <1>0, <2>1, <2>2, <2>3 DEF EachEventOnce
  <2>6. KeyHeld'
    <3>1. SUFFICES ASSUME NEW g \in flight, ran'[g.event] > 0, g.event \notin open \cup early',
                          now <= g.stamp + MaxAge
          PROVE  KeyOf(g.event) \in DOMAIN keys' /\ keys'[KeyOf(g.event)] >= g.stamp + MaxAge
      BY <2>1 DEF KeyHeld, KeyOf
    <3>2. now \in Nat /\ g.stamp \in Nat /\ g.event \notin early
      BY <1>0, <2>1, <3>1 DEF TypeInv, TypeOK, Envelope
    <3>3. CASE g.event = f.event
      <4>1. g = f /\ ran[f.event] = 0 /\ f.stamp <= now
        BY <1>0, <2>1, <2>3, <3>1, <3>2, <3>3 DEF OneEnvelope
      <4>2. now + Ttl >= g.stamp + MaxAge
        BY <3>2, <4>1
      <4> QED BY <2>1, <4>1, <4>2 DEF Put
    <3>4. CASE g.event # f.event
      <4>1. g.event \in DOMAIN asked
        BY <1>0 DEF TypeInv, RunsAsked
      <4>2. ran'[g.event] = ran[g.event]
        BY <2>1, <2>2, <3>4, <4>1
      <4>3. KeyOf(g.event) \in DOMAIN keys /\ keys[KeyOf(g.event)] >= g.stamp + MaxAge
        BY <1>0, <3>1, <3>2, <4>2 DEF KeyHeld
      <4>4. KeyOf(g.event) # KeyOf(f.event)
        BY <2>1, <4>3
      <4> QED BY <2>1, <4>3, <4>4 DEF Put
    <3> QED BY <3>3, <3>4
  <2> QED BY <1>0, <2>1, <2>4, <2>5, <2>6 DEF OnceInv, OneEnvelope
<1>5. ASSUME NEW s \in Slots, NEW f \in flight, AdmitUnchecked(s, f)
      PROVE  OnceInv'
  <2>1. /\ ran' = [ran EXCEPT ![f.event] = ran[f.event] + 1]
        /\ open' = open \cup {f.event}
        /\ UNCHANGED <<asked, now, flight, keys, early>>
    BY <1>5 DEF AdmitUnchecked, Start
  <2>2. f.event \in DOMAIN asked /\ ran \in [DOMAIN asked -> Nat]
        /\ \A g \in flight : g.event \in DOMAIN asked
    BY <1>0 DEF TypeInv, TypeOK, RunsAsked
  <2>3. \A e \in DOMAIN asked : e # f.event => ran'[e] = ran[e]
    BY <2>1, <2>2
  <2>4. Dispatched'
    BY <1>0, <2>1, <2>3 DEF Dispatched
  <2>5. EachEventOnce'
    BY <1>0, <2>1, <2>3 DEF EachEventOnce
  <2>6. KeyHeld'
    BY <1>0, <2>1, <2>2, <2>3 DEF KeyHeld, KeyOf
  <2> QED BY <1>0, <2>1, <2>4, <2>5, <2>6 DEF OnceInv, OneEnvelope
<1>6. ASSUME NEW s \in Slots, NEW e \in DOMAIN asked, Request(s, e)
      PROVE  OnceInv'
  <2>1. /\ e.via = "http" /\ ran' = [ran EXCEPT ![e] = ran[e] + 1]
        /\ UNCHANGED <<asked, now, flight, keys, early, open>>
    BY <1>6 DEF Request, Start
  <2>2. ran \in [DOMAIN asked -> Nat]
        /\ \A g \in flight : g.event \in DOMAIN asked /\ g.event.via = "socket"
    BY <1>0 DEF TypeInv, TypeOK, RunsAsked
  <2>3. \A x \in DOMAIN asked : x.via = "socket" => ran'[x] = ran[x]
    BY <2>1, <2>2
  <2> QED BY <1>0, <2>1, <2>2, <2>3
            DEF OnceInv, OneEnvelope, Dispatched, KeyHeld, EachEventOnce, KeyOf
<1> QED BY <1>1, <1>2, <1>3, <1>4, <1>5, <1>6, RunsLeaveKeys DEF Next, vars, db, history

\* If keys in Redis live as long as an envelope counts as fresh, the dispatcher
\* runs a socket event once, save while Redis is silent or when its clock is ahead.
THEOREM EventsRunOnce ==
  ASSUME MaxAge <= Ttl
  PROVE  Spec => []EachEventOnce
<1>1. Init => OnceInv
  BY InitTypes DEF Init, OnceInv, OneEnvelope, Dispatched, KeyHeld, EachEventOnce
<1>2. OnceInv /\ [Next]_vars => OnceInv'
  BY StepOnce
<1>3. OnceInv => EachEventOnce
  BY DEF OnceInv
<1> QED BY <1>1, <1>2, <1>3, PTL DEF Spec
=============================================================================
