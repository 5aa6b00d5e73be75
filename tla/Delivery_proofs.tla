-------------------------- MODULE Delivery_proofs --------------------------
(***************************************************************************)
(* Theorems about Delivery: its type invariant, that the receipt of the    *)
(* last device tells the sender, and that a device can fetch what it does  *)
(* not have, for any numbers of messages, devices and receipt handlers,    *)
(* any page size and any clock.                                            *)
(*                                                                         *)
(* Three invariants carry them.  RowInv relates a row to its transaction,  *)
(* its stamps and the clock: only the collection removes one.  CursorInv   *)
(* says that what a device has yet to receive stands behind its cursor and *)
(* behind the one an answer is bringing; it needs the lemma that a page is *)
(* a prefix of what waits.  ToldInv says that a message all active devices *)
(* have was told, is being checked by a handler, or was settled silently.  *)
(***************************************************************************)
EXTENDS Delivery, FiniteSetTheorems, WellFoundedInduction, TLAPS

\* An answer brings a device rows of its own.
PagesSent == \A d \in Devices : reply[d] # NoReply => \A m \in reply[d].page : <<m, d>> \in sent
TypeInv == TypeOK /\ PagesSent

LEMMA SetupFacts ==
  ASSUME TypeOK
  PROVE  setup.messages \subseteq Messages /\ setup.devices \subseteq Devices /\ setup.linked \subseteq Devices
BY SetupsAreSmaller DEF TypeOK

LEMMA NoneAreOther ==
  /\ NoReply \notin Reply /\ NoReceipt \notin Receipt
  /\ NoReply.kind # "page" /\ NoReceipt.pc \notin {"mark", "check"}
BY DEF NoReply, Reply, NoReceipt, Receipt

LEMMA InitTypes == Init => TypeInv
<1> SUFFICES ASSUME Init PROVE TypeInv
  OBVIOUS
<1>1. setup \in Setups /\ setup.linked \subseteq Devices
  BY SetupsAreSmaller DEF Init
<1>2. /\ cursor \in [Devices -> Positions] /\ reply \in [Devices -> {NoReply} \cup Reply]
      /\ receipt \in [Handlers -> {NoReceipt} \cup Receipt] /\ got \in [Devices -> SUBSET Messages]
  BY BoundsAreNaturals DEF Init, Positions, Start
<1>3. now \in 1..LastTick /\ at \in [Messages -> 0..LastTick] /\ Never \in 1..Never /\ faults \in 0..MaxFaults
  BY BoundsAreNaturals DEF Init, Never
<1> QED BY <1>1, <1>2, <1>3 DEF Init, TypeInv, TypeOK, PagesSent

LEMMA PageFacts ==
  ASSUME TypeInv, NEW d \in Devices, reply[d].kind = "page"
  PROVE  /\ reply[d] \in Reply /\ reply[d] # NoReply
         /\ reply[d].page \subseteq Messages /\ reply[d].next \in Positions
         /\ \A m \in reply[d].page : <<m, d>> \in sent
<1>1. reply[d] \in Reply /\ reply[d] # NoReply
  BY NoneAreOther DEF TypeInv, TypeOK
<1> QED BY <1>1 DEF Reply, TypeInv, PagesSent

LEMMA ReceiptFacts ==
  ASSUME TypeInv, NEW h \in Handlers, receipt[h].pc \in {"mark", "check"}
  PROVE  /\ receipt[h] \in Receipt /\ receipt[h] # NoReceipt
         /\ receipt[h].of \in Messages \X Devices /\ receipt[h].of[1] \in Messages
<1>1. receipt[h] \in Receipt /\ receipt[h] # NoReceipt
  BY NoneAreOther DEF TypeInv, TypeOK
<1> QED BY <1>1 DEF Receipt

LEMMA PositionType ==
  ASSUME TypeOK, NEW m \in Messages
  PROVE  Position(m) \in Positions
BY MessagesAreNumbered DEF TypeOK, Position, Positions

\* Natural numbers have a smallest among them.
LEMMA SmallestOf ==
  ASSUME NEW S \in SUBSET Nat, S # {}
  PROVE  \E x \in S : \A y \in S : x <= y
<1>1. PICK x \in S : \A y \in S : ~(<<y, x>> \in OpToRel(<, Nat))
  BY NatLessThanWellFounded, WFMin
<1>2. \A y \in S : ~(y < x)
  BY <1>1 DEF OpToRel
<1> QED BY <1>2

\* Before orders positions, and two messages never share one.
LEMMA BeforeOrders ==
  ASSUME NEW p \in Positions, NEW q \in Positions, NEW r \in Positions
  PROVE  /\ ~Before(p, p)
         /\ Before(p, q) /\ Before(q, r) => Before(p, r)
         /\ Before(p, q) \/ Before(q, p) \/ p = q
<1> USE BoundsAreNaturals
<1>1. p[1] \in Nat /\ p[2] \in Nat /\ q[1] \in Nat /\ q[2] \in Nat /\ r[1] \in Nat /\ r[2] \in Nat
  BY DEF Positions
<1>2. p[1] = q[1] /\ p[2] = q[2] => p = q
  BY DEF Positions
<1> QED BY <1>1, <1>2 DEF Before

\* What comes after m in S, and the least of those sets: a last one exists.
LEMMA LastExists ==
  ASSUME TypeOK, NEW S \in SUBSET Messages, S # {}
  PROVE  \E m \in S : LastPosition(S) = Position(m) /\ \A n \in S : ~Before(Position(m), Position(n))
<1> DEFINE After(m) == {n \in S : Before(Position(m), Position(n))}
<1>1. IsFiniteSet(S)
  BY MessagesAreNumbered, FS_Subset
<1>2. \A m \in S : After(m) \in SUBSET S /\ IsFiniteSet(After(m)) /\ Cardinality(After(m)) \in Nat
  BY <1>1, FS_Subset, FS_CardinalityType
<1>3. PICK m \in S : \A n \in S : Cardinality(After(m)) <= Cardinality(After(n))
  <2>1. PICK N : N = {Cardinality(After(n)) : n \in S}
    OBVIOUS
  <2>2. N \in SUBSET Nat /\ N # {}
    BY <1>2, <2>1
  <2>3. PICK x \in N : \A y \in N : x <= y
    BY <2>2, SmallestOf
  <2> QED BY <2>1, <2>3
<1>4. \A n \in S : Position(n) \in Positions
  BY PositionType
<1>5. ASSUME NEW n \in After(m) PROVE FALSE
  <2>1. n \in S /\ Before(Position(m), Position(n))
    OBVIOUS
  <2>2. After(n) \subseteq After(m)
    BY <1>4, <2>1, BeforeOrders
  <2>3. n \notin After(n)
    BY <1>4, <2>1, BeforeOrders
  <2>4. After(n) # After(m)
    BY <2>3
  <2>5. Cardinality(After(n)) < Cardinality(After(m))
    <3>1. IsFiniteSet(After(m)) /\ Cardinality(After(m)) \in Nat /\ Cardinality(After(n)) \in Nat
      BY <1>2, <2>1
    <3>2. PICK A, B : A = After(n) /\ B = After(m)
      OBVIOUS
    <3>3. Cardinality(A) <= Cardinality(B) /\ Cardinality(A) # Cardinality(B)
      BY <2>2, <2>4, <3>1, <3>2, FS_Subset
    <3> QED BY <3>1, <3>2, <3>3
  <2> QED BY <1>2, <1>3, <2>1, <2>5
<1>6. \A n \in S : ~Before(Position(m), Position(n))
  BY <1>5
<1>7. PICK p : p = LastPosition(S)
  OBVIOUS
<1>8. p \in {Position(n) : n \in S} /\ \A n \in S : ~Before(p, Position(n))
  BY <1>6, <1>7 DEF LastPosition
<1> QED BY <1>7, <1>8

\* A page leaves behind only what comes after its last position.
LEMMA PageIsPrefix ==
  ASSUME TypeOK, NEW S \in SUBSET Messages, FirstOf(S) # {}, NEW m \in S, m \notin FirstOf(S)
  PROVE  Before(LastPosition(FirstOf(S)), Position(m))
<1> DEFINE Ahead(n) == {x \in S : Before(Position(x), Position(n))}
<1>1. FirstOf(S) \in SUBSET Messages
  BY DEF FirstOf
<1>2. PICK n \in FirstOf(S) : LastPosition(FirstOf(S)) = Position(n)
  BY <1>1, LastExists
<1>3. n \in S /\ Cardinality(Ahead(n)) < PageSize /\ ~(Cardinality(Ahead(m)) < PageSize)
  BY <1>2 DEF FirstOf
<1>4. \A x \in S : Position(x) \in Positions
  BY PositionType
<1>5. n # m /\ Position(n) # Position(m)
  BY <1>2 DEF Position
<1>6. ~Before(Position(m), Position(n))
  <2> SUFFICES ASSUME Before(Position(m), Position(n)) PROVE FALSE
    OBVIOUS
  <2>1. Ahead(m) \subseteq Ahead(n)
    BY <1>3, <1>4, BeforeOrders
  <2>2. IsFiniteSet(S)
    BY MessagesAreNumbered, FS_Subset
  <2>3. PICK A, B : A = Ahead(m) /\ B = Ahead(n)
    OBVIOUS
  <2>4. IsFiniteSet(A) /\ IsFiniteSet(B)
    BY <2>2, <2>3, FS_Subset
  <2>5. Cardinality(A) <= Cardinality(B) /\ Cardinality(A) \in Nat /\ Cardinality(B) \in Nat
    BY <2>1, <2>3, <2>4, FS_Subset, FS_CardinalityType
  <2> QED BY <1>3, <2>3, <2>5, BoundsAreNaturals
<1> QED BY <1>2, <1>3, <1>4, <1>5, <1>6, BeforeOrders

----------------------------------------------------------------------------
\* The steps that leave a group of variables alone.
Messengers == \/ \E m \in setup.messages : Begin(m) \/ Commit(m) \/ Push(m)
Syncs == \E d \in setup.devices : Sync(d) \/ Receive(d) \/ LoseReply(d)
Links == \E d \in setup.devices : Link(d) \/ Revoke(d)
Marks == \E v \in setup.messages \X setup.devices : MarkSynced(v) \/ LoseMark(v)
Receipts ==
  \/ \E h \in Handlers, v \in setup.messages \X setup.devices : TakeReceipt(h, v)
  \/ \E h \in Handlers : StampReceipt(h) \/ CheckReceipt(h) \/ CrashReceipt(h)

LEMMA NextSplit == [Next]_vars =>
  Tick \/ Collect \/ Messengers \/ Syncs \/ Links \/ Marks \/ Receipts \/ UNCHANGED vars
BY DEF Next, Messengers, Syncs, Links, Marks, Receipts

LEMMA StepTypes == TypeInv /\ [Next]_vars => TypeInv'
<1> SUFFICES ASSUME TypeInv, [Next]_vars PROVE TypeInv'
  OBVIOUS
<1> USE BoundsAreNaturals DEF store, history, client
<1>0. setup.messages \subseteq Messages /\ setup.devices \subseteq Devices
  BY SetupFacts DEF TypeInv
<1>1. CASE Tick
  BY <1>1 DEF Tick, TypeInv, TypeOK, PagesSent
<1>2. CASE Collect
  BY <1>2 DEF Collect, TypeInv, TypeOK, PagesSent
<1>3. ASSUME NEW m \in Messages, Begin(m) PROVE TypeInv'
  <2>1. /\ tx' \in [Messages -> {"none", "open", "in", "pushed"}]
        /\ at' \in [Messages -> 0..LastTick]
    BY <1>3 DEF Begin, TypeInv, TypeOK
  <2> QED BY <1>3, <2>1 DEF Begin, TypeInv, TypeOK, PagesSent
<1>4. ASSUME NEW m \in Messages, Commit(m) PROVE TypeInv'
  <2>1. tx' \in [Messages -> {"none", "open", "in", "pushed"}]
    BY <1>4 DEF Commit, TypeInv, TypeOK
  <2>2. /\ sent \subseteq sent' /\ sent' \subseteq Messages \X Devices /\ rows' \subseteq sent'
        /\ overtaken' \subseteq sent'
    BY <1>4 DEF Commit, TypeInv, TypeOK
  <2>3. \A d \in Devices : got'[d] \subseteq {v[1] : v \in {v \in sent' : v[2] = d}}
    BY <1>4, <2>2 DEF Commit, TypeInv, TypeOK
  <2> QED BY <1>4, <2>1, <2>2, <2>3 DEF Commit, TypeInv, TypeOK, PagesSent
<1>5. ASSUME NEW m \in Messages, Push(m) PROVE TypeInv'
  <2>1. tx' \in [Messages -> {"none", "open", "in", "pushed"}]
    BY <1>5 DEF Push, TypeInv, TypeOK
  <2>2. PICK reached \in SUBSET {d \in active : <<m, d>> \in rows} :
          /\ got' = [d \in Devices |-> IF d \in reached THEN got[d] \cup {m} ELSE got[d]]
          /\ acks' = acks \cup ({m} \X reached)
    BY <1>5 DEF Push
  <2>3. acks' \subseteq sent /\ got' \in [Devices -> SUBSET Messages]
    BY <2>2 DEF TypeInv, TypeOK
  <2>4. \A d \in Devices : got'[d] \subseteq {v[1] : v \in {v \in sent : v[2] = d}}
    <3> SUFFICES ASSUME NEW d \in Devices, NEW n \in got'[d]
                 PROVE  \E v \in sent : v[2] = d /\ n = v[1]
      OBVIOUS
    <3>1. CASE n \in got[d]
      BY <3>1 DEF TypeInv, TypeOK
    <3>2. CASE n \notin got[d]
      <4>1. n = m /\ <<m, d>> \in sent
        BY <2>2, <3>2 DEF TypeInv, TypeOK
      <4> QED BY <4>1
    <3> QED BY <3>1, <3>2
  <2> QED BY <1>5, <2>1, <2>3, <2>4 DEF Push, TypeInv, TypeOK, PagesSent
<1>6. ASSUME NEW d \in Devices, Sync(d) PROVE TypeInv'
  <2>1. PICK page, next : /\ page = FirstOf(Waiting(d))
                          /\ next = IF page = {} THEN cursor[d] ELSE LastPosition(page)
    OBVIOUS
  <2>2. page \subseteq Waiting(d) /\ page \subseteq Messages /\ \A m \in page : <<m, d>> \in sent
    BY <2>1 DEF FirstOf, Waiting, TypeInv, TypeOK
  <2>3. next \in Positions
    BY <2>1, <2>2, LastExists, PositionType DEF TypeInv, TypeOK
  <2>4. PICK new : new = [kind |-> "page", page |-> page, next |-> next]
    OBVIOUS
  <2>5. new \in Reply /\ new.page = page
    BY <2>2, <2>3, <2>4 DEF Reply
  <2>6. reply' = [reply EXCEPT ![d] = new]
    BY <1>6, <2>1, <2>4 DEF Sync
  <2>7. reply' \in [Devices -> {NoReply} \cup Reply]
    BY <2>5, <2>6 DEF TypeInv, TypeOK
  <2>8. marking' \subseteq sent
    BY <1>6, <2>1, <2>2 DEF Sync, TypeInv, TypeOK
  <2>9. PagesSent'
    BY <1>6, <2>2, <2>5, <2>6 DEF Sync, TypeInv, TypeOK, PagesSent
  <2> QED BY <1>6, <2>7, <2>8, <2>9 DEF Sync, TypeInv, TypeOK
<1>7. ASSUME NEW d \in Devices, Receive(d) PROVE TypeInv'
  <2>1. /\ reply[d].page \subseteq Messages /\ reply[d].next \in Positions
        /\ \A m \in reply[d].page : <<m, d>> \in sent
    BY <1>7, PageFacts DEF Receive
  <2>2. got' \in [Devices -> SUBSET Messages] /\ acks' \subseteq sent
    BY <1>7, <2>1 DEF Receive, TypeInv, TypeOK
  <2>3. \A e \in Devices : got'[e] \subseteq {v[1] : v \in {v \in sent : v[2] = e}}
    <3> SUFFICES ASSUME NEW e \in Devices, NEW n \in got'[e]
                 PROVE  \E v \in sent : v[2] = e /\ n = v[1]
      OBVIOUS
    <3>1. CASE n \in got[e]
      BY <3>1 DEF TypeInv, TypeOK
    <3>2. CASE n \notin got[e]
      <4>1. e = d /\ n \in reply[d].page
        BY <1>7, <3>2 DEF Receive, TypeInv, TypeOK
      <4>2. <<n, e>> \in sent
        BY <2>1, <4>1
      <4> QED BY <4>2
    <3> QED BY <3>1, <3>2
  <2>4. cursor' \in [Devices -> Positions] /\ reply' \in [Devices -> {NoReply} \cup Reply]
    BY <1>7, <2>1 DEF Receive, TypeInv, TypeOK
  <2>5. PagesSent'
    BY <1>7 DEF Receive, TypeInv, TypeOK, PagesSent
  <2> QED BY <1>7, <2>2, <2>3, <2>4, <2>5 DEF Receive, TypeInv, TypeOK
<1>8. ASSUME NEW d \in Devices, LoseReply(d) PROVE TypeInv'
  <2>1. reply' \in [Devices -> {NoReply} \cup Reply] /\ PagesSent'
    BY <1>8 DEF LoseReply, TypeInv, TypeOK, PagesSent
  <2> QED BY <1>8, <2>1 DEF LoseReply, Fault, TypeInv, TypeOK
<1>9. ASSUME NEW d \in Devices, Link(d) \/ Revoke(d) PROVE TypeInv'
  BY <1>9 DEF Link, Revoke, Fault, TypeInv, TypeOK, PagesSent
<1>10. ASSUME NEW v \in Messages \X Devices, MarkSynced(v) \/ LoseMark(v) PROVE TypeInv'
  <2>1. stamp' \in [Messages \X Devices -> 1..Never]
    BY <1>10 DEF MarkSynced, LoseMark, TypeInv, TypeOK, Never
  <2>2. quiet' \subseteq Messages /\ faults' \in 0..MaxFaults
    BY <1>10 DEF MarkSynced, LoseMark, Fault, TypeInv, TypeOK
  <2> QED BY <1>10, <2>1, <2>2 DEF MarkSynced, LoseMark, TypeInv, TypeOK, PagesSent
<1>11. ASSUME NEW h \in Handlers, NEW v \in Messages \X Devices, TakeReceipt(h, v) PROVE TypeInv'
  <2>1. [pc |-> "mark", of |-> v] \in Receipt
    BY DEF Receipt
  <2> QED BY <1>11, <2>1 DEF TakeReceipt, TypeInv, TypeOK, PagesSent
<1>12. ASSUME NEW h \in Handlers, StampReceipt(h) PROVE TypeInv'
  <2>1. receipt[h] \in Receipt /\ receipt[h].of \in Messages \X Devices
    BY <1>12, ReceiptFacts DEF StampReceipt
  <2>2. [receipt[h] EXCEPT !.pc = "check"] \in Receipt
    BY <2>1 DEF Receipt
  <2>3. receipt' \in [Handlers -> {NoReceipt} \cup Receipt]
    BY <1>12, <2>2 DEF StampReceipt, TypeInv, TypeOK
  <2>4. stamp' \in [Messages \X Devices -> 1..Never]
    BY <1>12 DEF StampReceipt, TypeInv, TypeOK, Never
  <2> QED BY <1>12, <2>3, <2>4 DEF StampReceipt, TypeInv, TypeOK, PagesSent
<1>13. ASSUME NEW h \in Handlers, CheckReceipt(h) \/ CrashReceipt(h) PROVE TypeInv'
  <2>1. receipt[h].of[1] \in Messages
    BY <1>13, ReceiptFacts DEF CheckReceipt, CrashReceipt
  <2>2. receipt' \in [Handlers -> {NoReceipt} \cup Receipt] /\ faults' \in 0..MaxFaults
        /\ told' \subseteq Messages /\ quiet' \subseteq Messages
    BY <1>13, <2>1 DEF CheckReceipt, CrashReceipt, Fault, TypeInv, TypeOK
  <2> QED BY <1>13, <2>2 DEF CheckReceipt, CrashReceipt, TypeInv, TypeOK, PagesSent
<1>14. CASE UNCHANGED vars
  BY <1>14 DEF vars, TypeInv, TypeOK, PagesSent
<1> QED BY <1>0, <1>1, <1>2, <1>3, <1>4, <1>5, <1>6, <1>7, <1>8, <1>9, <1>10, <1>11, <1>12, <1>13, <1>14, NextSplit
        DEF Messengers, Syncs, Links, Marks, Receipts

----------------------------------------------------------------------------
\* What a step does to time, transactions, rows and stamps.
StampsGrow == \A v \in Messages \X Devices :
  stamp'[v] = stamp[v] \/ (v \in rows /\ stamp'[v] = now /\ now' = now)
TransactionsGoOn == \A m \in Messages :
  /\ tx[m] # "none" => tx'[m] # "none" /\ at'[m] = at[m]
  /\ tx[m] \in {"in", "pushed"} => tx'[m] \in {"in", "pushed"}
  /\ tx[m] = "none" /\ tx'[m] # "none" => at'[m] = now'
RowsCome == \A v \in sent' :
  v \in sent \/ (tx'[v[1]] = "in" /\ v[2] \in active' /\ v \in rows')
RowsGo == \A v \in rows : v \in rows' \/ (Collectable(v) /\ stamp'[v] = stamp[v] /\ now' = now)
SettledOnLeave == \A d \in active : d \in active' \/ \A m \in Messages : tx[m] \in {"in", "pushed"} => m \in quiet'
Onward ==
  /\ now <= now' /\ sent \subseteq sent' /\ overtaken \subseteq overtaken' /\ quiet \subseteq quiet'
  /\ StampsGrow /\ TransactionsGoOn /\ RowsCome /\ RowsGo /\ SettledOnLeave

LEMMA StepsGoOnward == TypeInv /\ [Next]_vars => Onward
<1> SUFFICES ASSUME TypeInv, [Next]_vars PROVE Onward
  OBVIOUS
<1> USE BoundsAreNaturals DEF store, history, client, Onward, StampsGrow, TransactionsGoOn, RowsCome, RowsGo, SettledOnLeave
<1>0. setup.messages \subseteq Messages /\ setup.devices \subseteq Devices
  BY SetupFacts DEF TypeInv
<1>a. now \in Int /\ sent \subseteq Messages \X Devices /\ rows \subseteq sent
  BY DEF TypeInv, TypeOK
<1>1. CASE Tick
  BY <1>1, <1>a DEF Tick
<1>2. CASE Collect
  BY <1>2, <1>a DEF Collect
<1>3. ASSUME NEW m \in Messages, Begin(m) PROVE Onward
  <2>1. TransactionsGoOn
    BY <1>3 DEF Begin, TypeInv, TypeOK
  <2> QED BY <1>3, <1>a, <2>1 DEF Begin
<1>4. ASSUME NEW m \in Messages, Commit(m) PROVE Onward
  <2>1. TransactionsGoOn
    BY <1>4 DEF Commit, TypeInv, TypeOK
  <2>2. RowsCome
    BY <1>4 DEF Commit, TypeInv, TypeOK
  <2> QED BY <1>4, <1>a, <2>1, <2>2 DEF Commit
<1>5. ASSUME NEW m \in Messages, Push(m) PROVE Onward
  <2>1. TransactionsGoOn
    BY <1>5 DEF Push, TypeInv, TypeOK
  <2> QED BY <1>5, <1>a, <2>1 DEF Push
<1>6. ASSUME NEW d \in Devices, Sync(d) \/ Receive(d) \/ LoseReply(d) PROVE Onward
  BY <1>6, <1>a DEF Sync, Receive, LoseReply
<1>7. ASSUME NEW d \in Devices, Link(d) \/ Revoke(d) PROVE Onward
  BY <1>7, <1>a DEF Link, Revoke
<1>8. ASSUME NEW v \in Messages \X Devices, MarkSynced(v) \/ LoseMark(v) PROVE Onward
  <2>1. StampsGrow
    BY <1>8 DEF MarkSynced, LoseMark, TypeInv, TypeOK
  <2> QED BY <1>8, <1>a, <2>1 DEF MarkSynced, LoseMark
<1>9. ASSUME NEW h \in Handlers, NEW v \in Messages \X Devices, TakeReceipt(h, v) PROVE Onward
  BY <1>9, <1>a DEF TakeReceipt
<1>10. ASSUME NEW h \in Handlers, StampReceipt(h) PROVE Onward
  <2>1. receipt[h].of \in Messages \X Devices
    BY <1>10, ReceiptFacts DEF StampReceipt
  <2>2. StampsGrow
    BY <1>10, <2>1 DEF StampReceipt, TypeInv, TypeOK
  <2> QED BY <1>10, <1>a, <2>2 DEF StampReceipt
<1>11. ASSUME NEW h \in Handlers, CheckReceipt(h) \/ CrashReceipt(h) PROVE Onward
  BY <1>11, <1>a DEF CheckReceipt, CrashReceipt
<1>12. CASE UNCHANGED vars
  BY <1>12, <1>a DEF vars
<1> QED BY <1>0, <1>1, <1>2, <1>3, <1>4, <1>5, <1>6, <1>7, <1>8, <1>9, <1>10, <1>11, <1>12, NextSplit
        DEF Messengers, Syncs, Links, Marks, Receipts

----------------------------------------------------------------------------
\* A row was committed, is stamped no earlier than it was made, and belongs to a
\* device that is still there unless a revocation settled its message.
Stored ==
  /\ \A v \in sent : tx[v[1]] \in {"in", "pushed"}
  /\ \A m \in Messages : tx[m] # "none" => at[m] <= now
  /\ \A v \in Messages \X Devices : Delivered(v) => v \in sent /\ at[v[1]] <= stamp[v]
  /\ \A v \in sent : v[2] \in active \/ v[1] \in quiet

\* Only the collection removes a row.
Gone == \A v \in sent : v \in rows \/ Collectable(v)
RowInv == TypeInv /\ Stored /\ Gone

LEMMA InitRows == Init => RowInv
BY InitTypes DEF Init, RowInv, Stored, Gone, Delivered

LEMMA StepRows == RowInv /\ [Next]_vars => RowInv'
<1> SUFFICES ASSUME RowInv, [Next]_vars PROVE RowInv'
  OBVIOUS
<1> USE BoundsAreNaturals
<1>1. TypeInv /\ TypeInv' /\ Onward
  BY StepTypes, StepsGoOnward DEF RowInv
<1>2. /\ now \in Nat /\ now' \in Nat /\ sent \subseteq Messages \X Devices /\ sent' \subseteq Messages \X Devices
      /\ \A v \in Messages \X Devices : stamp[v] \in Nat /\ stamp'[v] \in Nat
      /\ \A m \in Messages : at[m] \in Nat /\ at'[m] \in Nat
      /\ now # Never /\ Never \in Nat
  BY <1>1 DEF TypeInv, TypeOK, Never
<1>3. \A v \in sent' : tx'[v[1]] \in {"in", "pushed"}
  BY <1>1, <1>2 DEF Onward, RowsCome, TransactionsGoOn, RowInv, Stored
<1>4. \A m \in Messages : tx'[m] # "none" => at'[m] <= now'
  BY <1>1, <1>2 DEF Onward, TransactionsGoOn, RowInv, Stored
<1>5. ASSUME NEW v \in Messages \X Devices, Delivered(v)'
      PROVE  v \in sent' /\ at'[v[1]] <= stamp'[v]
  <2>1. CASE stamp'[v] = stamp[v]
    <3>1. v \in sent /\ at[v[1]] <= stamp[v] /\ tx[v[1]] # "none"
      BY <1>5, <2>1 DEF Delivered, Never, RowInv, Stored
    <3> QED BY <1>1, <2>1, <3>1 DEF Onward, TransactionsGoOn
  <2>2. CASE stamp'[v] # stamp[v]
    <3>1. v \in rows /\ stamp'[v] = now
      BY <1>1, <2>2 DEF Onward, StampsGrow
    <3>2. v \in sent /\ tx[v[1]] \in {"in", "pushed"}
      BY <3>1 DEF RowInv, Stored, TypeInv, TypeOK
    <3>3. at[v[1]] <= now /\ at'[v[1]] = at[v[1]]
      BY <1>1, <3>2 DEF Onward, TransactionsGoOn, RowInv, Stored
    <3> QED BY <1>1, <3>1, <3>2, <3>3 DEF Onward
  <2> QED BY <2>1, <2>2
<1>6. ASSUME NEW v \in sent' PROVE v[2] \in active' \/ v[1] \in quiet'
  <2>1. CASE v \in sent
    <3>1. tx[v[1]] \in {"in", "pushed"} /\ (v[2] \in active \/ v[1] \in quiet)
      BY <2>1 DEF RowInv, Stored
    <3> QED BY <1>1, <1>2, <2>1, <3>1 DEF Onward, SettledOnLeave
  <2>2. CASE v \notin sent
    BY <1>1, <2>2 DEF Onward, RowsCome
  <2> QED BY <2>1, <2>2
<1>7. ASSUME NEW v \in sent' PROVE v \in rows' \/ Collectable(v)'
  <2>1. CASE v \in sent
    <3>0. v \in Messages \X Devices /\ at'[v[1]] = at[v[1]] /\ tx[v[1]] # "none"
      BY <1>1, <1>2, <2>1 DEF Onward, TransactionsGoOn, RowInv, Stored
    <3>1. CASE v \in rows
      <4>1. v \in rows' \/ (Collectable(v) /\ stamp'[v] = stamp[v] /\ now' = now)
        BY <1>1, <3>1 DEF Onward, RowsGo
      <4> QED BY <3>0, <4>1 DEF Collectable, Delivered, Never
    <3>2. CASE v \notin rows
      <4>1. Collectable(v) /\ stamp'[v] = stamp[v] /\ now <= now'
        BY <1>1, <2>1, <3>0, <3>2 DEF Onward, StampsGrow, RowInv, Gone
      <4> QED BY <1>2, <3>0, <4>1 DEF Collectable, Delivered, Never
    <3> QED BY <3>1, <3>2
  <2>2. CASE v \notin sent
    BY <1>1, <2>2 DEF Onward, RowsCome
  <2> QED BY <2>1, <2>2
<1>8. Stored'
  BY <1>3, <1>4, <1>5, <1>6 DEF Stored
<1> QED BY <1>1, <1>7, <1>8 DEF RowInv, Gone

----------------------------------------------------------------------------
\* What a device has yet to receive in time stands behind its cursor, and behind
\* the cursor of the answer under way unless that answer brings it.
Ahead(v) == v \notin overtaken /\ v[1] \notin got[v[2]] /\ InTime(v)
Behind(v) ==
  /\ Before(cursor[v[2]], Position(v[1]))
  /\ reply[v[2]].kind = "page" =>
       v[1] \in reply[v[2]].page \/ Before(reply[v[2]].next, Position(v[1]))
CursorInv == RowInv /\ \A v \in sent : Ahead(v) => Behind(v)

LEMMA InitCursors == Init => CursorInv
BY InitRows DEF Init, CursorInv

\* A row that is in time was in time before.
LEMMA InTimeBefore ==
  ASSUME RowInv, [Next]_vars, NEW v \in sent, InTime(v)'
  PROVE  InTime(v)
<1> USE BoundsAreNaturals
<1>1. v \in Messages \X Devices /\ at'[v[1]] = at[v[1]] /\ at[v[1]] \in Int
      /\ now \in Int /\ now' \in Int /\ now <= now' /\ now # Never
  BY StepsGoOnward, StepTypes DEF RowInv, Stored, TypeInv, TypeOK, Onward, TransactionsGoOn, Never
<1>2. Delivered(v) => Delivered(v)'
  <2>1. stamp'[v] = stamp[v] \/ stamp'[v] = now
    BY <1>1, StepsGoOnward DEF RowInv, Onward, StampsGrow
  <2> QED BY <1>1, <2>1 DEF Delivered, Never
<1> QED BY <1>1, <1>2 DEF InTime

LEMMA BehindBefore ==
  ASSUME CursorInv, [Next]_vars, \A d \in Devices : got[d] \subseteq got'[d], NEW v \in sent, Ahead(v)'
  PROVE  /\ v \in Messages \X Devices /\ Position(v[1])' = Position(v[1])
         /\ Ahead(v) /\ Behind(v)
<1>1. RowInv /\ RowInv'
  BY StepRows DEF CursorInv
<1>2. v \in Messages \X Devices /\ at'[v[1]] = at[v[1]] /\ overtaken \subseteq overtaken'
  BY <1>1, StepsGoOnward DEF RowInv, Stored, TypeInv, TypeOK, Onward, TransactionsGoOn
<1>3. Ahead(v)
  BY <1>1, <1>2, InTimeBefore DEF Ahead
<1> QED BY <1>2, <1>3 DEF CursorInv, Position

LEMMA KeepsCursors ==
  ASSUME CursorInv, [Next]_vars, UNCHANGED <<cursor, reply, sent>>,
         \A d \in Devices : got[d] \subseteq got'[d]
  PROVE  CursorInv'
<1>1. RowInv'
  BY StepRows DEF CursorInv
<1>2. ASSUME NEW v \in sent', Ahead(v)' PROVE Behind(v)'
  BY <1>2, BehindBefore DEF Behind, Position
<1> QED BY <1>1, <1>2 DEF CursorInv

LEMMA CommitCursors ==
  ASSUME CursorInv, [Next]_vars, NEW m \in Messages, Commit(m)
  PROVE  CursorInv'
<1>1. RowInv' /\ TypeInv
  BY StepRows DEF CursorInv, RowInv
<1>2. ASSUME NEW v \in sent', Ahead(v)' PROVE Behind(v)'
  <2>0. UNCHANGED <<at, got, cursor, reply>>
    BY DEF Commit, client
  <2>1. CASE v \in sent
    BY <1>2, <2>0, <2>1, BehindBefore DEF Behind, Position
  <2>2. CASE v \notin sent
    <3>1. PICK d \in active : v = <<m, d>>
      BY <2>2 DEF Commit
    <3>2. \A p \in HandedOut(d) : Before(p, Position(m))
      BY <1>2, <3>1 DEF Commit, Ahead
    <3>3. Before(cursor[d], Position(m)) /\ (reply[d].kind = "page" => Before(reply[d].next, Position(m)))
      BY <3>2 DEF HandedOut
    <3> QED BY <2>0, <3>1, <3>3 DEF Behind, Position
  <2> QED BY <2>1, <2>2
<1> QED BY <1>1, <1>2 DEF CursorInv

\* The windows the configuration gives sync and collection fit into each other.
WindowsNest == Ttl <= Retention /\ Ttl <= MaxAge

LEMMA AheadIsWaiting ==
  ASSUME WindowsNest, RowInv, NEW v \in sent, Ahead(v), Behind(v)
  PROVE  v[1] \in Waiting(v[2])
<1> USE BoundsAreNaturals
<1>1. /\ v \in Messages \X Devices /\ at[v[1]] \in Nat /\ now \in Nat /\ stamp[v] \in Nat
      /\ Delivered(v) => at[v[1]] <= stamp[v]
  BY DEF RowInv, Stored, TypeInv, TypeOK, Never
<1>2. ~Collectable(v)
  BY <1>1 DEF WindowsNest, Collectable, Ahead, InTime
<1>3. Kept(v)
  BY <1>1 DEF Kept, Ahead, InTime
<1>4. v \in rows /\ v = <<v[1], v[2]>>
  BY <1>1, <1>2 DEF RowInv, Gone
<1> QED BY <1>1, <1>3, <1>4 DEF Waiting, AfterCursor, Behind

LEMMA SyncCursors ==
  ASSUME WindowsNest, CursorInv, [Next]_vars, NEW d \in Devices, Sync(d)
  PROVE  CursorInv'
<1>1. RowInv' /\ RowInv /\ TypeOK
  BY StepRows DEF CursorInv, RowInv, TypeInv
<1>2. UNCHANGED <<at, got, cursor, sent>>
  BY DEF Sync, history
<1>3. PICK page, next : /\ page = FirstOf(Waiting(d))
                        /\ next = IF page = {} THEN cursor[d] ELSE LastPosition(page)
  OBVIOUS
<1>4. PICK new : new = [kind |-> "page", page |-> page, next |-> next]
  OBVIOUS
<1>a. reply' = [reply EXCEPT ![d] = new]
  BY <1>3, <1>4 DEF Sync
<1>5. /\ \A e \in Devices \ {d} : reply'[e] = reply[e]
      /\ reply'[d].page = page /\ reply'[d].next = next
  BY <1>1, <1>4, <1>a DEF TypeOK
<1>6. ASSUME NEW v \in sent', Ahead(v)' PROVE Behind(v)'
  <2>1. v \in sent /\ v \in Messages \X Devices /\ Ahead(v) /\ Behind(v) /\ Position(v[1])' = Position(v[1])
    BY <1>2, <1>6, BehindBefore
  <2>2. CASE v[2] # d
    BY <1>1, <1>2, <1>5, <2>1, <2>2 DEF Behind, TypeOK
  <2>3. CASE v[2] = d
    <3>1. v[1] \in Waiting(d) /\ Waiting(d) \in SUBSET Messages
      BY <1>1, <2>1, <2>3, AheadIsWaiting DEF Waiting
    <3>2. CASE page = {}
      BY <1>2, <1>3, <1>5, <2>1, <2>3, <3>2 DEF Behind
    <3>3. CASE page # {}
      <4>1. v[1] \in page \/ Before(LastPosition(page), Position(v[1]))
        BY <1>1, <1>3, <3>1, <3>3, PageIsPrefix
      <4> QED BY <1>2, <1>3, <1>5, <2>1, <2>3, <3>3, <4>1 DEF Behind
    <3> QED BY <3>2, <3>3
  <2> QED BY <2>2, <2>3
<1> QED BY <1>1, <1>6 DEF CursorInv

LEMMA AnswerCursors ==
  ASSUME CursorInv, [Next]_vars, NEW d \in Devices, Receive(d) \/ LoseReply(d)
  PROVE  CursorInv'
<1>1. RowInv' /\ TypeOK
  BY StepRows DEF CursorInv, RowInv, TypeInv
<1>a. reply' = [reply EXCEPT ![d] = NoReply] /\ sent' = sent
  BY DEF Receive, LoseReply, history
<1>b. reply'[d].kind # "page" /\ \A e \in Devices \ {d} : reply'[e] = reply[e]
  BY <1>1, <1>a, NoneAreOther DEF TypeOK
<1>c. \A e \in Devices : got[e] \subseteq got'[e]
  BY <1>1 DEF Receive, LoseReply, TypeOK
<1>2. /\ sent' = sent /\ reply'[d].kind # "page" /\ \A e \in Devices \ {d} : reply'[e] = reply[e]
      /\ \A e \in Devices : got[e] \subseteq got'[e]
  BY <1>a, <1>b, <1>c
<1>3. ASSUME NEW v \in sent', Ahead(v)' PROVE Behind(v)'
  <2>1. v \in sent /\ v \in Messages \X Devices /\ Behind(v) /\ Position(v[1])' = Position(v[1])
    BY <1>2, <1>3, BehindBefore
  <2>2. CASE v[2] # d
    <3>1. cursor'[v[2]] = cursor[v[2]]
      BY <1>1, <2>1, <2>2 DEF Receive, LoseReply, TypeOK
    <3> QED BY <1>2, <2>1, <2>2, <3>1 DEF Behind
  <2>3. CASE v[2] = d /\ Receive(d)
    <3>1. reply[d].kind = "page" /\ v[1] \notin reply[d].page /\ cursor'[d] = reply[d].next
      BY <1>1, <1>3, <2>3 DEF Receive, Ahead, TypeOK
    <3> QED BY <1>2, <2>1, <2>3, <3>1 DEF Behind
  <2>4. CASE v[2] = d /\ LoseReply(d)
    BY <1>2, <2>1, <2>4 DEF Behind, LoseReply
  <2> QED BY <2>2, <2>3, <2>4
<1> QED BY <1>1, <1>3 DEF CursorInv

LEMMA StepCursors == ASSUME WindowsNest PROVE CursorInv /\ [Next]_vars => CursorInv'
<1> SUFFICES ASSUME CursorInv, [Next]_vars PROVE CursorInv'
  OBVIOUS
<1> USE DEF client, history, store
<1>0. setup.messages \subseteq Messages /\ setup.devices \subseteq Devices /\ TypeOK
  BY SetupFacts DEF CursorInv, RowInv, TypeInv
<1>1. CASE Tick
  BY <1>1, KeepsCursors DEF Tick
<1>2. CASE Collect
  BY <1>2, KeepsCursors DEF Collect
<1>3. ASSUME NEW m \in Messages, Begin(m) PROVE CursorInv'
  BY <1>3, KeepsCursors DEF Begin
<1>4. ASSUME NEW m \in Messages, Push(m) PROVE CursorInv'
  <2>1. \A d \in Devices : got[d] \subseteq got'[d]
    BY <1>0, <1>4 DEF Push, TypeOK
  <2> QED BY <1>4, <2>1, KeepsCursors DEF Push
<1>5. ASSUME NEW d \in Devices, Link(d) \/ Revoke(d) PROVE CursorInv'
  BY <1>5, KeepsCursors DEF Link, Revoke
<1>6. ASSUME NEW v \in Messages \X Devices, MarkSynced(v) \/ LoseMark(v) PROVE CursorInv'
  BY <1>6, KeepsCursors DEF MarkSynced, LoseMark
<1>7. ASSUME NEW h \in Handlers, NEW v \in Messages \X Devices, TakeReceipt(h, v) PROVE CursorInv'
  BY <1>7, KeepsCursors DEF TakeReceipt
<1>8. ASSUME NEW h \in Handlers, StampReceipt(h) \/ CheckReceipt(h) \/ CrashReceipt(h) PROVE CursorInv'
  BY <1>8, KeepsCursors DEF StampReceipt, CheckReceipt, CrashReceipt
<1>9. CASE UNCHANGED vars
  BY <1>9, KeepsCursors DEF vars
<1> QED BY <1>0, <1>1, <1>2, <1>3, <1>4, <1>5, <1>6, <1>7, <1>8, <1>9, NextSplit,
           CommitCursors, SyncCursors, AnswerCursors
        DEF Messengers, Syncs, Links, Marks, Receipts

\* A device can fetch what it does not have, from where its cursor stands, as long
\* as the message is young enough, if the windows of sync and collection nest.
THEOREM StillFetchableAlways == ASSUME WindowsNest PROVE Spec => []StillFetchable
<1>1. Init => CursorInv
  BY InitCursors
<1>2. CursorInv /\ [Next]_vars => CursorInv'
  BY StepCursors
<1>3. CursorInv => StillFetchable
  <2> SUFFICES ASSUME CursorInv, NEW v \in sent \ overtaken, v[1] \notin got[v[2]], InTime(v)
               PROVE  Fetchable(v)
    BY DEF StillFetchable
  <2>1. RowInv /\ Ahead(v) /\ Behind(v)
    BY DEF CursorInv, Ahead
  <2> QED BY <2>1, AheadIsWaiting DEF Fetchable
<1> QED BY <1>1, <1>2, <1>3, PTL DEF Spec

----------------------------------------------------------------------------
\* Every device has its row stamped.
AllStamped(m) == active # {} /\ \A d \in active : <<m, d>> \in rows /\ Delivered(<<m, d>>)
Checking(m) == \E h \in Handlers : receipt[h].pc = "check" /\ receipt[h].of[1] = m
Settled(m) == m \in told \/ m \in quiet \/ Checking(m)
ToldInv == RowInv /\ \A m \in Messages : AllStamped(m) => Settled(m)

LEMMA InitTold == Init => ToldInv
<1> SUFFICES ASSUME Init PROVE ToldInv
  OBVIOUS
<1>1. \A m \in Messages : ~AllStamped(m)
  BY DEF Init, AllStamped
<1> QED BY <1>1, InitRows DEF ToldInv

\* What is settled stays so while no handler that checks is disturbed.
LEMMA SettledStays ==
  ASSUME told \subseteq told', quiet \subseteq quiet',
         \A h \in Handlers : receipt[h].pc = "check" => receipt'[h] = receipt[h],
         NEW m, Settled(m)
  PROVE  Settled(m)'
BY DEF Settled, Checking

LEMMA KeepsTold ==
  ASSUME ToldInv, [Next]_vars, told \subseteq told', quiet \subseteq quiet',
         \A h \in Handlers : receipt[h].pc = "check" => receipt'[h] = receipt[h],
         \A m \in Messages : AllStamped(m)' => AllStamped(m) \/ Settled(m)'
  PROVE  ToldInv'
<1>1. RowInv'
  BY StepRows DEF ToldInv
<1>2. ASSUME NEW m \in Messages, AllStamped(m)' PROVE Settled(m)'
  BY <1>2, SettledStays DEF ToldInv
<1> QED BY <1>1, <1>2 DEF ToldInv

LEMMA StepTold == ToldInv /\ [Next]_vars => ToldInv'
<1> SUFFICES ASSUME ToldInv, [Next]_vars PROVE ToldInv'
  OBVIOUS
<1> USE DEF client, history, store
<1>0. setup.messages \subseteq Messages /\ setup.devices \subseteq Devices /\ RowInv /\ TypeInv /\ TypeOK
  BY SetupFacts DEF ToldInv, RowInv, TypeInv
<1>1. CASE Tick
  BY <1>1, KeepsTold DEF Tick, AllStamped, Delivered
<1>2. CASE Collect
  BY <1>2, KeepsTold DEF Collect, AllStamped, Delivered
<1>3. ASSUME NEW m \in Messages, Begin(m) \/ Push(m) PROVE ToldInv'
  BY <1>3, KeepsTold DEF Begin, Push, AllStamped, Delivered
<1>4. ASSUME NEW m \in Messages, Commit(m) PROVE ToldInv'
  <2>1. ASSUME NEW n \in Messages, AllStamped(n)', ~AllStamped(n) PROVE FALSE
    <3>1. active' = active /\ stamp' = stamp /\ tx[m] = "open" /\ rows' = rows \cup ({m} \X active)
      BY <1>4 DEF Commit
    <3>2. n = m
      BY <2>1, <3>1 DEF AllStamped, Delivered
    <3>3. PICK d \in active : Delivered(<<m, d>>)
      BY <2>1, <3>1, <3>2 DEF AllStamped, Delivered
    <3>4. <<m, d>> \in sent /\ tx[m] \in {"in", "pushed"}
      BY <1>0, <3>3 DEF RowInv, Stored, TypeOK
    <3> QED BY <3>1, <3>4
  <2> QED BY <1>4, <2>1, KeepsTold DEF Commit
<1>5. ASSUME NEW d \in Devices, Sync(d) \/ Receive(d) \/ LoseReply(d) PROVE ToldInv'
  BY <1>5, KeepsTold DEF Sync, Receive, LoseReply, AllStamped, Delivered
<1>6. ASSUME NEW d \in Devices, Link(d) PROVE ToldInv'
  <2>1. ASSUME NEW m \in Messages, AllStamped(m)' PROVE m \in quiet'
    <3>1. <<m, d>> \in sent /\ d \notin active /\ quiet' = quiet
      BY <1>0, <1>6, <2>1 DEF Link, AllStamped, TypeOK
    <3> QED BY <1>0, <3>1 DEF RowInv, Stored
  <2> QED BY <1>6, <2>1, KeepsTold DEF Link, Settled
<1>7. ASSUME NEW d \in Devices, Revoke(d) PROVE ToldInv'
  <2>1. ASSUME NEW m \in Messages, AllStamped(m)' PROVE m \in quiet'
    <3>1. PICK e \in active' : <<m, e>> \in sent
      BY <1>0, <1>7, <2>1 DEF Revoke, AllStamped, TypeOK
    <3>2. tx[m] \in {"in", "pushed"}
      BY <1>0, <3>1 DEF RowInv, Stored
    <3> QED BY <1>7, <3>2 DEF Revoke
  <2> QED BY <1>7, <2>1, KeepsTold DEF Revoke, Settled
<1>8. ASSUME NEW v \in Messages \X Devices, MarkSynced(v) PROVE ToldInv'
  <2>1. ASSUME NEW m \in Messages, AllStamped(m)', m # v[1] PROVE AllStamped(m)
    <3>1. \A d \in Devices : stamp'[<<m, d>>] = stamp[<<m, d>>]
      BY <1>0, <1>8, <2>1 DEF MarkSynced, TypeOK
    <3> QED BY <1>0, <1>8, <2>1, <3>1 DEF MarkSynced, AllStamped, Delivered, TypeOK
  <2> QED BY <1>8, <2>1, KeepsTold DEF MarkSynced, Settled
<1>9. ASSUME NEW v \in Messages \X Devices, LoseMark(v) PROVE ToldInv'
  BY <1>9, KeepsTold DEF LoseMark, AllStamped, Delivered
<1>10. ASSUME NEW h \in Handlers, NEW v \in Messages \X Devices, TakeReceipt(h, v) PROVE ToldInv'
  <2>1. \A g \in Handlers : receipt[g].pc = "check" => receipt'[g] = receipt[g]
    BY <1>0, <1>10, NoneAreOther DEF TakeReceipt, TypeOK
  <2> QED BY <1>10, <2>1, KeepsTold DEF TakeReceipt, AllStamped, Delivered
<1>11. ASSUME NEW h \in Handlers, StampReceipt(h) PROVE ToldInv'
  <2>1. receipt[h] \in Receipt /\ receipt[h].of \in Messages \X Devices
    BY <1>0, <1>11, ReceiptFacts DEF StampReceipt
  <2>2. receipt' = [receipt EXCEPT ![h] = [receipt[h] EXCEPT !.pc = "check"]]
    BY <1>11 DEF StampReceipt
  <2>3. receipt'[h].pc = "check" /\ receipt'[h].of = receipt[h].of
    BY <1>0, <2>1, <2>2 DEF TypeOK, Receipt
  <2>4. \A g \in Handlers : receipt[g].pc = "check" => receipt'[g] = receipt[g]
    BY <1>0, <1>11, <2>2 DEF StampReceipt, TypeOK
  <2>5. ASSUME NEW m \in Messages, AllStamped(m)', m # receipt[h].of[1] PROVE AllStamped(m)
    <3>1. \A d \in Devices : stamp'[<<m, d>>] = stamp[<<m, d>>]
      BY <1>0, <1>11, <2>1, <2>5 DEF StampReceipt, TypeOK
    <3> QED BY <1>0, <1>11, <2>5, <3>1 DEF StampReceipt, AllStamped, Delivered, TypeOK
  <2>6. Checking(receipt[h].of[1])'
    BY <2>3 DEF Checking
  <2> QED BY <1>11, <2>4, <2>5, <2>6, KeepsTold DEF StampReceipt, Settled
<1>12. ASSUME NEW h \in Handlers, CheckReceipt(h) \/ CrashReceipt(h) PROVE ToldInv'
  <2>1. receipt[h].pc = "check" /\ \A g \in Handlers \ {h} : receipt'[g] = receipt[g]
    BY <1>0, <1>12 DEF CheckReceipt, CrashReceipt, TypeOK
  <2>2. ASSUME NEW m \in Messages, AllStamped(m)' PROVE Settled(m)'
    <3>1. AllStamped(m) /\ Settled(m)
      BY <1>12, <2>2 DEF CheckReceipt, CrashReceipt, AllStamped, Delivered, ToldInv
    <3>2. told \subseteq told' /\ quiet \subseteq quiet'
      BY <1>12 DEF CheckReceipt, CrashReceipt
    <3>3. CASE receipt[h].of[1] = m
      BY <1>12, <3>1, <3>3 DEF CheckReceipt, CrashReceipt, AllStamped, FullyDelivered, Settled
    <3>4. CASE receipt[h].of[1] # m
      BY <2>1, <3>1, <3>2, <3>4 DEF Settled, Checking
    <3> QED BY <3>3, <3>4
  <2>3. RowInv'
    BY <1>0, StepRows
  <2> QED BY <2>2, <2>3 DEF ToldInv
<1>13. CASE UNCHANGED vars
  BY <1>13, KeepsTold DEF vars, AllStamped, Delivered
<1> QED BY <1>0, <1>1, <1>2, <1>3, <1>4, <1>5, <1>6, <1>7, <1>8, <1>9, <1>10, <1>11, <1>12, <1>13, NextSplit
        DEF Messengers, Syncs, Links, Marks, Receipts

\* Every variable has its type in every reachable state, whatever is sent, lost,
\* repeated or collected.
THEOREM TypeCorrect == Spec => []TypeOK
<1>1. TypeInv => TypeOK
  BY DEF TypeInv
<1> QED BY <1>1, InitTypes, StepTypes, PTL DEF Spec

\* When the last of an account's devices has its copy stamped, by receipts that
\* interleave in any order, the sender has been told, unless something other than
\* a receipt settled the message: a sync, a crash or a revocation.
THEOREM LastReceiptReported == Spec => []LastReceiptTells
<1>1. ToldInv => LastReceiptTells
  <2> SUFFICES ASSUME ToldInv, NEW m \in Messages, AllStamped(m), m \notin quiet,
                      \A h \in Handlers : receipt[h] = NoReceipt \/ receipt[h].of[1] # m
               PROVE  m \in told
    BY DEF LastReceiptTells, AllStamped, Delivered
  <2>1. ~Checking(m)
    BY NoneAreOther DEF Checking
  <2> QED BY <2>1 DEF ToldInv, Settled
<1> QED BY <1>1, InitTold, StepTold, PTL DEF Spec
=============================================================================
