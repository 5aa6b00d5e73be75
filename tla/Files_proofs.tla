---------------------------- MODULE Files_proofs ----------------------------
(***************************************************************************)
(* Theorems about Files: its type invariant, that what was accepted can be *)
(* read, and that what was retracted is not served, for any numbers of     *)
(* files, messages, handlers and cleanup jobs, and any requests.           *)
(*                                                                         *)
(* TypeInv adds to the types what a handler knows of its request, and that *)
(* a job's candidates stay retracted or lose their row: Spent.  SoundInv   *)
(* follows one file through its confirmations: unless one failed on the    *)
(* store or met the collection of the slot, what is ready is good, and no  *)
(* handler rejects what is good.  ServedInv explains every served file by  *)
(* a live message, a retraction under way, or one that stopped.            *)
(***************************************************************************)
EXTENDS Files, TLAPS

Confirms == {"head", "hash", "ready", "reject"}

\* What a running handler's record says of its request, whatever others do.
Fits(h) ==
  /\ h \in Handler
  /\ h.pc # "soften" => (h.ask.file = NoFile <=> h.ask.kind = "delete")
  /\ h.pc \in Confirms => h.ask.kind = "confirm"
  /\ h.pc = "insert" => h.ask.kind = "send"
  /\ h.pc \in {"retract", "soften"} => h.ask.kind = "delete"
Running(s) == handler[s].pc # "idle"
HandlersFit == \A s \in Slots : Running(s) => Fits(handler[s])
CollectorsFit == \A c \in Collectors :
  collector[c].pc \in {"erase", "mark", "drop"} => collector[c].file \in FileIds

\* The files a collector took from the retracted ones stay so, or lose their row.
Spent(f) == f \in soft \/ status[f] = "gone"
CandidatesSpent == \A c \in Collectors :
  /\ collector[c].pc \in {"erase", "mark"} => Spent(collector[c].file)
  /\ collector[c].pc \in {"retracted", "erase", "mark"} => \A f \in collector[c].todo : Spent(f)

\* The row of a file that a message refers to exists; so does a collected one.
RowsStand ==
  /\ \A m \in DOMAIN refers : refers[m] # NoFile => status[refers[m]] \notin {"none", "gone"}
  /\ \A f \in hard : status[f] # "gone"
\* A request names a message and a file that were there when it came.
RequestsStand == \A s \in Slots : Running(s) =>
  /\ handler[s].ask.kind = "delete" => Message(s) \in DOMAIN refers
  /\ handler[s].ask.kind # "delete" => File(s) \in mentioned
  /\ handler[s].ask.kind = "confirm" => status[File(s)] # "none"
TypeInv == TypeOK /\ RequestsStand /\ HandlersFit /\ CollectorsFit /\ CandidatesSpent /\ RowsStand

LEMMA IdleIsOther == Idle \notin Handler /\ Idle.pc = "idle" /\ \A h \in Handler : h.pc # "idle"
BY DEF Idle, Handler

LEMMA RunningFacts ==
  ASSUME TypeInv, NEW s \in Slots, handler[s].pc # "idle"
  PROVE  Fits(handler[s]) /\ handler[s] \in Handler /\ Message(s) \in Messages /\ File(s) \in FileIds \cup {NoFile}
         /\ handler[s] # Idle
<1>1. Fits(handler[s]) /\ handler[s] # Idle
  BY IdleIsOther DEF TypeInv, HandlersFit, Running
<1> QED BY <1>1 DEF Fits, Handler, File, Message

LEMMA InitTypes == Init => TypeInv
<1> SUFFICES ASSUME Init PROVE TypeInv
  OBVIOUS
<1>1. left \in [DOMAIN left -> Nat] /\ DOMAIN left \subseteq Asks /\ faults \in 0..MaxFaults
  BY ScenariosOfAsks, FaultsAreNatural DEF Init
<1>2. handler \in [Slots -> {Idle} \cup Handler] /\ collector \in [Collectors -> Collector]
  BY DEF Init, Resting, Collector
<1>3. refers \in [DOMAIN refers -> FileIds \cup {NoFile}] /\ DOMAIN refers = {}
  BY DEF Init
<1>4. HandlersFit /\ CollectorsFit /\ CandidatesSpent
  BY IdleIsOther DEF Init, HandlersFit, CollectorsFit, CandidatesSpent, Running, Resting
<1>5. RequestsStand
  BY IdleIsOther DEF Init, RequestsStand, Running
<1> QED BY <1>1, <1>2, <1>3, <1>4, <1>5 DEF Init, TypeInv, TypeOK, RowsStand

----------------------------------------------------------------------------
\* A step of one handler or of one collector leaves the others alone.
LEMMA HandlerStep ==
  ASSUME TypeInv, NEW s \in Slots, NEW h, h = Idle \/ Fits(h), handler' = [handler EXCEPT ![s] = h]
  PROVE  /\ handler' \in [Slots -> {Idle} \cup Handler] /\ HandlersFit'
         /\ handler'[s] = h /\ \A t \in Slots \ {s} : handler'[t] = handler[t]
<1>1. handler \in [Slots -> {Idle} \cup Handler] /\ h \in {Idle} \cup Handler
  BY DEF TypeInv, TypeOK, Fits
<1>2. handler' \in [Slots -> {Idle} \cup Handler]
  BY <1>1
<1>3. handler'[s] = h /\ \A t \in Slots \ {s} : handler'[t] = handler[t]
  BY <1>1
<1>4. HandlersFit'
  BY <1>3, IdleIsOther DEF TypeInv, HandlersFit, Running
<1> QED BY <1>2, <1>3, <1>4

LEMMA GotoStep ==
  ASSUME TypeInv, NEW s \in Slots, NEW pc, Running(s), handler[s].pc # "soften", Goto(s, pc),
         \/ pc \in Confirms /\ handler[s].ask.kind = "confirm"
         \/ pc = "insert" /\ handler[s].ask.kind = "send"
         \/ pc = "retract" /\ handler[s].ask.kind = "delete"
  PROVE  /\ handler' \in [Slots -> {Idle} \cup Handler] /\ HandlersFit'
         /\ handler'[s].pc = pc /\ handler'[s].ask = handler[s].ask /\ handler'[s] # Idle
         /\ \A t \in Slots \ {s} : handler'[t] = handler[t]
<1>1. Fits(handler[s]) /\ handler[s] \in Handler
  BY RunningFacts DEF Running
<1>2. PICK h : h = [handler[s] EXCEPT !.pc = pc]
  OBVIOUS
<1>3. h \in Handler /\ h.pc = pc /\ h.ask = handler[s].ask
  BY <1>1, <1>2 DEF Handler, Confirms
<1>4. Fits(h) /\ h # Idle
  BY <1>1, <1>3, IdleIsOther DEF Fits, Confirms
<1>5. handler' = [handler EXCEPT ![s] = h]
  BY <1>2 DEF Goto
<1> QED BY <1>3, <1>4, <1>5, HandlerStep

LEMMA ReturnStep ==
  ASSUME TypeInv, NEW s \in Slots, Return(s)
  PROVE  /\ handler' \in [Slots -> {Idle} \cup Handler] /\ HandlersFit'
         /\ handler'[s] = Idle /\ \A t \in Slots \ {s} : handler'[t] = handler[t]
BY HandlerStep DEF Return

LEMMA CollectorStep ==
  ASSUME TypeInv, NEW c \in Collectors, NEW k \in Collector, collector' = [collector EXCEPT ![c] = k],
         k.pc \in {"erase", "mark", "drop"} => k.file \in FileIds
  PROVE  /\ collector' \in [Collectors -> Collector] /\ CollectorsFit'
         /\ collector'[c] = k /\ \A d \in Collectors \ {c} : collector'[d] = collector[d]
<1>1. collector \in [Collectors -> Collector]
  BY DEF TypeInv, TypeOK
<1> QED BY <1>1 DEF TypeInv, CollectorsFit

\* What each collector's step makes of its record.
CollectorActs(c) ==
  \/ SelectRetracted(c) \/ MarkHard(c) \/ SelectAbandoned(c) \/ DropRow(c) \/ EndPass(c) \/ MissWrite(c) \/ Stop(c)
  \/ \E f \in FileIds : Recheck(c, f) \/ \E ok \in BOOLEAN : EraseObject(c, f, ok)

LEMMA CollectorMoves ==
  ASSUME TypeInv, NEW c \in Collectors, CollectorActs(c)
  PROVE  \E k \in Collector :
           /\ collector' = [collector EXCEPT ![c] = k]
           /\ k.pc \in {"erase", "mark", "drop"} => k.file \in FileIds
<1> DEFINE Moved == \E k \in Collector :
             /\ collector' = [collector EXCEPT ![c] = k]
             /\ k.pc \in {"erase", "mark", "drop"} => k.file \in FileIds
<1>1. collector[c] \in Collector
  BY DEF TypeInv, TypeOK
<1>2. CASE SelectRetracted(c)
  <2>1. PICK k : k = [pc |-> "retracted", todo |-> soft \ hard, file |-> NoFile]
    OBVIOUS
  <2>2. k \in Collector /\ k.pc = "retracted"
    BY <2>1 DEF Collector, TypeInv, TypeOK
  <2> QED BY <1>2, <2>1, <2>2 DEF SelectRetracted
<1>3. ASSUME NEW f \in FileIds, Recheck(c, f) PROVE Moved
  <2>1. PICK k : k = IF LiveRefs(f) # {} THEN Continue(c, f)
                     ELSE [pc |-> "erase", todo |-> collector[c].todo \ {f}, file |-> f]
    OBVIOUS
  <2>2. k \in Collector /\ (k.pc = "erase" => k.file \in FileIds) /\ k.pc \in {"retracted", "erase"}
    BY <1>1, <1>3, <2>1 DEF Recheck, Continue, Collector
  <2> QED BY <1>3, <2>1, <2>2 DEF Recheck
<1>4. ASSUME NEW f \in FileIds, NEW ok \in BOOLEAN, EraseObject(c, f, ok) PROVE Moved
  <2>1. PICK k : k = [pc |-> AfterErase(collector[c].pc, ok), todo |-> collector[c].todo \ {f}, file |-> f]
    OBVIOUS
  <2>2. k \in Collector /\ k.file \in FileIds
    BY <1>1, <2>1 DEF AfterErase, Collector
  <2> QED BY <1>4, <2>1, <2>2 DEF EraseObject
<1>5. CASE MarkHard(c)
  <2>1. PICK k : k = [collector[c] EXCEPT !.pc = "retracted", !.file = NoFile]
    OBVIOUS
  <2>2. k \in Collector /\ k.pc = "retracted"
    BY <1>1, <2>1 DEF Collector
  <2> QED BY <1>5, <2>1, <2>2 DEF MarkHard
<1>6. CASE SelectAbandoned(c)
  <2>1. PICK k : k = [pc |-> "abandoned", todo |-> {g \in old : status[g] = "pending"}, file |-> NoFile]
    OBVIOUS
  <2>2. k \in Collector /\ k.pc = "abandoned"
    BY <2>1 DEF Collector, TypeInv, TypeOK
  <2> QED BY <1>6, <2>1, <2>2 DEF SelectAbandoned
<1>7. CASE DropRow(c)
  <2>1. PICK k : k = [collector[c] EXCEPT !.pc = "abandoned", !.file = NoFile]
    OBVIOUS
  <2>2. k \in Collector /\ k.pc = "abandoned"
    BY <1>1, <2>1 DEF Collector
  <2> QED BY <1>7, <2>1, <2>2 DEF DropRow
<1>8. CASE EndPass(c) \/ Stop(c)
  <2>1. Resting \in Collector /\ Resting.pc = "rest"
    BY DEF Resting, Collector
  <2> QED BY <1>8, <2>1 DEF EndPass, Stop
<1>9. CASE MissWrite(c)
  <2>1. PICK k : k = [collector[c] EXCEPT !.pc = IF collector[c].pc = "mark" THEN "retracted" ELSE "abandoned",
                                          !.file = NoFile]
    OBVIOUS
  <2>2. k \in Collector /\ k.pc \in {"retracted", "abandoned"}
    BY <1>1, <2>1 DEF Collector
  <2>3. collector' = [collector EXCEPT ![c] = k]
    BY <1>9, <2>1 DEF MissWrite
  <2> QED BY <2>2, <2>3
<1> QED BY <1>2, <1>3, <1>4, <1>5, <1>6, <1>7, <1>8, <1>9 DEF CollectorActs

----------------------------------------------------------------------------
Clients == \E f \in FileIds : Slot(f) \/ Age(f) \/ \E x \in {"short", "bad", "good"} : Put(f, x)
Requests == \E s \in Slots : Step(s) \/ Fail(s) \/ \E r \in DOMAIN left : Begin(s, r)
Collections == \E c \in Collectors : CollectorActs(c)

LEMMA NextSplit == TypeInv /\ [Next]_vars => Clients \/ Requests \/ Collections \/ UNCHANGED vars
<1> SUFFICES ASSUME TypeInv, [Next]_vars PROVE Clients \/ Requests \/ Collections \/ UNCHANGED vars
  OBVIOUS
<1>1. \A r \in DOMAIN left : r.file \in FileIds \cup {NoFile} /\ (r.kind = "confirm" => r.file # NoFile)
  BY AsksAreRequests DEF TypeInv, TypeOK
<1>2. Used \subseteq FileIds /\ Uploaded \subseteq FileIds
  BY <1>1 DEF Used, Uploaded
<1> QED BY <1>2 DEF Next, Clients, Requests, Collections, Collect, CollectorActs

\* A client's step, and the start of a request.
LEMMA ClientTypes == TypeInv /\ Clients => TypeInv'
<1> SUFFICES ASSUME TypeInv, NEW f \in FileIds,
                    Slot(f) \/ Age(f) \/ \E x \in {"short", "bad", "good"} : Put(f, x)
             PROVE  TypeInv'
  BY DEF Clients
<1> USE DEF rows, history
<1>1. UNCHANGED <<handler, collector, refers, hard>>
  BY DEF Slot, Age, Put
<1>2. HandlersFit' /\ CollectorsFit'
  BY <1>1 DEF TypeInv, HandlersFit, CollectorsFit, Running
<1>3. TypeOK'
  BY DEF Slot, Age, Put, TypeInv, TypeOK
<1>4. RowsStand'
  BY DEF Slot, Age, Put, TypeInv, TypeOK, RowsStand
<1>6. CandidatesSpent'
  <2>1. \A g \in FileIds : Spent(g) => Spent(g)'
    BY DEF Slot, Age, Put, Spent, TypeInv, TypeOK
  <2> QED BY <1>1, <2>1 DEF TypeInv, TypeOK, Collector, CollectorsFit, CandidatesSpent
<1>5. RequestsStand'
  <2> SUFFICES ASSUME NEW s \in Slots, Running(s)
               PROVE  /\ handler[s].ask.kind = "delete" => Message(s) \in DOMAIN refers
                      /\ handler[s].ask.kind # "delete" => File(s) \in mentioned'
                      /\ handler[s].ask.kind = "confirm" => status'[File(s)] # "none"
    BY <1>1 DEF RequestsStand, Running, Message, File
  <2>1. /\ handler[s].ask.kind = "delete" => Message(s) \in DOMAIN refers
        /\ handler[s].ask.kind # "delete" => File(s) \in mentioned
        /\ handler[s].ask.kind = "confirm" => status[File(s)] # "none"
    BY DEF TypeInv, RequestsStand
  <2>2. mentioned' = mentioned
    BY DEF Slot, Age, Put
  <2>3. \A g \in FileIds : status[g] # "none" => status'[g] # "none"
    BY DEF Slot, Age, Put, TypeInv, TypeOK
  <2>4. handler[s].ask.kind = "confirm" => File(s) \in FileIds
    BY <2>1, RunningFacts DEF Running, Fits, File
  <2> QED BY <2>1, <2>2, <2>3, <2>4
<1> QED BY <1>2, <1>3, <1>4, <1>5, <1>6 DEF TypeInv

LEMMA BeginTypes ==
  ASSUME TypeInv, NEW s \in Slots, NEW r \in DOMAIN left, Begin(s, r)
  PROVE  TypeInv' /\ Fits([pc |-> "find", ask |-> r])
<1> USE DEF rows, history
<1>1. r \in Asks
  BY DEF TypeInv, TypeOK
<1>2. Fits([pc |-> "find", ask |-> r])
  BY <1>1, AsksAreRequests DEF Fits, Handler, Confirms
<1>3. handler' \in [Slots -> {Idle} \cup Handler] /\ HandlersFit'
  BY <1>2, HandlerStep DEF Begin
<1>4. left' \in [DOMAIN left' -> Nat] /\ DOMAIN left' \subseteq Asks
  BY DEF Begin, TypeInv, TypeOK
<1>5. mentioned' \subseteq FileIds \cup {NoFile}
  BY <1>1, AsksAreRequests DEF Begin, TypeInv, TypeOK
<1>6. TypeOK'
  BY <1>3, <1>4, <1>5 DEF Begin, TypeInv, TypeOK
<1>7. CollectorsFit' /\ RowsStand' /\ CandidatesSpent'
  BY DEF Begin, TypeInv, CollectorsFit, RowsStand, CandidatesSpent, Spent
<1>8. handler'[s] = [pc |-> "find", ask |-> r] /\ \A t \in Slots \ {s} : handler'[t] = handler[t]
  BY <1>2, HandlerStep DEF Begin
<1>9. RequestsStand'
  BY <1>8 DEF Begin, TypeInv, RequestsStand, Running, File, Message
<1> QED BY <1>2, <1>3, <1>6, <1>7, <1>9 DEF TypeInv

\* What a handler's step does with its record.
SameAsk(a, b) == a.kind = b.kind /\ a.message = b.message /\ (a.kind # "delete" => a.file = b.file)

LEMMA HandlerMoves ==
  ASSUME TypeInv, NEW s \in Slots, Step(s) \/ Fail(s)
  PROVE  /\ Running(s) /\ handler' \in [Slots -> {Idle} \cup Handler] /\ HandlersFit'
         /\ handler'[s] = Idle \/ SameAsk(handler[s].ask, handler'[s].ask)
         /\ \A t \in Slots \ {s} : handler'[t] = handler[t]
<1>1. CASE Fail(s) \/ MarkReady(s) \/ Tombstone(s) \/ InsertMessage(s) \/ SoftDelete(s)
  BY <1>1, ReturnStep DEF Fail, MarkReady, Tombstone, InsertMessage, SoftDelete, At, Running
<1>2. CASE FindSlot(s) \/ Head(s) \/ Hash(s) \/ FindFile(s) \/ FindMessage(s)
  <2>1. Return(s) \/ \E pc : /\ Goto(s, pc) /\ handler[s].pc # "soften"
                             /\ \/ pc \in Confirms /\ handler[s].ask.kind = "confirm"
                                \/ pc = "insert" /\ handler[s].ask.kind = "send"
                                \/ pc = "retract" /\ handler[s].ask.kind = "delete"
    BY <1>2 DEF FindSlot, Head, Hash, FindFile, FindMessage, At, Confirms
  <2>2. Running(s)
    BY <1>2 DEF FindSlot, Head, Hash, FindFile, FindMessage, At, Running
  <2> QED BY <2>1, <2>2, ReturnStep, GotoStep DEF SameAsk
<1>3. CASE Retract(s)
  <2>1. Running(s) /\ Fits(handler[s]) /\ handler[s] \in Handler /\ handler[s].ask.kind = "delete"
    BY <1>3, RunningFacts DEF Retract, At, Running
  <2>2. PICK h : h = [pc |-> "soften", ask |-> [handler[s].ask EXCEPT !.file = refers[Message(s)]]]
    OBVIOUS
  <2>3. refers[Message(s)] \in FileIds \cup {NoFile}
    BY <2>1 DEF TypeInv, TypeOK, RequestsStand
  <2>4. Fits(h) /\ SameAsk(handler[s].ask, h.ask)
    BY <2>1, <2>2, <2>3 DEF Fits, Handler, Confirms, SameAsk
  <2> QED BY <1>3, <2>1, <2>2, <2>4, HandlerStep DEF Retract
<1> QED BY <1>1, <1>2, <1>3 DEF Step

\* No handler's step drops a row or takes a mark from one.
LEMMA HandlerTypes == ASSUME TypeInv, NEW s \in Slots, Step(s) \/ Fail(s) PROVE TypeInv'
<1> USE DEF rows, history
<1>0. /\ Running(s) /\ handler' \in [Slots -> {Idle} \cup Handler] /\ HandlersFit'
      /\ handler'[s] = Idle \/ SameAsk(handler[s].ask, handler'[s].ask)
      /\ \A t \in Slots \ {s} : handler'[t] = handler[t]
  BY HandlerMoves
<1>1. /\ handler[s] \in Handler /\ Message(s) \in Messages /\ File(s) \in FileIds \cup {NoFile}
      /\ handler[s].ask.kind = "delete" => Message(s) \in DOMAIN refers
      /\ handler[s].ask.kind # "delete" /\ handler[s].pc # "soften" => File(s) \in FileIds
  BY <1>0, RunningFacts DEF Running, Fits, TypeInv, RequestsStand, File
<1>2. /\ UNCHANGED <<left, hard, old, object, mentioned, collector>>
      /\ soft \subseteq soft' /\ DOMAIN refers \subseteq DOMAIN refers'
      /\ status' = status \/ \E x \in {"ready", "deleted"} :
           /\ File(s) \in FileIds /\ status[File(s)] # "none"
           /\ status' = [status EXCEPT ![File(s)] = IF status[File(s)] = "gone" THEN "gone" ELSE x]
  <2>1. CASE MarkReady(s) \/ Tombstone(s)
    <3>1. File(s) \in FileIds /\ status[File(s)] # "none"
      BY <1>0, <1>1, <2>1 DEF MarkReady, Tombstone, At, TypeInv, RequestsStand
    <3> QED BY <2>1, <3>1 DEF MarkReady, Tombstone
  <2>2. CASE ~(MarkReady(s) \/ Tombstone(s))
    BY <2>2 DEF Step, Fail, FindSlot, Head, Hash, FindFile, InsertMessage, FindMessage, Retract, SoftDelete
  <2> QED BY <2>1, <2>2
<1>3. \A f \in FileIds : /\ status[f] = "none" <=> status'[f] = "none"
                         /\ status[f] = "gone" <=> status'[f] = "gone"
  BY <1>2 DEF TypeInv, TypeOK
<1>4. RequestsStand'
  <2> SUFFICES ASSUME NEW t \in Slots, Running(t)'
               PROVE  /\ handler'[t].ask.kind = "delete" => handler'[t].ask.message \in DOMAIN refers'
                      /\ handler'[t].ask.kind # "delete" => handler'[t].ask.file \in mentioned'
                      /\ handler'[t].ask.kind = "confirm" => status'[handler'[t].ask.file] # "none"
    BY DEF RequestsStand, File, Message
  <2>1. /\ Running(t) /\ SameAsk(handler[t].ask, handler'[t].ask)
    <3>1. CASE t = s
      BY <1>0, <3>1, IdleIsOther DEF Running
    <3>2. CASE t # s
      BY <1>0, <3>2 DEF Running, SameAsk
    <3> QED BY <3>1, <3>2
  <2>2. /\ handler[t].ask.kind = "delete" => handler[t].ask.message \in DOMAIN refers
        /\ handler[t].ask.kind # "delete" => handler[t].ask.file \in mentioned
        /\ handler[t].ask.kind = "confirm" => status[handler[t].ask.file] # "none"
    BY <2>1 DEF TypeInv, RequestsStand, File, Message
  <2>3. handler[t].ask.kind = "confirm" => handler[t].ask.file \in FileIds
    BY <2>1, RunningFacts DEF Running, Fits, File
  <2> QED BY <1>2, <1>3, <2>1, <2>2, <2>3 DEF SameAsk
<1>5. CollectorsFit' /\ CandidatesSpent'
  <2>1. \A f \in FileIds : Spent(f) => Spent(f)'
    BY <1>2, <1>3 DEF Spent
  <2> QED BY <1>2, <2>1 DEF TypeInv, TypeOK, Collector, CollectorsFit, CandidatesSpent
<1>6. refers' \in [DOMAIN refers' -> FileIds \cup {NoFile}] /\ DOMAIN refers' \subseteq Messages /\ RowsStand'
  <2>1. CASE refers' = refers
    BY <1>2, <1>3, <2>1 DEF TypeInv, TypeOK, RowsStand
  <2>2. CASE refers' # refers
    <3>1. InsertMessage(s)
      BY <2>2 DEF Step, Fail, FindSlot, Head, Hash, MarkReady, Tombstone, FindFile, FindMessage, Retract, SoftDelete
    <3>2. /\ status[File(s)] \notin {"none", "gone"} /\ File(s) \in FileIds /\ status' = status
          /\ refers' = [n \in DOMAIN refers \cup {Message(s)} |-> IF n = Message(s) THEN File(s) ELSE refers[n]]
      BY <1>1, <2>2, <3>1 DEF InsertMessage, At
    <3> QED BY <1>1, <1>2, <3>2 DEF TypeInv, TypeOK, RowsStand
  <2> QED BY <2>1, <2>2
<1>7. /\ soft' \subseteq FileIds /\ retracted' \subseteq DOMAIN refers' /\ faults' \in 0..MaxFaults
      /\ whole' \subseteq Messages \X FileIds /\ misread' \cup caught' \subseteq FileIds /\ cut' \subseteq Messages
  <2>1. CASE FindSlot(s) \/ Head(s) \/ MarkReady(s) \/ FindFile(s) \/ FindMessage(s)
    BY <1>1, <2>1 DEF FindSlot, Head, MarkReady, FindFile, FindMessage, At, TypeInv, TypeOK
  <2>2. CASE Hash(s)
    BY <1>1, <2>2, FaultsAreNatural DEF Hash, At, TypeInv, TypeOK
  <2>3. CASE Tombstone(s)
    BY <1>1, <2>3 DEF Tombstone, At, TypeInv, TypeOK
  <2>4. CASE InsertMessage(s)
    <3>1. File(s) \in FileIds
      BY <1>1, <2>4 DEF InsertMessage, At
    <3> QED BY <1>1, <1>2, <2>4, <3>1 DEF InsertMessage, TypeInv, TypeOK
  <2>5. CASE Retract(s)
    BY <1>1, <2>5 DEF Retract, At, TypeInv, TypeOK
  <2>6. CASE SoftDelete(s)
    BY <1>1, <2>6 DEF SoftDelete, TypeInv, TypeOK
  <2>7. CASE Fail(s)
    BY <1>1, <2>7, FaultsAreNatural DEF Fail, TypeInv, TypeOK
  <2> QED BY <2>1, <2>2, <2>3, <2>4, <2>5, <2>6, <2>7 DEF Step
<1>8. TypeOK'
  BY <1>0, <1>2, <1>6, <1>7 DEF TypeInv, TypeOK
<1> QED BY <1>0, <1>4, <1>5, <1>6, <1>8 DEF TypeInv

\* A collector drops rows, and takes up only what is spent.
LEMMA CollectorTypes ==
  ASSUME TypeInv, NEW c \in Collectors, CollectorActs(c)
  PROVE  /\ TypeInv'
         /\ \E k \in Collector : collector' = [collector EXCEPT ![c] = k] /\ collector'[c] = k
         /\ \A d \in Collectors \ {c} : collector'[d] = collector[d]
<1> USE DEF rows, history
<1>1. PICK k \in Collector : /\ collector' = [collector EXCEPT ![c] = k]
                             /\ k.pc \in {"erase", "mark", "drop"} => k.file \in FileIds
  BY CollectorMoves DEF CollectorActs
<1>2. /\ collector' \in [Collectors -> Collector] /\ CollectorsFit'
      /\ collector'[c] = k /\ \A d \in Collectors \ {c} : collector'[d] = collector[d]
  BY <1>1, CollectorStep
<1>3. /\ UNCHANGED <<left, handler, old, mentioned, retracted, whole, misread, cut>>
      /\ DOMAIN refers' = DOMAIN refers
      /\ \A m \in DOMAIN refers : refers'[m] \in {refers[m], NoFile}
      /\ \A g \in FileIds : \/ status'[g] = status[g]
                            \/ status'[g] = "gone" /\ \A m \in DOMAIN refers : refers'[m] # g
      /\ \A g \in FileIds : Spent(g) => Spent(g)'
      /\ soft' \subseteq soft /\ status' \in [FileIds -> {"none", "pending", "ready", "deleted", "gone"}]
  <2>1. CASE DropRow(c)
    <3>1. /\ collector[c].file \in FileIds /\ collector[c].file # NoFile
          /\ refers \in [DOMAIN refers -> FileIds \cup {NoFile}]
      BY <2>1, NoneAreOther DEF DropRow, TypeInv, CollectorsFit, TypeOK
    <3> QED BY <2>1, <3>1 DEF DropRow, TypeInv, TypeOK, Spent
  <2>2. CASE ~DropRow(c)
    <3>1. UNCHANGED <<left, handler, old, mentioned, retracted, refers, status, soft, whole, misread, cut>>
      BY <2>2 DEF CollectorActs, SelectRetracted, Recheck, EraseObject, MarkHard, SelectAbandoned, EndPass,
                  MissWrite, Stop
    <3> QED BY <3>1 DEF Spent, TypeInv, TypeOK
  <2> QED BY <2>1, <2>2
<1>4. /\ hard' \subseteq soft' /\ \A g \in hard' : status'[g] # "gone"
  <2>1. CASE DropRow(c)
    BY <2>1 DEF DropRow, TypeInv, TypeOK, RowsStand, CollectorsFit
  <2>2. CASE MarkHard(c)
    <3>1. Spent(collector[c].file)
      BY <2>2 DEF MarkHard, TypeInv, CandidatesSpent
    <3> QED BY <2>2, <3>1 DEF MarkHard, TypeInv, TypeOK, RowsStand, Spent
  <2>3. CASE ~DropRow(c) /\ ~MarkHard(c)
    <3>1. UNCHANGED <<hard, soft, status>>
      BY <2>3 DEF CollectorActs, SelectRetracted, Recheck, EraseObject, SelectAbandoned, EndPass, MissWrite, Stop
    <3> QED BY <3>1 DEF TypeInv, TypeOK, RowsStand
  <2> QED BY <2>1, <2>2, <2>3
<1>5. object' \in [FileIds -> {"none", "short", "bad", "good"}] /\ caught' \subseteq FileIds /\ faults' \in 0..MaxFaults
  <2>1. CASE \E f \in FileIds, ok \in BOOLEAN : EraseObject(c, f, ok)
    BY <2>1, FaultsAreNatural DEF EraseObject, TypeInv, TypeOK
  <2>2. CASE SelectAbandoned(c)
    BY <2>2 DEF SelectAbandoned, TypeInv, TypeOK
  <2>3. CASE MissWrite(c) \/ Stop(c)
    BY <2>3, FaultsAreNatural DEF MissWrite, Stop, TypeInv, TypeOK
  <2>4. CASE SelectRetracted(c) \/ (\E f \in FileIds : Recheck(c, f)) \/ MarkHard(c) \/ DropRow(c) \/ EndPass(c)
    BY <2>4 DEF SelectRetracted, Recheck, MarkHard, DropRow, EndPass, TypeInv, TypeOK
  <2> QED BY <2>1, <2>2, <2>3, <2>4 DEF CollectorActs
<1>6. refers' \in [DOMAIN refers' -> FileIds \cup {NoFile}]
  <2>1. refers' = [m \in DOMAIN refers' |-> refers'[m]]
    BY DEF CollectorActs, DropRow, SelectRetracted, Recheck, EraseObject, MarkHard, SelectAbandoned, EndPass,
           MissWrite, Stop, TypeInv, TypeOK
  <2> QED BY <1>3, <2>1 DEF TypeInv, TypeOK
<1>7. TypeOK'
  BY <1>2, <1>3, <1>4, <1>5, <1>6 DEF TypeInv, TypeOK
<1>8. RowsStand'
  <2>1. \A m \in DOMAIN refers : refers[m] # NoFile => refers[m] \in FileIds
    BY DEF TypeInv, TypeOK
  <2> QED BY <1>3, <1>4, <2>1 DEF TypeInv, RowsStand
<1>9. HandlersFit' /\ RequestsStand'
  <2>1. \A s \in Slots : Running(s) /\ handler[s].ask.kind = "confirm" => File(s) \in FileIds
    BY RunningFacts DEF Running, Fits, File
  <2> QED BY <1>3, <2>1 DEF TypeInv, HandlersFit, RequestsStand, Running, File, Message
<1>10. CandidatesSpent'
  <2>1. \A d \in Collectors \ {c} : /\ collector[d].pc \in {"erase", "mark"} => collector[d].file \in FileIds
                                    /\ collector[d].todo \subseteq FileIds
    BY DEF TypeInv, TypeOK, CollectorsFit, Collector
  <2>2. /\ k.pc \in {"erase", "mark"} => Spent(k.file)
        /\ k.pc \in {"retracted", "erase", "mark"} => \A g \in k.todo : Spent(g)
    <3>0. collector[c] \in Collector
      BY DEF TypeInv, TypeOK
    <3>1. CASE SelectRetracted(c)
      BY <1>2, <3>1 DEF SelectRetracted, Spent, TypeInv, TypeOK
    <3>2. CASE \E f \in FileIds : Recheck(c, f)
      BY <1>2, <3>0, <3>2 DEF Recheck, Continue, Collector, TypeInv, TypeOK, CandidatesSpent
    <3>3. CASE \E f \in FileIds, ok \in BOOLEAN : EraseObject(c, f, ok)
      BY <1>2, <3>0, <3>3 DEF EraseObject, AfterErase, TypeInv, TypeOK, CandidatesSpent
    <3>4. CASE MarkHard(c) \/ MissWrite(c)
      BY <1>2, <3>0, <3>4 DEF MarkHard, MissWrite, Collector, TypeInv, TypeOK, CandidatesSpent
    <3>5. CASE SelectAbandoned(c) \/ DropRow(c) \/ EndPass(c) \/ Stop(c)
      BY <1>2, <3>0, <3>5 DEF SelectAbandoned, DropRow, EndPass, Stop, Resting, Collector, TypeInv, TypeOK
    <3> QED BY <3>1, <3>2, <3>3, <3>4, <3>5 DEF CollectorActs
  <2>3. /\ k.pc \in {"erase", "mark"} => k.file \in FileIds
        /\ k.todo \subseteq FileIds
    BY <1>1 DEF Collector
  <2>4. \A d \in Collectors : /\ collector'[d].pc \in {"erase", "mark"} => Spent(collector'[d].file)
                              /\ collector'[d].pc \in {"retracted", "erase", "mark"} =>
                                   \A g \in collector'[d].todo : Spent(g)
    BY <1>2, <2>2 DEF TypeInv, CandidatesSpent
  <2>5. \A d \in Collectors : /\ collector'[d].pc \in {"erase", "mark"} => collector'[d].file \in FileIds
                              /\ collector'[d].todo \subseteq FileIds
    BY <1>2, <2>1, <2>3
  <2> QED BY <1>3, <2>4, <2>5 DEF CandidatesSpent, Spent
<1>11. TypeInv'
  BY <1>7, <1>8, <1>9, <1>10, <1>2 DEF TypeInv
<1> QED BY <1>1, <1>2, <1>11

LEMMA StepTypes == TypeInv /\ [Next]_vars => TypeInv'
<1> SUFFICES ASSUME TypeInv, [Next]_vars PROVE TypeInv'
  OBVIOUS
<1>1. CASE UNCHANGED vars
  BY <1>1 DEF vars, rows, history, TypeInv, TypeOK, HandlersFit, CollectorsFit, RequestsStand, CandidatesSpent,
              RowsStand, Running, File, Message, Spent
<1> QED BY <1>1, NextSplit, ClientTypes, BeginTypes, HandlerTypes, CollectorTypes DEF Requests, Collections

----------------------------------------------------------------------------
\* What holds of a file whose confirmations and collection did not meet.
Good(f) == Streams /\ object[f] = "good"
NotConfirmed(f) == \A s \in Slots : handler[s].pc \in Confirms => File(s) # f
CollectedAlone(f) == Collecting(f) # {} => status[f] # "ready" /\ NotConfirmed(f)
ReadyIsGood(f) == status[f] = "ready" => Spent(f) \/ Good(f)
AcceptIsGood(f) == \A s \in Slots : handler[s].pc = "ready" /\ File(s) = f => Spent(f) \/ Good(f)
RejectIsBad(f) == f \notin misread => \A s \in Slots : handler[s].pc = "reject" /\ File(s) = f => ~Good(f)
Sound(f) == CollectedAlone(f) /\ ReadyIsGood(f) /\ AcceptIsGood(f) /\ RejectIsBad(f)

\* A message inserted while its file was ready still refers to it, ready.
WholeStands == \A w \in whole : w[1] \notin retracted /\ w[2] \notin misread \cup caught =>
  w[1] \in DOMAIN refers /\ refers[w[1]] = w[2] /\ status[w[2]] = "ready" /\ ~Spent(w[2])
SoundInv == TypeInv /\ (\A f \in FileIds \ caught : Sound(f)) /\ WholeStands

LEMMA InitSound == Init => SoundInv
<1> SUFFICES ASSUME Init PROVE SoundInv
  OBVIOUS
<1>1. (\A s \in Slots : handler[s].pc = "idle") /\ (\A c \in Collectors : collector[c].pc = "rest")
  BY IdleIsOther DEF Init, Resting
<1>2. \A f \in FileIds : Sound(f)
  BY <1>1 DEF Init, Sound, CollectedAlone, ReadyIsGood, AcceptIsGood, RejectIsBad, NotConfirmed, Collecting, Confirms
<1> QED BY <1>2, InitTypes DEF Init, SoundInv, WholeStands

\* Most steps take no handler further into a confirmation of f.
NoFurther(f) == \A s \in Slots : handler'[s].pc \in Confirms /\ handler'[s].ask.file = f =>
  /\ handler[s].pc \in Confirms /\ handler[s].ask.file = f
  /\ handler'[s].pc \in {"ready", "reject"} => handler'[s].pc = handler[s].pc

LEMMA SoundKept ==
  ASSUME NEW f, Sound(f), Collecting(f)' \subseteq Collecting(f), status'[f] = "ready" => status[f] = "ready",
         Spent(f) => Spent(f)', object'[f] = object[f], misread \subseteq misread', NoFurther(f)
  PROVE  Sound(f)'
<1>1. NotConfirmed(f) => NotConfirmed(f)'
  BY DEF NoFurther, NotConfirmed, File
<1>2. CollectedAlone(f)'
  BY <1>1 DEF Sound, CollectedAlone
<1>3. ReadyIsGood(f)'
  BY DEF Sound, ReadyIsGood, Good
<1>4. AcceptIsGood(f)'
  BY DEF Sound, AcceptIsGood, NoFurther, Good, File, Confirms
<1>5. RejectIsBad(f)'
  BY DEF Sound, RejectIsBad, NoFurther, Good, File, Confirms
<1> QED BY <1>2, <1>3, <1>4, <1>5 DEF Sound

LEMMA ClientSound == SoundInv /\ Clients => SoundInv'
<1> SUFFICES ASSUME SoundInv, NEW g \in FileIds,
                    Slot(g) \/ Age(g) \/ \E x \in {"short", "bad", "good"} : Put(g, x)
             PROVE  SoundInv'
  BY DEF Clients
<1> USE DEF rows, history
<1>1. TypeInv /\ TypeInv'
  BY ClientTypes DEF SoundInv, Clients
<1>2. UNCHANGED <<handler, collector, soft, refers, retracted, whole, misread, caught>>
  BY DEF Slot, Age, Put
<1>3. /\ \A f \in FileIds : /\ status'[f] = "ready" <=> status[f] = "ready"
                            /\ Spent(f)' <=> Spent(f)
  BY <1>1, <1>2 DEF Slot, Age, Put, Spent, TypeInv, TypeOK
<1>4. WholeStands'
  BY <1>1, <1>2, <1>3 DEF SoundInv, WholeStands, TypeInv, TypeOK
<1>5. ASSUME NEW f \in FileIds \ caught PROVE Sound(f)'
  <2>1. Sound(f) /\ Collecting(f)' = Collecting(f) /\ NoFurther(f)
    BY <1>2 DEF SoundInv, Collecting, NoFurther
  <2>2. CASE object'[f] = object[f]
    BY <1>2, <1>3, <2>1, <2>2, SoundKept
  <2>3. CASE object'[f] # object[f]
    <3>1. f \notin mentioned /\ object[f] # "good"
      BY <1>1, <2>3 DEF Slot, Age, Put, TypeInv, TypeOK
    <3>2. NotConfirmed(f)
      <4> SUFFICES ASSUME NEW s \in Slots, handler[s].pc \in Confirms PROVE File(s) # f
        BY DEF NotConfirmed
      <4>1. Running(s) /\ handler[s].ask.kind = "confirm"
        BY <1>1, RunningFacts DEF Running, Fits, Confirms
      <4> QED BY <1>1, <3>1, <4>1 DEF TypeInv, RequestsStand
    <3>3. NotConfirmed(f)'
      BY <1>2, <3>2 DEF NotConfirmed, File
    <3> QED BY <1>2, <1>3, <2>1, <3>1, <3>3
            DEF Sound, CollectedAlone, ReadyIsGood, AcceptIsGood, RejectIsBad, NotConfirmed, Good, Confirms
  <2> QED BY <2>2, <2>3
<1> QED BY <1>1, <1>2, <1>4, <1>5 DEF SoundInv

\* The record of the handler that steps is the only one to look at.
LEMMA OnlyOneMoves ==
  ASSUME NEW s \in Slots, NEW f, \A t \in Slots \ {s} : handler'[t] = handler[t],
         handler'[s].pc \in Confirms /\ handler'[s].ask.file = f =>
           /\ handler[s].pc \in Confirms /\ handler[s].ask.file = f
           /\ handler'[s].pc \in {"ready", "reject"} => handler'[s].pc = handler[s].pc
  PROVE  NoFurther(f)
BY DEF NoFurther

LEMMA BeginSound ==
  ASSUME SoundInv, NEW s \in Slots, NEW r \in DOMAIN left, Begin(s, r)
  PROVE  SoundInv'
<1> USE DEF rows, history
<1>1. TypeInv /\ TypeInv' /\ Fits([pc |-> "find", ask |-> r])
  BY BeginTypes DEF SoundInv
<1>2. handler'[s].pc = "find" /\ \A t \in Slots \ {s} : handler'[t] = handler[t]
  BY <1>1, HandlerStep DEF Begin
<1>3. UNCHANGED <<collector, status, soft, refers, retracted, object, whole, misread, caught>>
  BY DEF Begin
<1>4. \A f \in FileIds : NoFurther(f)
  BY <1>2, OnlyOneMoves DEF Confirms
<1>5. \A f \in FileIds : Collecting(f)' = Collecting(f) /\ Spent(f)' = Spent(f)
  BY <1>3 DEF Collecting, Spent
<1> QED BY <1>1, <1>3, <1>4, <1>5, SoundKept DEF SoundInv, WholeStands, Spent

\* The file a confirming handler is about.
LEMMA ConfirmFacts ==
  ASSUME TypeInv, NEW s \in Slots, handler[s].pc \in Confirms
  PROVE  Running(s) /\ handler[s].ask.kind = "confirm" /\ File(s) \in FileIds
BY RunningFacts DEF Running, Fits, Confirms, File

\* A handler that reads does not touch the tables.
LEMMA ReaderSound ==
  ASSUME SoundInv, NEW s \in Slots, FindSlot(s) \/ Head(s) \/ Hash(s) \/ FindFile(s) \/ FindMessage(s)
  PROVE  SoundInv'
<1> USE DEF rows, history
<1>1. TypeInv /\ TypeInv' /\ Running(s) /\ Fits(handler[s])
  BY HandlerTypes, HandlerMoves, RunningFacts DEF SoundInv, Step, Running
<1>2. /\ UNCHANGED <<collector, status, soft, refers, retracted, object, whole>>
      /\ misread \subseteq misread' /\ caught \subseteq caught'
  BY DEF FindSlot, Head, Hash, FindFile, FindMessage
<1>3. \A f \in FileIds : Collecting(f)' = Collecting(f) /\ Spent(f)' = Spent(f)
  BY <1>2 DEF Collecting, Spent
<1>4. \A t \in Slots \ {s} : handler'[t] = handler[t]
  BY <1>1, HandlerMoves DEF Step
<1>5. ASSUME NEW pc, Goto(s, pc), pc \in Confirms \cup {"insert", "retract"} PROVE handler'[s].pc = pc /\ handler'[s].ask.file = File(s)
  BY <1>1, <1>5 DEF Goto, TypeInv, TypeOK, Handler, Fits, File
<1>6. Return(s) => handler'[s].pc = "idle"
  BY <1>1, ReturnStep, IdleIsOther
<1>7. WholeStands'
  BY <1>2 DEF SoundInv, WholeStands, Spent
<1>8. ASSUME NEW f \in FileIds \ caught' PROVE Sound(f)'
  <2>0. f \in FileIds \ caught /\ Sound(f)
    BY <1>2, <1>8 DEF SoundInv
  <2>1. CASE NoFurther(f)
    BY <1>2, <1>3, <2>0, <2>1, SoundKept
  <2>2. CASE ~NoFurther(f)
    <3>1. handler'[s].pc \in Confirms /\ handler'[s].ask.file = f
      BY <1>4, <2>2, OnlyOneMoves
    <3>2. File(s) = f /\ handler[s].ask.kind = "confirm" /\ (FindSlot(s) \/ Head(s) \/ Hash(s))
      BY <1>5, <1>6, <3>1 DEF FindSlot, Head, Hash, FindFile, FindMessage, At, Confirms
    <3>3. CASE FindSlot(s)
      <4>1. handler'[s].pc = "head" /\ Collecting(f) = {}
        BY <1>5, <1>6, <1>8, <3>1, <3>2, <3>3 DEF FindSlot, Confirms
      <4> QED BY <1>2, <1>3, <1>4, <2>0, <4>1
              DEF Sound, CollectedAlone, ReadyIsGood, AcceptIsGood, RejectIsBad, Good, Spent, File
    <3>4. CASE Head(s)
      <4>1. handler'[s].pc = "hash" /\ handler[s].pc = "head"
        BY <1>5, <1>6, <3>1, <3>4 DEF Head, At, Confirms
      <4> QED BY <1>4, <2>2, <3>1, <3>2, <4>1, OnlyOneMoves DEF Confirms, File
    <3>5. CASE Hash(s)
      <4>1. handler[s].pc = "hash" /\ Collecting(f)' = {}
        BY <1>3, <2>0, <3>2, <3>5 DEF Hash, At, Sound, CollectedAlone, NotConfirmed, Confirms
      <4>2. \/ handler'[s].pc = "ready" /\ Good(f)
            \/ handler'[s].pc = "reject" /\ (~Good(f) \/ f \in misread')
        BY <1>5, <3>2, <3>5 DEF Hash, Intact, Good, Confirms
      <4> QED BY <1>2, <1>3, <1>4, <2>0, <3>1, <4>1, <4>2
              DEF Sound, CollectedAlone, ReadyIsGood, AcceptIsGood, RejectIsBad, Good, Spent, File
    <3> QED BY <3>2, <3>3, <3>4, <3>5
  <2> QED BY <2>1, <2>2
<1> QED BY <1>1, <1>7, <1>8 DEF SoundInv

\* A handler that writes leaves the files of others' confirmations as they are.
LEMMA WriterSound ==
  ASSUME SoundInv, NEW s \in Slots,
         MarkReady(s) \/ Tombstone(s) \/ InsertMessage(s) \/ Retract(s) \/ SoftDelete(s) \/ Fail(s)
  PROVE  SoundInv'
<1> USE DEF rows, history
<1>1. TypeInv /\ TypeInv' /\ Running(s) /\ Fits(handler[s])
  BY HandlerTypes, HandlerMoves, RunningFacts DEF SoundInv, Step, Running
<1>2. UNCHANGED <<collector, object, misread, caught>>
  BY DEF MarkReady, Tombstone, InsertMessage, Retract, SoftDelete, Fail
<1>3. \A t \in Slots \ {s} : handler'[t] = handler[t]
  BY <1>1, HandlerMoves DEF Step
<1>4. handler'[s].pc \notin Confirms
  <2>1. CASE Retract(s)
    BY <1>1, <2>1 DEF Retract, Confirms, TypeInv, TypeOK
  <2>2. CASE ~Retract(s)
    <3>1. Return(s)
      BY <2>2 DEF MarkReady, Tombstone, InsertMessage, SoftDelete, Fail
    <3> QED BY <1>1, <3>1, ReturnStep, IdleIsOther DEF Confirms
  <2> QED BY <2>1, <2>2
<1>5. \A f \in FileIds : NoFurther(f) /\ Collecting(f)' = Collecting(f)
  BY <1>2, <1>3, <1>4, OnlyOneMoves DEF Collecting
<1>6. CASE MarkReady(s)
  <2>1. PICK g \in FileIds : g = File(s)
    BY <1>1, <1>6, ConfirmFacts DEF MarkReady, At, Confirms
  <2>2. /\ status' = [status EXCEPT ![g] = IF status[g] = "gone" THEN "gone" ELSE "ready"]
        /\ UNCHANGED <<soft, refers, retracted, whole>>
    BY <1>6, <2>1 DEF MarkReady
  <2>3. \A f \in FileIds : Spent(f)' = Spent(f)
    BY <1>1, <2>2 DEF Spent, TypeInv, TypeOK
  <2>4. WholeStands'
    BY <1>1, <1>2, <2>2, <2>3 DEF SoundInv, WholeStands, Spent, TypeInv, TypeOK
  <2>5. ASSUME NEW f \in FileIds \ caught PROVE Sound(f)'
    <3>1. CASE f # g
      BY <1>1, <1>2, <1>5, <2>2, <2>3, <2>5, <3>1, SoundKept DEF SoundInv, TypeInv, TypeOK
    <3>2. CASE f = g
      <4>1. Sound(f) /\ handler[s].pc = "ready" /\ File(s) = f
        BY <1>6, <2>1, <2>5, <3>2 DEF SoundInv, MarkReady, At
      <4>2. Collecting(f)' = {} /\ (Spent(f)' \/ Good(f)')
        BY <1>2, <1>5, <2>3, <2>5, <4>1 DEF Sound, CollectedAlone, NotConfirmed, AcceptIsGood, Confirms, Good
      <4> QED BY <1>2, <1>5, <2>3, <2>5, <4>1, <4>2
              DEF Sound, CollectedAlone, ReadyIsGood, AcceptIsGood, RejectIsBad, NoFurther, Good, File, Confirms
    <3> QED BY <3>1, <3>2
  <2> QED BY <1>1, <1>2, <2>4, <2>5 DEF SoundInv
<1>7. CASE Tombstone(s)
  <2>1. PICK g \in FileIds : g = File(s)
    BY <1>1, <1>7, ConfirmFacts DEF Tombstone, At, Confirms
  <2>2. /\ status' = [status EXCEPT ![g] = IF status[g] = "gone" THEN "gone" ELSE "deleted"]
        /\ soft' = IF status[g] = "gone" THEN soft ELSE soft \cup {g}
        /\ UNCHANGED <<refers, retracted, whole>>
    BY <1>7, <2>1 DEF Tombstone
  <2>3. \A f \in FileIds : /\ status'[f] = "ready" => status[f] = "ready"
                           /\ Spent(f) => Spent(f)'
                           /\ f # g => Spent(f)' = Spent(f) /\ status'[f] = status[f]
    BY <1>1, <2>2 DEF Spent, TypeInv, TypeOK
  <2>4. \A f \in FileIds \ caught : Sound(f)'
    BY <1>2, <1>5, <2>3, SoundKept DEF SoundInv
  <2>5. ASSUME NEW w \in whole, w[1] \notin retracted, w[2] \notin misread \cup caught PROVE w[2] # g
    <3>1. w[2] \in FileIds /\ status[w[2]] = "ready" /\ ~Spent(w[2]) /\ Sound(w[2])
      BY <1>1, <2>5 DEF SoundInv, WholeStands, TypeInv, TypeOK
    <3>2. Good(w[2])
      BY <3>1 DEF Sound, ReadyIsGood
    <3> QED BY <1>7, <2>1, <2>5, <3>1, <3>2 DEF Sound, RejectIsBad, Tombstone, At
  <2>6. WholeStands'
    BY <1>1, <1>2, <2>2, <2>3, <2>5 DEF SoundInv, WholeStands, TypeInv, TypeOK
  <2> QED BY <1>1, <1>2, <2>4, <2>6 DEF SoundInv
<1>8. CASE InsertMessage(s) \/ Retract(s) \/ Fail(s)
  <2>1. status' = status /\ soft' = soft /\ retracted \subseteq retracted'
    BY <1>8 DEF InsertMessage, Retract, Fail
  <2>2. \A f \in FileIds \ caught : Sound(f)'
    BY <1>2, <1>5, <2>1, SoundKept DEF SoundInv, Spent
  <2>3. ASSUME NEW w \in whole', w[1] \notin retracted', w[2] \notin misread' \cup caught'
        PROVE  w[1] \in DOMAIN refers' /\ refers'[w[1]] = w[2] /\ status[w[2]] = "ready" /\ ~Spent(w[2])
    <3>1. CASE w \in whole
      <4>1. w[1] \in DOMAIN refers /\ refers[w[1]] = w[2] /\ status[w[2]] = "ready" /\ ~Spent(w[2])
        BY <1>2, <2>1, <2>3, <3>1 DEF SoundInv, WholeStands
      <4> QED BY <1>8, <4>1 DEF InsertMessage, Retract, Fail
    <3>2. CASE w \notin whole
      <4>1. InsertMessage(s) /\ w = <<Message(s), File(s)>> /\ status[File(s)] = "ready" /\ File(s) \notin soft
        BY <1>8, <2>3, <3>2 DEF InsertMessage, Retract, Fail
      <4>2. refers' = [n \in DOMAIN refers \cup {Message(s)} |-> IF n = Message(s) THEN File(s) ELSE refers[n]]
        BY <2>3, <3>2, <4>1 DEF InsertMessage
      <4> QED BY <4>1, <4>2 DEF Spent
    <3> QED BY <3>1, <3>2
  <2> QED BY <1>1, <1>2, <2>1, <2>2, <2>3 DEF SoundInv, WholeStands, Spent
<1>9. CASE SoftDelete(s)
  <2>1. /\ UNCHANGED <<status, refers, retracted, whole>>
        /\ soft' = soft \/ (soft' = soft \cup {File(s)} /\ LiveRefs(File(s)) = {})
    BY <1>9 DEF SoftDelete
  <2>2. \A f \in FileIds \ caught : Sound(f)'
    BY <1>2, <1>5, <2>1, SoundKept DEF SoundInv, Spent
  <2>3. WholeStands'
    BY <1>1, <1>2, <2>1 DEF SoundInv, WholeStands, Spent, LiveRefs, TypeInv, TypeOK
  <2> QED BY <1>1, <1>2, <2>2, <2>3 DEF SoundInv
<1> QED BY <1>6, <1>7, <1>8, <1>9

\* A collector takes the object of a spent file, or of one collected alone.
LEMMA CollectorSound ==
  ASSUME SoundInv, NEW c \in Collectors, CollectorActs(c)
  PROVE  SoundInv'
<1> USE DEF rows, history
<1>1. /\ TypeInv /\ TypeInv'
      /\ \E k \in Collector : collector' = [collector EXCEPT ![c] = k] /\ collector'[c] = k
      /\ \A d \in Collectors \ {c} : collector'[d] = collector[d]
  BY CollectorTypes DEF SoundInv
<1>2. UNCHANGED <<handler, retracted, whole, misread>> /\ caught \subseteq caught'
  BY DEF CollectorActs, SelectRetracted, Recheck, EraseObject, MarkHard, SelectAbandoned, DropRow, EndPass,
         MissWrite, Stop
<1>3. \A f \in FileIds : NoFurther(f)
  BY <1>2 DEF NoFurther
<1>4. collector[c] \in Collector
  BY <1>1 DEF TypeInv, TypeOK
<1>5. ~SelectAbandoned(c) => \A f \in FileIds : Collecting(f)' \subseteq Collecting(f)
  <2> SUFFICES ASSUME ~SelectAbandoned(c), NEW f \in FileIds, c \in Collecting(f)' PROVE c \in Collecting(f)
    BY <1>1 DEF Collecting
  <2>1. collector'[c].pc \in {"abandoned", "drop"} /\ (f \in collector'[c].todo \/ collector'[c].file = f)
    BY DEF Collecting
  <2>2. PICK k \in Collector : collector' = [collector EXCEPT ![c] = k] /\ collector'[c] = k
    BY <1>1
  <2>3. CASE \E g \in FileIds, ok \in BOOLEAN : EraseObject(c, g, ok)
    BY <1>1, <1>4, <2>1, <2>3 DEF EraseObject, AfterErase, Collecting, TypeInv, TypeOK
  <2>4. CASE MissWrite(c) \/ DropRow(c)
    BY <1>1, <1>4, <2>1, <2>4, NoneAreOther DEF MissWrite, DropRow, Collecting, Collector, TypeInv, TypeOK
  <2>5. CASE SelectRetracted(c) \/ MarkHard(c) \/ EndPass(c) \/ Stop(c) \/ \E g \in FileIds : Recheck(c, g)
    <3>0. collector \in [Collectors -> Collector]
      BY <1>1 DEF TypeInv, TypeOK
    <3>1. collector'[c].pc \in {"rest", "retracted", "erase"}
      <4>1. CASE SelectRetracted(c) \/ EndPass(c) \/ Stop(c)
        BY <3>0, <4>1 DEF SelectRetracted, EndPass, Stop, Resting
      <4>2. CASE MarkHard(c)
        BY <1>4, <3>0, <4>2 DEF MarkHard, Collector
      <4>3. CASE \E g \in FileIds : Recheck(c, g)
        BY <1>4, <3>0, <4>3 DEF Recheck, Continue, Collector
      <4> QED BY <2>5, <4>1, <4>2, <4>3
    <3> QED BY <2>1, <3>1
  <2> QED BY <2>3, <2>4, <2>5 DEF CollectorActs
<1>6. CASE \E g \in FileIds, ok \in BOOLEAN : EraseObject(c, g, ok)
  <2>1. PICK g \in FileIds, ok \in BOOLEAN : EraseObject(c, g, ok)
    BY <1>6
  <2>2. UNCHANGED <<status, soft, refers, caught>> /\ ~SelectAbandoned(c)
    BY <2>1 DEF EraseObject, SelectAbandoned
  <2>3. \A f \in FileIds : Spent(f)' = Spent(f) /\ (f # g => object'[f] = object[f]) /\ (Good(f)' => Good(f))
    BY <1>1, <2>1, <2>2 DEF EraseObject, Spent, Good, TypeInv, TypeOK
  <2>4. Spent(g) \/ Collecting(g) # {}
    BY <1>1, <2>1 DEF EraseObject, TypeInv, CandidatesSpent, Collecting
  <2>5. ASSUME NEW f \in FileIds \ caught PROVE Sound(f)'
    <3>1. CASE f # g
      BY <1>2, <1>3, <1>5, <2>2, <2>3, <2>5, <3>1, SoundKept DEF SoundInv
    <3>2. CASE f = g
      <4>1. Sound(g) /\ NotConfirmed(g)' = NotConfirmed(g) /\ Collecting(g)' \subseteq Collecting(g)
        BY <1>2, <1>5, <2>2, <2>5, <3>2 DEF SoundInv, NotConfirmed, File
      <4>2. CollectedAlone(g)'
        BY <2>2, <4>1 DEF Sound, CollectedAlone
      <4>3. ReadyIsGood(g)' /\ AcceptIsGood(g)'
        <5>1. CASE Spent(g)
          BY <2>3, <5>1 DEF ReadyIsGood, AcceptIsGood
        <5>2. CASE ~Spent(g)
          <6>1. status[g] # "ready" /\ NotConfirmed(g)
            BY <2>4, <4>1, <5>2 DEF Sound, CollectedAlone
          <6> QED BY <1>2, <2>2, <4>1, <6>1 DEF ReadyIsGood, AcceptIsGood, NotConfirmed, Confirms
        <5> QED BY <5>1, <5>2
      <4>4. RejectIsBad(g)'
        BY <1>2, <2>3, <4>1 DEF Sound, RejectIsBad, File
      <4> QED BY <3>2, <4>2, <4>3, <4>4 DEF Sound
    <3> QED BY <3>1, <3>2
  <2>6. WholeStands'
    BY <1>2, <2>2 DEF SoundInv, WholeStands, Spent
  <2> QED BY <1>1, <2>2, <2>5, <2>6 DEF SoundInv
<1>7. CASE DropRow(c)
  <2>1. PICK g \in FileIds : g = collector[c].file
    BY <1>1, <1>7 DEF DropRow, TypeInv, CollectorsFit
  <2>2. /\ status' = [status EXCEPT ![g] = "gone"] /\ soft' = soft \ {g} /\ UNCHANGED <<object, caught>>
        /\ refers' = [m \in DOMAIN refers |-> IF refers[m] = g THEN NoFile ELSE refers[m]]
        /\ c \in Collecting(g) /\ ~SelectAbandoned(c)
    BY <1>7, <2>1 DEF DropRow, Collecting, SelectAbandoned
  <2>3. \A f \in FileIds : /\ status'[f] = "ready" => status[f] = "ready"
                           /\ Spent(f) => Spent(f)'
                           /\ f # g => Spent(f)' = Spent(f) /\ status'[f] = status[f]
    BY <1>1, <2>2 DEF Spent, TypeInv, TypeOK
  <2>4. \A f \in FileIds \ caught : Sound(f)'
    BY <1>2, <1>3, <1>5, <2>2, <2>3, SoundKept DEF SoundInv
  <2>5. ASSUME NEW w \in whole, w[1] \notin retracted, w[2] \notin misread \cup caught PROVE w[2] # g
    <3>1. w[2] \in FileIds /\ status[w[2]] = "ready" /\ Sound(w[2])
      BY <1>1, <2>5 DEF SoundInv, WholeStands, TypeInv, TypeOK
    <3> QED BY <2>2, <3>1 DEF Sound, CollectedAlone
  <2>6. WholeStands'
    BY <1>1, <1>2, <2>2, <2>3, <2>5 DEF SoundInv, WholeStands, TypeInv, TypeOK
  <2> QED BY <1>1, <2>2, <2>4, <2>6 DEF SoundInv
<1>8. CASE SelectAbandoned(c)
  <2>1. /\ UNCHANGED <<status, soft, refers, object>>
        /\ caught' = caught \cup {f \in {f \in old : status[f] = "pending"} : Confirming(f) # {}}
        /\ collector' = [collector EXCEPT ![c] =
             [pc |-> "abandoned", todo |-> {f \in old : status[f] = "pending"}, file |-> NoFile]]
    BY <1>8 DEF SelectAbandoned
  <2>2. ASSUME NEW f \in FileIds \ caught' PROVE Sound(f)'
    <3>1. Sound(f) /\ NoFurther(f)
      BY <1>2, <1>3, <2>2 DEF SoundInv
    <3>2. CASE Collecting(f)' \subseteq Collecting(f)
      BY <1>2, <2>1, <3>1, <3>2, SoundKept DEF Spent
    <3>3. CASE ~(Collecting(f)' \subseteq Collecting(f))
      <4>1. c \in Collecting(f)'
        BY <1>1, <3>3 DEF Collecting
      <4>2. f \in old /\ status[f] = "pending"
        BY <1>1, <2>1, <4>1, NoneAreOther DEF Collecting, TypeInv, TypeOK
      <4>3. Confirming(f) = {}
        BY <2>1, <2>2, <4>2
      <4>4. NotConfirmed(f)
        BY <1>1, <4>3, ConfirmFacts DEF NotConfirmed, Confirming, Running, File
      <4> QED BY <1>2, <2>1, <3>1, <4>2, <4>4
              DEF Sound, CollectedAlone, ReadyIsGood, AcceptIsGood, RejectIsBad, NotConfirmed, Good, Spent, File
    <3> QED BY <3>2, <3>3
  <2>3. WholeStands'
    BY <1>2, <2>1 DEF SoundInv, WholeStands, Spent
  <2> QED BY <1>1, <2>2, <2>3 DEF SoundInv
<1>9. CASE /\ ~SelectAbandoned(c)
           /\ \/ SelectRetracted(c) \/ MarkHard(c) \/ EndPass(c) \/ MissWrite(c) \/ Stop(c)
              \/ \E g \in FileIds : Recheck(c, g)
  <2>1. UNCHANGED <<status, soft, refers, object, caught>> /\ ~SelectAbandoned(c)
    BY <1>9 DEF SelectRetracted, MarkHard, EndPass, MissWrite, Stop, Recheck
  <2> QED BY <1>1, <1>2, <1>3, <1>5, <2>1, SoundKept DEF SoundInv, WholeStands, Spent
<1> QED BY <1>6, <1>7, <1>8, <1>9 DEF CollectorActs

LEMMA StepSound == SoundInv /\ [Next]_vars => SoundInv'
<1> SUFFICES ASSUME SoundInv, [Next]_vars PROVE SoundInv'
  OBVIOUS
<1>1. CASE UNCHANGED vars
  <2>1. TypeInv'
    BY StepTypes DEF SoundInv
  <2> QED BY <1>1, <2>1 DEF vars, rows, history, SoundInv, WholeStands, Spent, Sound, CollectedAlone, Collecting,
                ReadyIsGood, AcceptIsGood, RejectIsBad, NotConfirmed, Good, File
<1>2. CASE Requests
  BY <1>2, BeginSound, ReaderSound, WriterSound DEF Requests, Step
<1> QED BY <1>1, <1>2, NextSplit, ClientSound, CollectorSound DEF Collections, SoundInv

----------------------------------------------------------------------------
\* Every variable has its type in every reachable state.
THEOREM TypeCorrect == Spec => []TypeOK
<1>1. TypeInv => TypeOK
  BY DEF TypeInv
<1> QED BY <1>1, InitTypes, StepTypes, PTL DEF Spec

\* A message accepted while its file was ready can be read until it is retracted,
\* whatever other handlers and any number of cleanup jobs do in between.
THEOREM AcceptedIsReadable == Spec => []StillReadable
<1>1. SoundInv => StillReadable
  <2> SUFFICES ASSUME SoundInv, NEW w \in whole, w[1] \notin retracted, w[2] \notin misread \cup caught
               PROVE  refers[w[1]] = w[2] /\ Served(w[2]) /\ object[w[2]] = "good"
    BY DEF StillReadable
  <2>1. /\ w[2] \in FileIds \ caught /\ w[1] \in DOMAIN refers /\ refers[w[1]] = w[2]
        /\ status[w[2]] = "ready" /\ ~Spent(w[2])
    BY DEF SoundInv, WholeStands, TypeInv, TypeOK
  <2>2. Good(w[2])
    BY <2>1 DEF SoundInv, Sound, ReadyIsGood
  <2> QED BY <2>1, <2>2 DEF Served, Good, Spent
<1> QED BY <1>1, InitSound, StepSound, PTL DEF Spec

----------------------------------------------------------------------------
\* Why a file that is served still is: a live message, a retraction under way, or
\* one that stopped before the file.
Softening(f) == \E s \in Slots : At(s, "soften", "delete") /\ File(s) = f
Explained(f) ==
  \/ \E m \in DOMAIN refers \ retracted : refers[m] = f
  \/ Softening(f)
  \/ \E m \in cut : refers[m] = f

\* The file a retraction read is the one its message refers to, or it is gone.
SoftensItsOwn == \A s \in Slots : handler[s].pc = "soften" =>
  \/ refers[Message(s)] = File(s)
  \/ refers[Message(s)] = NoFile /\ status[File(s)] = "gone"
ServedInv ==
  /\ TypeInv /\ SoftensItsOwn /\ cut \subseteq DOMAIN refers
  /\ \A f \in FileIds : Served(f) => Explained(f)

LEMMA InitServed == Init => ServedInv
<1> SUFFICES ASSUME Init PROVE ServedInv
  OBVIOUS
<1>1. (\A s \in Slots : handler[s].pc = "idle") /\ DOMAIN refers = {}
  BY IdleIsOther DEF Init
<1> QED BY <1>1, InitTypes DEF Init, ServedInv, SoftensItsOwn, Served

\* Where nothing is softened, retracted or cut, what explains a file stays.
LEMMA ServedKept ==
  ASSUME ServedInv, TypeInv', UNCHANGED <<refers, retracted>>, cut \subseteq cut', cut' \subseteq DOMAIN refers,
         \A s \in Slots : handler[s].pc = "soften" => handler'[s] = handler[s],
         \A s \in Slots : handler'[s].pc = "soften" => handler[s].pc = "soften",
         \A f \in FileIds : status[f] = "gone" => status'[f] = "gone",
         \A f \in FileIds : Served(f)' => Served(f)
  PROVE  ServedInv'
<1>1. ASSUME NEW s \in Slots, handler'[s].pc = "soften"
      PROVE  \/ refers[Message(s)'] = File(s)'
             \/ refers[Message(s)'] = NoFile /\ status'[File(s)'] = "gone"
  <2>1. handler'[s] = handler[s] /\ handler[s].pc = "soften"
    BY <1>1
  <2>2. refers[Message(s)] = File(s) \/ (refers[Message(s)] = NoFile /\ status[File(s)] = "gone")
    BY <2>1 DEF ServedInv, SoftensItsOwn
  <2>3. File(s) \in FileIds \cup {NoFile}
    BY <2>1, RunningFacts DEF ServedInv
  <2> QED BY <2>1, <2>2, <2>3 DEF File, Message
<1>2. ASSUME NEW f \in FileIds, Served(f)' PROVE Explained(f)'
  <2>1. Explained(f)
    BY <1>2 DEF ServedInv
  <2>2. Softening(f) => Softening(f)'
    BY DEF Softening, At, File
  <2> QED BY <2>1, <2>2 DEF Explained
<1> QED BY <1>1, <1>2 DEF ServedInv, SoftensItsOwn

LEMMA QuietServed ==
  ASSUME ServedInv, Clients \/ \E s \in Slots, r \in DOMAIN left : Begin(s, r)
  PROVE  ServedInv'
<1> USE DEF rows, history
<1>1. CASE Clients
  <2>1. TypeInv' /\ UNCHANGED <<refers, retracted, cut, handler, soft>>
    BY <1>1, ClientTypes DEF ServedInv, Clients, Slot, Age, Put
  <2>2. ASSUME NEW f \in FileIds PROVE (status[f] = "gone" => status'[f] = "gone") /\ (Served(f)' => Served(f))
    <3>1. status'[f] = status[f] \/ (status[f] = "none" /\ status'[f] = "pending")
      BY <1>1 DEF Clients, Slot, Age, Put, ServedInv, TypeInv, TypeOK
    <3>2. \A m \in DOMAIN refers : refers[m] = f => status[f] # "none"
      BY NoneAreOther DEF ServedInv, TypeInv, RowsStand
    <3> QED BY <2>1, <3>1, <3>2 DEF Served
  <2> QED BY <2>1, <2>2, ServedKept DEF ServedInv
<1>2. ASSUME NEW s \in Slots, NEW r \in DOMAIN left, Begin(s, r) PROVE ServedInv'
  <2>1. TypeInv' /\ UNCHANGED <<refers, retracted, cut, status, soft>> /\ Fits([pc |-> "find", ask |-> r])
    BY <1>2, BeginTypes DEF ServedInv, Begin
  <2>2. handler'[s].pc = "find" /\ \A t \in Slots \ {s} : handler'[t] = handler[t]
    BY <1>2, <2>1, HandlerStep DEF Begin, ServedInv
  <2>3. \A f \in FileIds : Served(f)' = Served(f)
    BY <2>1 DEF Served
  <2> QED BY <1>2, <2>1, <2>2, <2>3, ServedKept DEF ServedInv, Begin
<1> QED BY <1>1, <1>2

LEMMA RequestServed ==
  ASSUME ServedInv, NEW s \in Slots, Step(s) \/ Fail(s)
  PROVE  ServedInv'
<1> USE DEF rows, history
<1>1. /\ TypeInv /\ TypeInv' /\ Running(s) /\ Fits(handler[s])
      /\ \A t \in Slots \ {s} : handler'[t] = handler[t]
  BY HandlerTypes, HandlerMoves, RunningFacts DEF ServedInv, Running
<1>2. Return(s) => handler'[s].pc = "idle"
  BY <1>1, ReturnStep, IdleIsOther
<1>3. ASSUME NEW pc, Goto(s, pc) PROVE handler'[s].pc = pc
  BY <1>1, <1>3, RunningFacts DEF Goto, TypeInv, TypeOK, Handler, Running
<1>4. \A f \in FileIds : status[f] = "gone" => status'[f] = "gone"
  <2>1. CASE MarkReady(s) \/ Tombstone(s)
    BY <1>1, <2>1 DEF MarkReady, Tombstone, TypeInv, TypeOK
  <2>2. CASE ~(MarkReady(s) \/ Tombstone(s))
    BY <2>2 DEF Step, Fail, FindSlot, Head, Hash, FindFile, InsertMessage, FindMessage, Retract, SoftDelete
  <2> QED BY <2>1, <2>2
<1>5. CASE FindSlot(s) \/ Head(s) \/ Hash(s) \/ FindFile(s) \/ FindMessage(s)
  <2>1. UNCHANGED <<refers, retracted, cut, status, soft>> /\ handler[s].pc # "soften" /\ handler'[s].pc # "soften"
    BY <1>2, <1>3, <1>5 DEF FindSlot, Head, Hash, FindFile, FindMessage, At
  <2>2. \A f \in FileIds : Served(f)' = Served(f)
    BY <2>1 DEF Served
  <2> QED BY <1>1, <1>4, <2>1, <2>2, ServedKept DEF ServedInv
<1>6. CASE MarkReady(s) \/ Tombstone(s)
  <2>1. /\ UNCHANGED <<refers, retracted, cut>> /\ handler[s].pc # "soften" /\ handler'[s].pc # "soften"
        /\ soft \subseteq soft'
    BY <1>2, <1>6 DEF MarkReady, Tombstone, At
  <2>2. File(s) \in FileIds /\ status[File(s)] # "none"
    BY <1>1, <1>6, ConfirmFacts DEF MarkReady, Tombstone, At, Confirms, TypeInv, RequestsStand
  <2>3. \A f \in FileIds : Served(f)' => Served(f)
    BY <1>1, <1>6, <2>1, <2>2 DEF MarkReady, Tombstone, Served, TypeInv, TypeOK
  <2> QED BY <1>1, <1>4, <2>1, <2>3, ServedKept DEF ServedInv
<1>7. CASE InsertMessage(s)
  <2>1. /\ UNCHANGED <<retracted, cut, status, soft>> /\ handler[s].pc # "soften" /\ handler'[s].pc # "soften"
    BY <1>2, <1>7 DEF InsertMessage, At
  <2>2. CASE refers' = refers
    <3>1. \A f \in FileIds : Served(f)' = Served(f)
      BY <2>1, <2>2 DEF Served
    <3> QED BY <1>1, <1>4, <2>1, <2>2, <3>1, ServedKept DEF ServedInv
  <2>3. CASE refers' # refers
    <3>1. /\ Message(s) \notin DOMAIN refers
          /\ refers' = [n \in DOMAIN refers \cup {Message(s)} |-> IF n = Message(s) THEN File(s) ELSE refers[n]]
      BY <1>7, <2>3 DEF InsertMessage
    <3>2. /\ refers'[Message(s)] = File(s) /\ Message(s) \in DOMAIN refers' /\ Message(s) \notin retracted'
          /\ DOMAIN refers \subseteq DOMAIN refers' /\ \A m \in DOMAIN refers : refers'[m] = refers[m]
      BY <1>1, <2>1, <3>1 DEF TypeInv, TypeOK
    <3>3. SoftensItsOwn'
      <4> SUFFICES ASSUME NEW t \in Slots, handler'[t].pc = "soften"
                   PROVE  \/ refers'[Message(t)'] = File(t)'
                          \/ refers'[Message(t)'] = NoFile /\ status'[File(t)'] = "gone"
        BY DEF SoftensItsOwn
      <4>1. handler'[t] = handler[t] /\ handler[t].pc = "soften"
        BY <1>1, <2>1
      <4>2. Message(t) \in DOMAIN refers
        BY <1>1, <4>1, RunningFacts DEF Running, Fits, TypeInv, RequestsStand
      <4> QED BY <2>1, <3>2, <4>1, <4>2 DEF ServedInv, SoftensItsOwn, Message, File
    <3>4. ASSUME NEW f \in FileIds, Served(f)' PROVE Explained(f)'
      <4>1. CASE f = File(s)
        BY <3>2, <4>1 DEF Explained
      <4>2. CASE f # File(s)
        <5>1. Served(f)
          BY <2>1, <3>1, <3>4, <4>2 DEF Served
        <5>2. Softening(f) => Softening(f)'
          BY <1>1, <2>1 DEF Softening, At, File
        <5> QED BY <2>1, <3>2, <5>1, <5>2 DEF ServedInv, Explained
      <4> QED BY <4>1, <4>2
    <3> QED BY <1>1, <2>1, <3>2, <3>3, <3>4 DEF ServedInv
  <2> QED BY <2>2, <2>3
<1>8. CASE Retract(s)
  <2>1. /\ UNCHANGED <<refers, cut, status, soft>> /\ handler[s].pc = "retract" /\ Message(s) \in DOMAIN refers
        /\ retracted' = retracted \cup {Message(s)}
    BY <1>1, <1>8 DEF Retract, At, TypeInv, RequestsStand
  <2>2. PICK h : h = [pc |-> "soften", ask |-> [handler[s].ask EXCEPT !.file = refers[Message(s)]]]
    OBVIOUS
  <2>3. handler'[s] = h
    BY <1>1, <1>8, <2>2 DEF Retract, TypeInv, TypeOK
  <2>4. /\ h.pc = "soften" /\ h.ask.message = Message(s) /\ h.ask.file = refers[Message(s)]
        /\ h.ask.kind = "delete"
    BY <1>1, <1>8, <2>2 DEF Retract, At, Fits, Handler, Message
  <2>5. SoftensItsOwn'
    BY <1>1, <2>1, <2>3, <2>4 DEF ServedInv, SoftensItsOwn, Message, File
  <2>6. ASSUME NEW f \in FileIds, Served(f)' PROVE Explained(f)'
    <3>1. Explained(f)
      BY <2>1, <2>6 DEF ServedInv, Served
    <3>2. Softening(f) => Softening(f)'
      BY <1>1, <2>1 DEF Softening, At, File
    <3>3. refers[Message(s)] = f => Softening(f)'
      BY <2>3, <2>4 DEF Softening, At, File
    <3> QED BY <2>1, <3>1, <3>2, <3>3 DEF Explained
  <2> QED BY <1>1, <2>1, <2>5, <2>6 DEF ServedInv
<1>9. CASE SoftDelete(s) \/ Fail(s)
  <2>1. /\ UNCHANGED <<refers, retracted, status, hard>> /\ soft \subseteq soft' /\ handler'[s].pc = "idle"
        /\ SoftDelete(s) => cut' = cut \ {Message(s)} /\ At(s, "soften", "delete")
        /\ Fail(s) => cut' = IF At(s, "soften", "delete") THEN cut \cup {Message(s)} ELSE cut
    BY <1>2, <1>9 DEF SoftDelete, Fail
  <2>2. At(s, "soften", "delete") => Message(s) \in DOMAIN refers
    BY <1>1 DEF At, TypeInv, RequestsStand
  <2>3. SoftensItsOwn'
    BY <1>1, <2>1 DEF ServedInv, SoftensItsOwn, Message, File
  <2>4. ASSUME NEW f \in FileIds, Served(f)' PROVE Explained(f)'
    <3>1. Served(f) /\ Explained(f) /\ status[f] # "gone" /\ f \notin soft' /\ f # NoFile
      BY <2>1, <2>4, NoneAreOther DEF ServedInv, Served
    <3>2. CASE At(s, "soften", "delete") /\ (File(s) = f \/ refers[Message(s)] = f)
      <4>1. File(s) = f /\ refers[Message(s)] = f
        BY <3>1, <3>2 DEF ServedInv, SoftensItsOwn, At
      <4>2. CASE SoftDelete(s)
        <5>1. LiveRefs(f) # {}
          BY <1>1, <3>1, <4>1, <4>2 DEF SoftDelete, TypeInv, TypeOK
        <5> QED BY <2>1, <5>1 DEF Explained, LiveRefs
      <4>3. CASE Fail(s)
        BY <2>1, <3>2, <4>1, <4>3 DEF Explained
      <4> QED BY <1>9, <4>2, <4>3
    <3>3. CASE ~(At(s, "soften", "delete") /\ (File(s) = f \/ refers[Message(s)] = f))
      <4>1. Softening(f) => Softening(f)'
        BY <1>1, <3>3 DEF Softening, At, File
      <4> QED BY <1>9, <2>1, <3>1, <3>3, <4>1 DEF Explained
    <3> QED BY <3>2, <3>3
  <2> QED BY <1>1, <1>9, <2>1, <2>2, <2>3, <2>4 DEF ServedInv
<1> QED BY <1>5, <1>6, <1>7, <1>8, <1>9 DEF Step

\* Dropping a row ends what referred to it.
LEMMA CollectorServed ==
  ASSUME ServedInv, NEW c \in Collectors, CollectorActs(c)
  PROVE  ServedInv'
<1> USE DEF rows, history
<1>1. TypeInv /\ TypeInv' /\ UNCHANGED <<handler, retracted, cut>>
  BY CollectorTypes DEF ServedInv, CollectorActs, SelectRetracted, Recheck, EraseObject, MarkHard, SelectAbandoned,
     DropRow, EndPass, MissWrite, Stop
<1>2. CASE DropRow(c)
  <2>1. PICK g \in FileIds : g = collector[c].file
    BY <1>1, <1>2 DEF DropRow, TypeInv, CollectorsFit
  <2>2. /\ status' = [status EXCEPT ![g] = "gone"] /\ soft' = soft \ {g}
        /\ refers' = [m \in DOMAIN refers |-> IF refers[m] = g THEN NoFile ELSE refers[m]]
    BY <1>2, <2>1 DEF DropRow
  <2>3. SoftensItsOwn'
    <3> SUFFICES ASSUME NEW s \in Slots, handler[s].pc = "soften"
                 PROVE  \/ refers'[Message(s)] = File(s)
                        \/ refers'[Message(s)] = NoFile /\ status'[File(s)] = "gone"
      BY <1>1 DEF SoftensItsOwn, Message, File
    <3>1. Message(s) \in DOMAIN refers /\ File(s) \in FileIds \cup {NoFile}
      BY <1>1, RunningFacts DEF Fits, TypeInv, RequestsStand, Running
    <3>2. refers[Message(s)] = File(s) \/ (refers[Message(s)] = NoFile /\ status[File(s)] = "gone")
      BY DEF ServedInv, SoftensItsOwn
    <3> QED BY <1>1, <2>1, <2>2, <3>1, <3>2, NoneAreOther DEF TypeInv, TypeOK
  <2>4. ASSUME NEW f \in FileIds, Served(f)' PROVE Explained(f)'
    <3>1. f # g /\ Served(f)
      BY <1>1, <2>2, <2>4, NoneAreOther DEF Served, TypeInv, TypeOK
    <3>2. Softening(f)' = Softening(f)
      BY <1>1 DEF Softening, At, File
    <3>3. \A m \in DOMAIN refers : refers[m] = f => refers'[m] = f
      BY <2>2, <3>1
    <3> QED BY <1>1, <2>2, <3>1, <3>2, <3>3 DEF ServedInv, Explained
  <2> QED BY <1>1, <2>2, <2>3, <2>4 DEF ServedInv
<1>3. CASE ~DropRow(c)
  <2>1. UNCHANGED <<refers, status, soft>>
    BY <1>3 DEF CollectorActs, SelectRetracted, Recheck, EraseObject, MarkHard, SelectAbandoned, EndPass, MissWrite, Stop
  <2>2. \A f \in FileIds : Served(f)' = Served(f)
    BY <2>1 DEF Served
  <2> QED BY <1>1, <2>1, <2>2, ServedKept DEF ServedInv
<1> QED BY <1>2, <1>3

LEMMA StepServed == ServedInv /\ [Next]_vars => ServedInv'
<1> SUFFICES ASSUME ServedInv, [Next]_vars PROVE ServedInv'
  OBVIOUS
<1>1. CASE UNCHANGED vars
  <2>1. TypeInv'
    BY StepTypes DEF ServedInv
  <2>2. UNCHANGED <<refers, retracted, cut, status, soft, handler>>
    BY <1>1 DEF vars, rows, history
  <2>3. \A f \in FileIds : Served(f)' = Served(f)
    BY <2>2 DEF Served
  <2> QED BY <2>1, <2>2, <2>3, ServedKept DEF ServedInv
<1> QED BY <1>1, NextSplit, QuietServed, RequestServed, CollectorServed DEF Requests, Collections, ServedInv

\* Once the messages that refer to a file are retracted it is no longer served,
\* however the retractions meet, but for one under way or one that stopped.
THEOREM RetractedIsNotServed == Spec => []RetractedNotServed
<1>1. ServedInv => RetractedNotServed
  BY DEF ServedInv, RetractedNotServed, Explained, Softening
<1> QED BY <1>1, InitServed, StepServed, PTL DEF Spec
=============================================================================
