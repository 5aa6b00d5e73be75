------------------------------- MODULE Files -------------------------------
(***************************************************************************)
(* A file from its upload slot to its collection: routes/uploads.ts issues *)
(* a slot and confirms it against the object store, messages refer to the  *)
(* file (socket/messaging.ts, routes/messages.ts), routes/files.ts serves  *)
(* it, retracting the last message soft-deletes it, and every instance's   *)
(* cleanup job (services/fileCleanup.ts) deletes object and row.           *)
(*                                                                         *)
(* Handlers and collectors are split at their awaits and interleave; each  *)
(* may stop at any of them, and each call of the object store may fail.    *)
(* Membership, MLS epochs, quotas and sizes in bytes are left out; time is *)
(* the choice of when a slot is old (PENDING_UPLOAD_TTL_MS), and the grace *)
(* before a hard delete may be any, for a collector may start at any time. *)
(***************************************************************************)
EXTENDS Integers, FiniteSets

CONSTANTS
  FileIds, Messages, Slots, Collectors,
  Asks,            \* the requests: kind, file, message, via
  Scenarios,       \* functions from requests to how often they are made
  NoAsk, NoFile,
  Streams,         \* does getObject return a stream (S3) or a buffer (local disk)?
  MaxFaults        \* bound on stopped handlers and failed calls

ASSUME FaultsAreNatural == MaxFaults \in Nat /\ Streams \in BOOLEAN
ASSUME AsksAreRequests == \A r \in Asks :
  /\ r \in [kind : {"confirm", "send", "delete"}, file : FileIds \cup {NoFile}, message : Messages,
             via : {"file", "plain"}]
  /\ r.file = NoFile <=> r.kind = "delete"
ASSUME ScenariosOfAsks == \A asks \in Scenarios : DOMAIN asks \subseteq Asks /\ asks \in [DOMAIN asks -> Nat]
ASSUME NoneAreOther == NoFile \notin FileIds

VARIABLES
  left,       \* how often clients will still make each request
  status,     \* table files: "none" before the slot, "gone" after the row
  soft, hard, \* the rows with deletedAt, with hardDeletedAt
  old,        \* pending slots past their time, whose upload URL ended long ago
  object,     \* what the store holds at the file's key
  refers,     \* table messages: the file each refers to
  retracted,  \* the messages with deletedAt
  mentioned,  \* the files whose client is past the upload
  handler, collector,
  faults,
  whole,      \* history: <<m, f>>: m was inserted while its file f was ready and not retracted
  misread,    \* history: files a confirm rejected because the store failed
  caught,     \* history: slots confirmed while they were being collected
  cut         \* history: messages whose retraction stopped before the file

rows == <<status, soft, hard, refers, retracted>>
history == <<whole, misread, caught, cut>>
vars == <<left, rows, old, object, mentioned, handler, collector, faults, history>>

Idle == [pc |-> "idle", ask |-> NoAsk]
Resting == [pc |-> "rest", todo |-> {}, file |-> NoFile]
Handler == [pc : {"find", "head", "hash", "ready", "reject", "insert", "retract", "soften"},
            ask : [kind : {"confirm", "send", "delete"}, file : FileIds \cup {NoFile}, message : Messages,
                   via : {"file", "plain"}]]
Collector == [pc : {"rest", "retracted", "erase", "mark", "abandoned", "drop"},
              todo : SUBSET FileIds, file : FileIds \cup {NoFile}]

----------------------------------------------------------------------------
AnyRef(f) == {m \in DOMAIN refers : refers[m] = f}  \* mutant: the dates are not looked at
NoRef(f) == {}  \* mutant: nothing is looked for
LiveRefs(f) == {m \in DOMAIN refers : refers[m] = f /\ m \notin retracted}

\* GET /files/:fileId: a message refers to the file, a retracted one too.
Served(f) ==
  /\ status[f] \notin {"none", "gone"}
  /\ f \notin soft
  /\ \E m \in DOMAIN refers : refers[m] = f

Confirming(f) == {s \in Slots : handler[s].pc # "idle" /\ handler[s].ask.kind = "confirm"
                                /\ handler[s].ask.file = f}
Collecting(f) == {c \in Collectors : collector[c].pc \in {"abandoned", "drop"}
                                     /\ (f \in collector[c].todo \/ collector[c].file = f)}

At(s, pc, kind) == handler[s].pc = pc /\ handler[s].ask.kind = kind
Goto(s, pc) == handler' = [handler EXCEPT ![s].pc = pc]
Return(s) == handler' = [handler EXCEPT ![s] = Idle]
File(s) == handler[s].ask.file
Message(s) == handler[s].ask.message

----------------------------------------------------------------------------
Init ==
  /\ left \in Scenarios
  /\ status = [f \in FileIds |-> "none"]
  /\ soft = {} /\ hard = {} /\ old = {}
  /\ object = [f \in FileIds |-> "none"]
  /\ refers = [m \in {} |-> NoFile] /\ retracted = {}
  /\ mentioned = {}
  /\ handler = [s \in Slots |-> Idle]
  /\ collector = [c \in Collectors |-> Resting]
  /\ faults = 0
  /\ whole = {} /\ misread = {} /\ caught = {} /\ cut = {}

Used == {r.file : r \in DOMAIN left} \ {NoFile}
Uploaded == {r.file : r \in {r \in DOMAIN left : r.kind = "confirm"}}

\* POST /uploads: a row of its own, under a key of its own.
Slot(f) ==
  /\ status[f] = "none"
  /\ status' = [status EXCEPT ![f] = "pending"]
  /\ UNCHANGED <<left, soft, hard, refers, retracted, old, object, mentioned, handler, collector, faults, history>>

\* The client puts the object before it asks to confirm it or refers to it, and
\* again while it sees that the upload broke, leaving fewer bytes or others.
Put(f, content) ==
  /\ status[f] = "pending" /\ f \notin old
  /\ object[f] # "good" /\ object[f] # content /\ f \notin mentioned
  /\ object' = [object EXCEPT ![f] = content]
  /\ UNCHANGED <<left, rows, old, mentioned, handler, collector, faults, history>>

Age(f) ==
  /\ status[f] = "pending"
  /\ old' = old \cup {f}
  /\ UNCHANGED <<left, rows, object, mentioned, handler, collector, faults, history>>

Begin(s, r) ==
  /\ handler[s].pc = "idle" /\ left[r] > 0
  /\ r.kind = "confirm" => status[r.file] # "none"
  /\ r.kind = "delete" => r.message \in DOMAIN refers
  /\ left' = [left EXCEPT ![r] = @ - 1]
  /\ handler' = [handler EXCEPT ![s] = [pc |-> "find", ask |-> r]]
  /\ mentioned' = mentioned \cup {r.file}
  /\ UNCHANGED <<rows, old, object, collector, faults, history>>

----------------------------------------------------------------------------
\* POST /uploads/:fileId/confirm: the row, the object's head, its hash.
FindSlot(s) ==
  /\ At(s, "find", "confirm")
  /\ IF status[File(s)] = "pending" THEN Goto(s, "head") ELSE Return(s)
  /\ caught' = IF Collecting(File(s)) # {} THEN caught \cup {File(s)} ELSE caught
  /\ UNCHANGED <<left, rows, old, object, mentioned, collector, faults, whole, misread, cut>>

Head(s) ==
  /\ At(s, "head", "confirm")
  /\ IF object[File(s)] \in {"none", "short"} THEN Return(s) ELSE Goto(s, "hash")
  /\ UNCHANGED <<left, rows, old, object, mentioned, collector, faults, history>>

\* verifyFileIntegrity answers "invalid" for other bytes, a missing object and
\* a store that fails alike.  It takes the body for a stream; the buffer of the
\* local store has no "on", and the exception is an "invalid" too.
Intact(s) == Streams /\ object[File(s)] = "good"
Hash(s) ==
  /\ At(s, "hash", "confirm")
  /\ \/ /\ Goto(s, IF Intact(s) THEN "ready" ELSE "reject")
        /\ UNCHANGED <<faults, misread>>
     \/ /\ faults < MaxFaults
        /\ faults' = faults + 1
        /\ Goto(s, "reject")
        /\ misread' = misread \cup {File(s)}
  /\ UNCHANGED <<left, rows, old, object, mentioned, collector, whole, caught, cut>>

\* Both writes name the row alone, whatever became of it in between.
MarkReady(s) ==
  /\ At(s, "ready", "confirm")
  /\ status' = [status EXCEPT ![File(s)] = IF @ = "gone" THEN @ ELSE "ready"]
  /\ Return(s)
  /\ UNCHANGED <<left, soft, hard, refers, retracted, old, object, mentioned, collector, faults, history>>

Tombstone(s) ==
  /\ At(s, "reject", "confirm")
  /\ status' = [status EXCEPT ![File(s)] = IF @ = "gone" THEN @ ELSE "deleted"]
  /\ soft' = IF status[File(s)] = "gone" THEN soft ELSE soft \cup {File(s)}
  /\ Return(s)
  /\ UNCHANGED <<left, hard, refers, retracted, old, object, mentioned, collector, faults, history>>

----------------------------------------------------------------------------
\* send_file_message asks for a ready file of the sender in the conversation;
\* send_message and POST /messages take the file id as it comes.
FindFile(s) ==
  /\ At(s, "find", "send")
  /\ IF /\ Message(s) \notin DOMAIN refers
        /\ handler[s].ask.via = "file" => status[File(s)] = "ready"
       THEN Goto(s, "insert")
       ELSE Return(s)
  /\ UNCHANGED <<left, rows, old, object, mentioned, collector, faults, history>>

\* The id must be new and the file's row must exist (foreign key).
InsertMessage(s) ==
  LET m == Message(s) f == File(s) IN
  /\ At(s, "insert", "send")
  /\ IF m \in DOMAIN refers \/ status[f] \in {"none", "gone"}
       THEN UNCHANGED <<refers, whole>>
       ELSE /\ refers' = [n \in DOMAIN refers \cup {m} |-> IF n = m THEN f ELSE refers[n]]
            /\ whole' = IF status[f] = "ready" /\ f \notin soft THEN whole \cup {<<m, f>>} ELSE whole
  /\ Return(s)
  /\ UNCHANGED <<left, status, soft, hard, retracted, old, object, mentioned, collector, faults, misread, caught, cut>>

\* delete_message and DELETE /messages/:id, which read the message first.
FindMessage(s) ==
  /\ At(s, "find", "delete")
  /\ Goto(s, "retract")
  /\ UNCHANGED <<left, rows, old, object, mentioned, collector, faults, history>>

Retract(s) ==
  /\ At(s, "retract", "delete")
  /\ retracted' = retracted \cup {Message(s)}
  /\ handler' = [handler EXCEPT ![s] = [pc |-> "soften", ask |-> [handler[s].ask EXCEPT !.file = refers[Message(s)]]]]
  /\ UNCHANGED <<left, status, soft, hard, refers, old, object, mentioned, collector, faults, history>>

\* softDeleteFile, one statement.
SoftDelete(s) ==
  LET f == File(s) IN
  /\ At(s, "soften", "delete")
  /\ soft' = IF f # NoFile /\ status[f] # "gone" /\ f \notin hard /\ LiveRefs(f) = {}
               THEN soft \cup {f} ELSE soft
  /\ Return(s)
  /\ cut' = cut \ {Message(s)}
  /\ UNCHANGED <<left, status, hard, refers, retracted, old, object, mentioned, collector, faults, whole, misread, caught>>

Fail(s) ==
  /\ handler[s].pc # "idle" /\ faults < MaxFaults
  /\ faults' = faults + 1
  /\ Return(s)
  /\ cut' = IF At(s, "soften", "delete") THEN cut \cup {Message(s)} ELSE cut
  /\ UNCHANGED <<left, rows, old, object, mentioned, collector, whole, misread, caught>>

----------------------------------------------------------------------------
\* runHardDeletePass: the retracted files, one after the other, then the slots
\* nobody confirmed.  The lists are read once and may be stale when used.
SelectRetracted(c) ==
  /\ collector[c].pc = "rest"
  /\ collector' = [collector EXCEPT ![c] = [pc |-> "retracted", todo |-> soft \ hard, file |-> NoFile]]
  /\ UNCHANGED <<left, rows, old, object, mentioned, handler, faults, history>>

Quit(c, f) == Resting  \* mutant: return instead of continue
Continue(c, f) == [collector[c] EXCEPT !.todo = @ \ {f}]

Recheck(c, f) ==
  /\ collector[c].pc = "retracted" /\ f \in collector[c].todo
  /\ collector' = [collector EXCEPT ![c] =
                     IF LiveRefs(f) # {} THEN Continue(c, f)
                     ELSE [pc |-> "erase", todo |-> collector[c].todo \ {f}, file |-> f]]
  /\ UNCHANGED <<left, rows, old, object, mentioned, handler, faults, history>>

\* deleteObject, in the first list or the second.  An error is logged, and the
\* next candidate is taken up: the row stays for a later pass.
AfterErase(pc, ok) ==
  IF pc = "erase" THEN IF ok THEN "mark" ELSE "retracted" ELSE IF ok THEN "drop" ELSE "abandoned"

EraseObject(c, f, ok) ==
  /\ \/ collector[c].pc = "erase" /\ f = collector[c].file
     \/ collector[c].pc = "abandoned" /\ f \in collector[c].todo
  /\ ok \/ faults < MaxFaults
  /\ faults' = IF ok THEN faults ELSE faults + 1
  /\ object' = IF ok THEN [object EXCEPT ![f] = "none"] ELSE object
  /\ collector' = [collector EXCEPT ![c] =
                     [pc |-> AfterErase(collector[c].pc, ok), todo |-> collector[c].todo \ {f}, file |-> f]]
  /\ UNCHANGED <<left, rows, old, mentioned, handler, history>>

\* Another instance's job may have dropped the row by now.
MarkHard(c) ==
  /\ collector[c].pc = "mark"
  /\ hard' = IF status[collector[c].file] = "gone" THEN hard ELSE hard \cup {collector[c].file}
  /\ collector' = [collector EXCEPT ![c].pc = "retracted", ![c].file = NoFile]
  /\ UNCHANGED <<left, status, soft, refers, retracted, old, object, mentioned, handler, faults, history>>

SelectAbandoned(c) ==
  LET stale == {f \in old : status[f] = "pending"} IN
  /\ collector[c].pc = "retracted" /\ collector[c].todo = {}
  /\ collector' = [collector EXCEPT ![c] = [pc |-> "abandoned", todo |-> stale, file |-> NoFile]]
  /\ caught' = caught \cup {f \in stale : Confirming(f) # {}}
  /\ UNCHANGED <<left, rows, old, object, mentioned, handler, faults, whole, misread, cut>>

\* ON DELETE SET NULL for the messages that refer to it.
DropRow(c) ==
  LET f == collector[c].file IN
  /\ collector[c].pc = "drop"
  /\ status' = [status EXCEPT ![f] = "gone"]
  /\ soft' = soft \ {f} /\ hard' = hard \ {f}
  /\ refers' = [m \in DOMAIN refers |-> IF refers[m] = f THEN NoFile ELSE refers[m]]
  /\ collector' = [collector EXCEPT ![c].pc = "abandoned", ![c].file = NoFile]
  /\ UNCHANGED <<left, retracted, old, object, mentioned, handler, faults, history>>

EndPass(c) ==
  /\ collector[c].pc = "abandoned" /\ collector[c].todo = {}
  /\ collector' = [collector EXCEPT ![c] = Resting]
  /\ UNCHANGED <<left, rows, old, object, mentioned, handler, faults, history>>

\* A write behind the erased object fails: logged, and the row stays as it was.
MissWrite(c) ==
  /\ collector[c].pc \in {"mark", "drop"} /\ faults < MaxFaults
  /\ faults' = faults + 1
  /\ collector' = [collector EXCEPT ![c].pc = IF @ = "mark" THEN "retracted" ELSE "abandoned", ![c].file = NoFile]
  /\ UNCHANGED <<left, rows, old, object, mentioned, handler, history>>

Stop(c) ==
  /\ collector[c].pc # "rest" /\ faults < MaxFaults
  /\ faults' = faults + 1
  /\ collector' = [collector EXCEPT ![c] = Resting]
  /\ UNCHANGED <<left, rows, old, object, mentioned, handler, history>>

----------------------------------------------------------------------------
Step(s) ==
  \/ FindSlot(s) \/ Head(s) \/ Hash(s) \/ MarkReady(s) \/ Tombstone(s)
  \/ FindFile(s) \/ InsertMessage(s)
  \/ FindMessage(s) \/ Retract(s) \/ SoftDelete(s)

Collect(c) ==
  \/ SelectRetracted(c) \/ SelectAbandoned(c) \/ MarkHard(c) \/ DropRow(c) \/ EndPass(c)
  \/ \E f \in FileIds : Recheck(c, f) \/ EraseObject(c, f, TRUE)

Next ==
  \/ \E f \in Used : Slot(f) \/ Age(f)
  \/ \E f \in Uploaded, x \in {"short", "bad", "good"} : Put(f, x)
  \/ \E s \in Slots : Step(s) \/ Fail(s) \/ \E r \in DOMAIN left : Begin(s, r)
  \/ \E c \in Collectors : Collect(c) \/ MissWrite(c) \/ Stop(c) \/ \E f \in FileIds : EraseObject(c, f, FALSE)

Spec == Init /\ [][Next]_vars

\* setInterval starts a pass again and again, and a pass goes on; a handler
\* that runs goes on.
FairSpec == Spec /\ (\A c \in Collectors : WF_vars(Collect(c))) /\ (\A s \in Slots : WF_vars(Step(s)))

----------------------------------------------------------------------------
\* The variables have their types.
TypeOK ==
  /\ left \in [DOMAIN left -> Nat] /\ DOMAIN left \subseteq Asks
  /\ status \in [FileIds -> {"none", "pending", "ready", "deleted", "gone"}]
  /\ soft \subseteq FileIds /\ hard \subseteq soft /\ old \subseteq FileIds
  /\ object \in [FileIds -> {"none", "short", "bad", "good"}]
  /\ DOMAIN refers \subseteq Messages /\ retracted \subseteq DOMAIN refers
  /\ refers \in [DOMAIN refers -> FileIds \cup {NoFile}]
  /\ handler \in [Slots -> {Idle} \cup Handler] /\ collector \in [Collectors -> Collector]
  /\ mentioned \subseteq FileIds \cup {NoFile} /\ faults \in 0..MaxFaults
  /\ whole \subseteq Messages \X FileIds /\ misread \cup caught \subseteq FileIds /\ cut \subseteq Messages

\* A message that was accepted while its file was ready, and is not retracted,
\* can be read: the row is served and the verified object is there.  Retracting
\* other messages, confirming again and the cleanup job's stale lists do not
\* change that, except that a confirm whose store call failed rejects a file
\* another confirm made ready, and one that meets the collection of its slot
\* makes ready what is being deleted (routes/uploads.ts, fileCleanup.ts).
StillReadable ==
  \A w \in whole : w[1] \notin retracted /\ w[2] \notin misread \cup caught =>
    refers[w[1]] = w[2] /\ Served(w[2]) /\ object[w[2]] = "good"

\* Once the messages that refer to a file are retracted, it is no longer
\* served, however the retractions met: only while one of them is still
\* running, or when its handler stopped between the message and the file.
RetractedNotServed ==
  \A f \in FileIds : Served(f) =>
    \/ \E m \in DOMAIN refers \ retracted : refers[m] = f
    \/ \E s \in Slots : At(s, "soften", "delete") /\ File(s) = f
    \/ \E m \in cut : refers[m] = f

\* A retracted file is collected in the end, unless a message refers to it
\* again or its row is dropped; other files that stay do not hold it up.
RetractedCollected ==
  \A f \in FileIds : f \in soft ~> (f \in hard \/ f \notin soft \/ \E m \in DOMAIN refers \ retracted : refers[m] = f)
=============================================================================
