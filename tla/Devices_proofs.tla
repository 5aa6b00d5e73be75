--------------------------- MODULE Devices_proofs ---------------------------
(***************************************************************************)
(* What the device handlers keep for every set of devices, instances,      *)
(* requests and slots, every cap and every bound.                          *)
(*                                                                         *)
(* Fits says of one handler's record what it knows without looking at the  *)
(* tables; the lemmas on a slot's step rest on it.  RevokedIsSilent is     *)
(* inductive beside it.  HandedOutOnce needs OnceInv (what was given never *)
(* comes back, and a claim's item is locked for it alone), and             *)
(* LowIsSignalled needs LowInv, device by device, for those on whose keys  *)
(* no two things were done at once.                                        *)
(***************************************************************************)
EXTENDS Devices, FiniteSetTheorems, TLAPS

Working == {"revoke", "wipe", "release", "announce"}

\* What a slot knows of its own request, whatever others do.
Fits(h) ==
  /\ h \in Handler
  /\ h.pc = "idle" <=> h.ask = Nobody
  /\ IF h.pc \in Working THEN h.targets # {} /\ h.ask.kind \in {"revoke", "logout"} ELSE h.targets = {}
  /\ h.pc \in {"sign", "insert"} =>
       /\ h.ask.kind = "upload" /\ IsFiniteSet(h.item)
       /\ \A i \in h.item : i[1] = h.ask.device /\ i[2] = h.ask.pool /\ i[3] \in h.ask.keys
  /\ h.pc = "take" =>
       h.ask.kind = "claim" /\ \E i \in Items : h.item = {i} /\ i[1] = h.ask.device /\ i[2] = h.ask.pool
  /\ h.pc = "recount" => h.ask.kind = "upload" /\ h.ask.pool = "otp"
  /\ h.pc = "signal" => h.ask.kind = "claim"

RunsAsked == \A s \in Slots : handler[s].pc # "idle" => Ask(s) \in DOMAIN left
TypeInv == TypeOK /\ RunsAsked /\ \A s \in Slots : Fits(handler[s])

LEMMA IdleFits == Fits(Idle)
BY DEF Fits, Idle, Handler, Pcs, Working

LEMMA InitTypes == Init => TypeInv
<1> SUFFICES ASSUME Init PROVE TypeInv
  OBVIOUS
<1>1. PICK sc \in Scenarios : left = sc.asks /\ online = sc.online
                              /\ rows = [d \in Devices |-> IF d \in sc.linked THEN "active" ELSE "none"]
                              /\ socket = [p \in Devices \X Instances |-> "off"]
  BY DEF Init
<1>2. left \in [DOMAIN left -> Nat] /\ DOMAIN left \subseteq Asks
  BY <1>1, ScenariosOfAsks
<1>3. Idle \in Handler
  BY IdleFits DEF Fits
<1>4. handler \in [Slots -> Handler]
  BY <1>3 DEF Init
<1>5. TypeOK
  BY <1>1, <1>2, <1>4, BoundsAreNaturals, FS_EmptySet DEF Init, TypeOK
<1>6. \A s \in Slots : handler[s] = Idle
  BY DEF Init
<1>7. RunsAsked
  BY <1>6 DEF RunsAsked, Idle
<1> QED BY <1>5, <1>6, <1>7, IdleFits DEF TypeInv

LEMMA AskFacts ==
  ASSUME NEW r \in Asks
  PROVE  /\ r.device \in Devices /\ r.pool \in Pools /\ r.kind \in Kinds
         /\ r.keys \subseteq Keys /\ r.keys \subseteq Nat /\ IsFiniteSet(r.keys)
BY AsksAreRequests DEF Keys

\* What a slot that runs knows of its request.
LEMMA RunFacts ==
  ASSUME TypeInv, NEW s \in Slots, handler[s].pc # "idle"
  PROVE  /\ Ask(s) \in Asks /\ Dev(s) \in Devices /\ Ask(s).pool \in Pools
         /\ Ask(s).keys \subseteq Keys /\ Ask(s).keys \subseteq Nat /\ IsFiniteSet(Ask(s).keys)
         /\ Ask(s).kind \in Kinds
<1>1. handler[s] \in Handler /\ handler[s].ask # Nobody
  BY DEF TypeInv, Fits
<1>2. Ask(s) \in Asks
  BY <1>1 DEF Ask, Handler
<1> QED BY <1>2, AskFacts DEF Dev

\* The slot's record with another pc.
LEMMA Moved ==
  ASSUME NEW h \in Handler, NEW pc \in Pcs, NEW new, new = [h EXCEPT !.pc = pc]
  PROVE  /\ new \in Handler /\ new.pc = pc /\ new.ask = h.ask /\ new.targets = h.targets
         /\ new.item = h.item /\ new.n = h.n /\ new.seen = h.seen
BY DEF Handler

LEMMA ItemsFinite ==
  ASSUME NEW d, NEW pool, NEW S, IsFiniteSet(S)
  PROVE  IsFiniteSet({<<d, pool, k>> : k \in S})
<1>1. PICK T : T = {<<d, pool, k>> : k \in S}
  OBVIOUS
<1>2. PICK f : f = [k \in S |-> <<d, pool, k>>]
  OBVIOUS
<1>3. f \in Surjection(S, T)
  BY <1>1, <1>2 DEF Surjection
<1> QED BY <1>1, <1>3, FS_Surjection

\* One slot takes a record, the others keep theirs.
Takes(s, new) == handler' = [handler EXCEPT ![s] = new]

LEMMA GotoTakes ==
  ASSUME TypeInv, NEW s \in Slots, NEW pc \in Pcs, Goto(s, pc)
  PROVE  \E new \in Handler : /\ Takes(s, new)
           /\ new.pc = pc /\ new.ask = Ask(s) /\ new.targets = handler[s].targets
           /\ new.item = handler[s].item /\ new.n = handler[s].n
<1>1. handler[s] \in Handler
  BY DEF TypeInv, Fits
<1>2. PICK new : new = [handler[s] EXCEPT !.pc = pc]
  OBVIOUS
<1>3. Takes(s, new)
  BY <1>2 DEF Goto, Takes, TypeInv, TypeOK
<1> QED BY <1>1, <1>2, <1>3, Moved DEF Ask

LEMMA ReturnTakes ==
  ASSUME NEW s \in Slots, Return(s)
  PROVE  \E new \in Handler : Takes(s, new) /\ Fits(new) /\ new.ask = Nobody /\ new.pc = "idle"
BY IdleFits DEF Return, Takes, Fits, Idle

\* A step of a slot leaves it with a record that fits, of the same request.
Steps(s) == \E new \in Handler : Takes(s, new) /\ Fits(new) /\ (new.pc # "idle" => new.ask = Ask(s))

LEMMA GotoSteps ==
  ASSUME TypeInv, NEW s \in Slots, NEW pc \in Pcs, Goto(s, pc), handler[s].pc # "idle",
         handler[s].pc \in Working <=> pc \in Working,
         pc \notin {"idle", "sign", "take"},
         pc = "insert" => handler[s].pc = "sign",
         pc = "recount" => Ask(s).kind = "upload" /\ Ask(s).pool = "otp",
         pc = "signal" => Ask(s).kind = "claim"
  PROVE  Steps(s)
<1>1. PICK new \in Handler : /\ Takes(s, new)
           /\ new.pc = pc /\ new.ask = Ask(s) /\ new.targets = handler[s].targets
           /\ new.item = handler[s].item /\ new.n = handler[s].n
  BY GotoTakes
<1>2. Fits(handler[s]) 
  BY DEF TypeInv
<1>3. new.ask # Nobody
  BY <1>1, <1>2 DEF Fits, Ask
<1>4. IF new.pc \in Working THEN new.targets # {} /\ new.ask.kind \in {"revoke", "logout"} ELSE new.targets = {}
  BY <1>1, <1>2 DEF Fits, Ask
<1>5. new.pc \in {"sign", "insert"} =>
       /\ new.ask.kind = "upload" /\ IsFiniteSet(new.item)
       /\ \A i \in new.item : i[1] = new.ask.device /\ i[2] = new.ask.pool /\ i[3] \in new.ask.keys
  BY <1>1, <1>2 DEF Fits, Ask
<1>6. Fits(new)
  BY <1>1, <1>3, <1>4, <1>5 DEF Fits
<1> QED BY <1>1, <1>6 DEF Steps

LEMMA ReturnSteps ==
  ASSUME NEW s \in Slots, Return(s)
  PROVE  Steps(s)
BY ReturnTakes DEF Steps

LEMMA TargetIn ==
  ASSUME TypeInv, NEW s \in Slots, handler[s].pc \in Working
  PROVE  Target(s) \in handler[s].targets /\ Target(s) \in Devices
<1>1. handler[s].targets # {} /\ handler[s] \in Handler
  BY DEF TypeInv, Fits
<1> QED BY <1>1 DEF Target, Handler

LEMMA RunSteps ==
  ASSUME TypeInv, NEW s \in Slots, Run(s)
  PROVE  Steps(s)
<1> USE DEF At, Pcs, Working
<1>0. handler[s] \in Handler /\ Fits(handler[s]) /\ handler[s].ask = Ask(s)
  BY DEF TypeInv, Fits, Ask
<1>1. handler[s].pc # "idle"
  <2>1. CASE \/ FindDevice(s) \/ WriteDevice(s) \/ FindTarget(s) \/ CountActive(s) \/ FindOthers(s)
            \/ MarkRevoked(s) \/ WipePrekeys(s) \/ ReleaseLatch(s)
    BY <2>1 DEF FindDevice, WriteDevice, FindTarget, CountActive, FindOthers, MarkRevoked, WipePrekeys, ReleaseLatch
  <2>2. CASE \/ Announce(s) \/ FindOwner(s) \/ CountStock(s) \/ UpsertSigned(s) \/ Insert(s) \/ Recount(s)
            \/ Rearm(s)
    BY <2>2 DEF Announce, FindOwner, CountStock, UpsertSigned, Insert, Recount, Rearm
  <2>3. CASE FindBundle(s) \/ ReadSigned(s) \/ LockCandidate(s) \/ CommitClaim(s) \/ Signal(s) \/ Fail(s)
    BY <2>3 DEF FindBundle, ReadSigned, LockCandidate, CommitClaim, Signal, Fail
  <2> QED BY <2>1, <2>2, <2>3 DEF Run
<1>2. /\ Ask(s) \in Asks /\ Dev(s) \in Devices /\ Ask(s).pool \in Pools /\ Ask(s) # Nobody
      /\ Ask(s).keys \subseteq Keys /\ Ask(s).keys \subseteq Nat /\ IsFiniteSet(Ask(s).keys)
  BY <1>1, RunFacts, NobodyIsNoAsk
<1>3. CASE FindDevice(s)
  <2>1. CASE Return(s)
    BY <2>1, ReturnSteps
  <2>2. CASE handler' = [handler EXCEPT ![s].pc = "write", ![s].seen = rows[Dev(s)]]
    <3>1. PICK new : new = [handler[s] EXCEPT !.pc = "write", !.seen = rows[Dev(s)]]
      OBVIOUS
    <3>2. Takes(s, new)
      BY <2>2, <3>1 DEF Takes, TypeInv, TypeOK
    <3>3. rows[Dev(s)] \in {"none", "active", "revoked"}
      BY <1>2 DEF TypeInv, TypeOK
    <3>4. new \in Handler /\ new.pc = "write" /\ new.targets = handler[s].targets /\ new.ask = Ask(s)
      BY <1>0, <3>1, <3>3 DEF Handler
    <3>5. handler[s].pc = "find"
      BY <1>3 DEF FindDevice
    <3>6. handler[s].targets = {}
      BY <1>0, <3>5 DEF Fits
    <3>7. Fits(new)
      BY <1>2, <3>4, <3>6 DEF Fits
    <3> QED BY <3>2, <3>4, <3>7 DEF Steps
  <2> QED BY <1>3, <2>1, <2>2 DEF FindDevice
<1>4. CASE WriteDevice(s) \/ FindTarget(s)
  BY <1>1, <1>4, GotoSteps, ReturnSteps DEF WriteDevice, FindTarget
<1>5. ASSUME NEW targets \in SUBSET Devices, targets # {}, Ask(s).kind \in {"revoke", "logout"},
             handler' = [handler EXCEPT ![s].pc = "revoke", ![s].targets = targets]
      PROVE  Steps(s)
  <2>1. PICK new : new = [handler[s] EXCEPT !.pc = "revoke", !.targets = targets]
    OBVIOUS
  <2>2. Takes(s, new)
    BY <1>5, <2>1 DEF Takes, TypeInv, TypeOK
  <2>3. new \in Handler /\ new.pc = "revoke" /\ new.targets = targets /\ new.ask = Ask(s)
    BY <1>0, <2>1 DEF Handler
  <2>4. Fits(new)
    BY <1>2, <1>5, <2>3 DEF Fits
  <2> QED BY <2>2, <2>3, <2>4 DEF Steps
<1>6. CASE CountActive(s)
  <2>1. CASE Return(s)
    BY <2>1, ReturnSteps
  <2>2. CASE handler' = [handler EXCEPT ![s].pc = "revoke", ![s].targets = {Dev(s)}]
    <3>1. Ask(s).kind = "revoke" /\ {Dev(s)} \in SUBSET Devices
      BY <1>2, <1>6 DEF CountActive
    <3> QED BY <1>5, <2>2, <3>1
  <2> QED BY <1>6, <2>1, <2>2 DEF CountActive
<1>7. CASE FindOthers(s)
  <2>1. PICK others : others = Active \ {Ask(s).by}
    OBVIOUS
  <2>2. CASE others = {}
    BY <1>7, <2>1, <2>2, ReturnSteps DEF FindOthers
  <2>3. CASE others # {}
    <3>1. others \in SUBSET Devices
      BY <2>1 DEF Active
    <3>2. handler' = [handler EXCEPT ![s].pc = "revoke", ![s].targets = others] /\ Ask(s).kind = "logout"
      BY <1>7, <2>1, <2>3 DEF FindOthers
    <3> QED BY <1>5, <2>3, <3>1, <3>2
  <2> QED BY <2>2, <2>3
<1>8. CASE MarkRevoked(s) \/ WipePrekeys(s) \/ ReleaseLatch(s)
  BY <1>1, <1>8, GotoSteps DEF MarkRevoked, WipePrekeys, ReleaseLatch
<1>9. CASE Announce(s)
  <2>1. PICK d : d = Target(s)
    OBVIOUS
  <2>2. CASE handler[s].targets = {d}
    <3>1. Return(s)
      BY <1>9, <2>1, <2>2 DEF Announce, Return, TypeInv, TypeOK
    <3> QED BY <3>1, ReturnSteps
  <2>3. CASE handler[s].targets # {d}
    <3>1. PICK new : new = [handler[s] EXCEPT !.pc = "revoke", !.targets = handler[s].targets \ {d}]
      OBVIOUS
    <3>2. Takes(s, new)
      BY <1>9, <2>1, <2>3, <3>1 DEF Announce, Takes, TypeInv, TypeOK
    <3>3. handler[s].pc = "announce"
      BY <1>9 DEF Announce
    <3>4. handler[s].targets # {} /\ handler[s].targets \subseteq Devices
          /\ Ask(s).kind \in {"revoke", "logout"}
      BY <1>0, <3>3 DEF Fits, Handler
    <3>5. new \in Handler /\ new.pc = "revoke" /\ new.targets = handler[s].targets \ {d} /\ new.ask = Ask(s)
      BY <1>0, <3>1, <3>4 DEF Handler
    <3>6. Fits(new)
      BY <1>2, <2>3, <3>4, <3>5 DEF Fits
    <3> QED BY <3>2, <3>5, <3>6 DEF Steps
  <2> QED BY <2>2, <2>3
<1>10. CASE FindOwner(s)
  BY <1>1, <1>10, GotoSteps, ReturnSteps DEF FindOwner
<1>11. CASE CountStock(s)
  <2>1. PICK room : room = Cap - Stock(Dev(s), Ask(s).pool)
    OBVIOUS
  <2>2. CASE room <= 0
    BY <1>11, <2>1, <2>2, ReturnSteps DEF CountStock
  <2>3. CASE ~(room <= 0)
    <3>1. PICK pc, item : /\ pc = IF Ask(s).pool = "otp" THEN "sign" ELSE "insert"
                          /\ item = {<<Dev(s), Ask(s).pool, k>> : k \in Trimmed(Ask(s).keys, room)}
      OBVIOUS
    <3>2. handler' = [handler EXCEPT ![s].pc = pc, ![s].item = item]
      BY <1>11, <2>1, <2>3, <3>1 DEF CountStock
    <3>3. PICK new : new = [handler[s] EXCEPT !.pc = pc, !.item = item]
      OBVIOUS
    <3>4. Takes(s, new)
      BY <3>2, <3>3 DEF Takes, TypeInv, TypeOK
    <3>5. Trimmed(Ask(s).keys, room) \subseteq Ask(s).keys
      BY DEF Trimmed
    <3>6. item \subseteq Items /\ \A i \in item : i[1] = Dev(s) /\ i[2] = Ask(s).pool /\ i[3] \in Ask(s).keys
      BY <1>2, <3>1, <3>5 DEF Items
    <3>11. IsFiniteSet(item)
      <4>1. IsFiniteSet(Trimmed(Ask(s).keys, room))
        BY <1>2, <3>5, FS_Subset
      <4> QED BY <3>1, <4>1, ItemsFinite
    <3>7. new \in Handler /\ new.pc = pc /\ new.item = item /\ new.targets = handler[s].targets /\ new.ask = Ask(s)
      BY <1>0, <3>1, <3>3, <3>6 DEF Handler
    <3>8. handler[s].pc = "count" /\ Ask(s).kind = "upload"
      BY <1>11 DEF CountStock
    <3>9. handler[s].targets = {}
      BY <1>0, <3>8 DEF Fits
    <3>10. Fits(new)
      BY <1>2, <3>1, <3>6, <3>7, <3>8, <3>9, <3>11 DEF Fits, Dev
    <3> QED BY <3>4, <3>7, <3>10 DEF Steps
  <2> QED BY <2>2, <2>3
<1>12. CASE UpsertSigned(s) \/ Recount(s) \/ Rearm(s)
  <2>1. CASE UpsertSigned(s)
    BY <1>1, <2>1, GotoSteps DEF UpsertSigned
  <2>2. CASE Recount(s)
    BY <1>1, <2>2, GotoSteps, ReturnSteps DEF Recount
  <2>3. CASE Rearm(s)
    BY <1>1, <2>3, ReturnSteps DEF Rearm
  <2> QED BY <1>12, <2>1, <2>2, <2>3
<1>13. CASE Insert(s)
  BY <1>1, <1>2, <1>13, GotoSteps, ReturnSteps DEF Insert, Pools
<1>14. CASE FindBundle(s) \/ ReadSigned(s)
  BY <1>1, <1>2, <1>14, GotoSteps, ReturnSteps DEF FindBundle, ReadSigned, Pools
<1>15. CASE LockCandidate(s)
  <2>1. CASE Return(s)
    BY <2>1, ReturnSteps
  <2>2. CASE ~Return(s)
    <3>1. PICK i \in Candidates(Dev(s), Ask(s).pool) :
            handler' = [handler EXCEPT ![s].pc = "take", ![s].item = {i},
                                       ![s].n = Stock(Dev(s), Ask(s).pool) - 1]
      BY <1>15, <2>2 DEF LockCandidate
    <3>2. PICK n : n = Stock(Dev(s), Ask(s).pool) - 1
      OBVIOUS
    <3>3. PICK new : new = [handler[s] EXCEPT !.pc = "take", !.item = {i}, !.n = n]
      OBVIOUS
    <3>4. Takes(s, new)
      BY <3>1, <3>2, <3>3 DEF Takes, TypeInv, TypeOK
    <3>5. i \in Items /\ i[1] = Dev(s) /\ i[2] = Ask(s).pool
      BY <3>1 DEF Candidates, Of, TypeInv, TypeOK
    <3>6. n \in Int
      <4>1. Of(fresh, Dev(s), Ask(s).pool) \subseteq fresh
        BY DEF Of
      <4> QED BY <3>2, <4>1, FS_CardinalityType, FS_Subset DEF Stock, TypeInv, TypeOK
    <3>7. new \in Handler /\ new.pc = "take" /\ new.item = {i} /\ new.targets = handler[s].targets /\ new.ask = Ask(s)
      BY <1>0, <3>3, <3>5, <3>6 DEF Handler
    <3>8. handler[s].pc = "lock" /\ Ask(s).kind = "claim"
      BY <1>15 DEF LockCandidate
    <3>9. handler[s].targets = {}
      BY <1>0, <3>8 DEF Fits
    <3>10. Fits(new)
      BY <1>2, <3>5, <3>7, <3>8, <3>9 DEF Fits, Dev
    <3> QED BY <3>4, <3>7, <3>10 DEF Steps
  <2> QED BY <2>1, <2>2
<1>16. CASE CommitClaim(s) \/ Signal(s) \/ Fail(s)
  BY <1>1, <1>16, GotoSteps, ReturnSteps DEF CommitClaim, Signal, Fail
<1> QED BY <1>3, <1>4, <1>6, <1>7, <1>8, <1>9, <1>10, <1>11, <1>12, <1>13, <1>14, <1>15, <1>16 DEF Run

\* A slot's step keeps the handlers' types.
LEMMA StepsTypes ==
  ASSUME TypeInv, NEW s \in Slots, Steps(s), handler[s].pc # "idle", left' = left
  PROVE  /\ handler' \in [Slots -> Handler] /\ RunsAsked'
         /\ \A t \in Slots : Fits(handler'[t]) /\ (t # s => handler'[t] = handler[t])
         /\ handler'[s].pc # "idle" => Ask(s)' = Ask(s)
<1>1. PICK new \in Handler : Takes(s, new) /\ Fits(new) /\ (new.pc # "idle" => new.ask = Ask(s))
  BY DEF Steps
<1>2. handler \in [Slots -> Handler] /\ \A t \in Slots : Fits(handler[t])
  BY DEF TypeInv, TypeOK
<1>3. /\ handler' \in [Slots -> Handler]
      /\ \A t \in Slots : handler'[t] = IF t = s THEN new ELSE handler[t]
  BY <1>1, <1>2 DEF Takes
<1>4. RunsAsked'
  BY <1>1, <1>3 DEF RunsAsked, Ask, TypeInv
<1> QED BY <1>1, <1>2, <1>3, <1>4 DEF Ask

\* Every step of a slot starts where the slot runs, and keeps the counts of
\* requests.
LEMMA RunFrame ==
  ASSUME NEW s \in Slots, Run(s)
  PROVE  handler[s].pc # "idle" /\ UNCHANGED <<online, left, nonce, socket>>
<1> USE DEF At, store, gate, history
<1>1. CASE \/ FindDevice(s) \/ WriteDevice(s) \/ FindTarget(s) \/ CountActive(s) \/ FindOthers(s)
            \/ MarkRevoked(s) \/ WipePrekeys(s) \/ ReleaseLatch(s)
  BY <1>1 DEF FindDevice, WriteDevice, FindTarget, CountActive, FindOthers, MarkRevoked, WipePrekeys, ReleaseLatch
<1>2. CASE \/ Announce(s) \/ FindOwner(s) \/ CountStock(s) \/ UpsertSigned(s) \/ Insert(s) \/ Recount(s)
            \/ Rearm(s)
  BY <1>2 DEF Announce, FindOwner, CountStock, UpsertSigned, Insert, Recount, Rearm
<1>3. CASE FindBundle(s) \/ ReadSigned(s) \/ LockCandidate(s) \/ CommitClaim(s) \/ Signal(s) \/ Fail(s)
  BY <1>3 DEF FindBundle, ReadSigned, LockCandidate, CommitClaim, Signal, Fail
<1> QED BY <1>1, <1>2, <1>3 DEF Run

\* The slot's steps that change its handler only.
Looks(s) ==
  \/ FindDevice(s) \/ FindTarget(s) \/ CountActive(s) \/ FindOthers(s) \/ FindOwner(s)
  \/ CountStock(s) \/ Recount(s) \/ FindBundle(s) \/ ReadSigned(s)
LEMMA LooksFrame ==
  ASSUME NEW s \in Slots, Looks(s)
  PROVE  UNCHANGED <<online, left, rows, store, nonce, gate, faults, history>>
BY DEF Looks, FindDevice, FindTarget, CountActive, FindOthers, FindOwner, CountStock, Recount,
       FindBundle, ReadSigned

LEMMA RunTypes ==
  ASSUME TypeInv, NEW s \in Slots, Run(s)
  PROVE  TypeInv'
<1>1. /\ handler' \in [Slots -> Handler] /\ RunsAsked' /\ \A t \in Slots : Fits(handler'[t])
      /\ UNCHANGED <<online, left, nonce, socket>> /\ handler[s].pc # "idle"
  BY RunSteps, RunFrame, StepsTypes
<1>2. Dev(s) \in Devices
  BY <1>1, RunFacts
<1>3. Fits(handler[s]) /\ handler[s] \in Handler
  BY DEF TypeInv, Fits
<1>4. handler[s].item \subseteq Items /\ handler[s].targets \subseteq Devices
  BY <1>3 DEF Handler
<1> SUFFICES TypeOK'
  BY <1>1 DEF TypeInv
<1> USE DEF store, gate, history
<1>5. CASE Looks(s)
  BY <1>1, <1>5, LooksFrame DEF TypeInv, TypeOK
<1>6. CASE WriteDevice(s)
  <2>1. rows' \in [Devices -> {"none", "active", "revoked"}]
    BY <1>2, <1>6 DEF WriteDevice, TypeInv, TypeOK
  <2> QED BY <1>1, <1>6, <2>1 DEF WriteDevice, TypeInv, TypeOK
<1>7. CASE handler[s].pc \in Working /\ (MarkRevoked(s) \/ WipePrekeys(s) \/ ReleaseLatch(s) \/ Announce(s))
  <2>1. Target(s) \in Devices
    BY <1>7, TargetIn
  <2>2. CASE MarkRevoked(s)
    BY <1>1, <2>1, <2>2 DEF MarkRevoked, TypeInv, TypeOK
  <2>3. CASE WipePrekeys(s)
    <3>1. PICK d \in Devices : d = Target(s)
      BY <2>1
    <3>2. IsFiniteSet(fresh')
      BY <2>3, FS_Subset DEF WipePrekeys, TypeInv, TypeOK
    <3>3. /\ fresh' \cup used' \cup given' \subseteq Items /\ fresh' \cap used' = {}
          /\ locked' \subseteq fresh'
      BY <2>3 DEF WipePrekeys, Of, TypeInv, TypeOK
    <3> QED BY <1>1, <2>3, <3>2, <3>3 DEF WipePrekeys, TypeInv, TypeOK
  <2>4. CASE ReleaseLatch(s)
    BY <1>1, <2>4 DEF ReleaseLatch, TypeInv, TypeOK
  <2>5. CASE Announce(s)
    <3>1. PICK d \in Devices : d = Target(s)
      BY <2>1
    <3>2. faults' \in 0..MaxFaults
      BY <2>5, BoundsAreNaturals DEF Announce, TypeInv, TypeOK
    <3>3. revokedMidSession' \in [Instances -> SUBSET Devices]
      BY <2>5, <3>1 DEF Announce, TypeInv, TypeOK
    <3>4. flight' \subseteq Instances \X Devices /\ cut' \subseteq Devices
      BY <2>5, <3>1 DEF Announce, TypeInv, TypeOK
    <3> QED BY <1>1, <2>5, <3>2, <3>3, <3>4 DEF Announce, TypeInv, TypeOK
  <2> QED BY <1>7, <2>2, <2>3, <2>4, <2>5
<1>8. CASE UpsertSigned(s) \/ Rearm(s) \/ Signal(s)
  <2>1. CASE UpsertSigned(s)
    BY <1>1, <1>2, <2>1 DEF UpsertSigned, TypeInv, TypeOK
  <2>2. CASE Rearm(s)
    BY <1>1, <1>2, <2>2 DEF Rearm, TypeInv, TypeOK
  <2>3. CASE Signal(s)
    BY <1>1, <1>2, <2>3 DEF Signal, TypeInv, TypeOK
  <2> QED BY <1>8, <2>1, <2>2, <2>3
<1>9. CASE Insert(s)
  <2>1. IsFiniteSet(handler[s].item)
    BY <1>3, <1>9 DEF Insert, At, Fits
  <2>2. IsFiniteSet(NewItems(handler[s].item))
    BY <2>1, FS_Subset DEF NewItems
  <2>3. IsFiniteSet(fresh')
    BY <1>9, <2>2, FS_Union DEF Insert, TypeInv, TypeOK
  <2>4. /\ fresh' \cup used' \cup given' \subseteq Items /\ fresh' \cap used' = {}
        /\ locked' \subseteq fresh'
    BY <1>4, <1>9 DEF Insert, NewItems, TypeInv, TypeOK
  <2>5. told' \cup drained' \subseteq told \cup drained
    BY <1>9 DEF Insert
  <2> QED BY <1>1, <1>9, <2>3, <2>4, <2>5 DEF Insert, TypeInv, TypeOK
<1>10. CASE LockCandidate(s)
  <2>1. locked' = locked \/ \E i \in Candidates(Dev(s), Ask(s).pool) : locked' = locked \cup {i}
    BY <1>10 DEF LockCandidate
  <2>2. Candidates(Dev(s), Ask(s).pool) \subseteq fresh /\ fresh' = fresh
    BY <1>10 DEF LockCandidate, Candidates, Of
  <2>3. disturbed' \subseteq disturbed \cup {Dev(s)}
    BY <1>10 DEF LockCandidate
  <2>4. locked' \subseteq fresh' /\ disturbed' \subseteq Devices
    BY <1>2, <2>1, <2>2, <2>3 DEF TypeInv, TypeOK
  <2> QED BY <1>1, <1>10, <2>4 DEF LockCandidate, TypeInv, TypeOK
<1>11. CASE CommitClaim(s)
  <2>1. IsFiniteSet(fresh')
    BY <1>11, FS_Subset DEF CommitClaim, TypeInv, TypeOK
  <2>2. /\ fresh' \cup used' \cup given' \subseteq Items /\ fresh' \cap used' = {}
        /\ locked' \subseteq fresh'
    BY <1>4, <1>11 DEF CommitClaim, TypeInv, TypeOK
  <2>3. drained' \subseteq Devices
    BY <1>2, <1>11 DEF CommitClaim, TypeInv, TypeOK
  <2> QED BY <1>1, <1>11, <2>1, <2>2, <2>3 DEF CommitClaim, TypeInv, TypeOK
<1>12. CASE Fail(s)
  <2>1. faults' \in 0..MaxFaults
    BY <1>12, BoundsAreNaturals DEF Fail, TypeInv, TypeOK
  <2>2. locked' \subseteq locked
    BY <1>12 DEF Fail
  <2>3. cut' \cup disturbed' \subseteq Devices
    BY <1>4, <1>12 DEF Fail, Unannounced, TypeInv, TypeOK
  <2> QED BY <1>1, <1>12, <2>1, <2>2, <2>3 DEF Fail, TypeInv, TypeOK
<1>13. MarkRevoked(s) \/ WipePrekeys(s) \/ ReleaseLatch(s) \/ Announce(s) => handler[s].pc \in Working
  BY DEF MarkRevoked, WipePrekeys, ReleaseLatch, Announce, Working
<1> QED BY <1>5, <1>6, <1>7, <1>8, <1>9, <1>10, <1>11, <1>12, <1>13 DEF Run, Looks

\* A request starts: its record fits, and the slot was free.
LEMMA BeginSteps ==
  ASSUME TypeInv, NEW s \in Slots, NEW r \in DOMAIN left, Begin(s, r)
  PROVE  \E new \in Handler : Takes(s, new) /\ Fits(new) /\ new.ask = r /\ new.pc = "find" /\ new.targets = {}
<1>1. r \in Asks /\ r # Nobody
  BY NobodyIsNoAsk DEF TypeInv, TypeOK
<1>2. PICK new : new = [Idle EXCEPT !.pc = "find", !.ask = r]
  OBVIOUS
<1>3. Takes(s, new)
  BY <1>2 DEF Begin, Start, Takes
<1>4. new \in Handler /\ new.ask = r /\ new.pc = "find" /\ new.targets = {}
  <2>1. Idle \in Handler /\ Idle.targets = {}
    BY IdleFits DEF Fits, Idle
  <2> QED BY <1>1, <1>2, <2>1 DEF Handler, Pcs
<1>5. Fits(new)
  BY <1>1, <1>4 DEF Fits, Working
<1> QED BY <1>3, <1>4, <1>5

LEMMA BeginTypes ==
  ASSUME TypeInv, NEW s \in Slots, NEW r \in DOMAIN left, Begin(s, r)
  PROVE  TypeInv'
<1> USE DEF store, gate, history
<1>1. PICK new \in Handler : Takes(s, new) /\ Fits(new) /\ new.ask = r /\ new.pc = "find" /\ new.targets = {}
  BY BeginSteps
<1>2. handler' \in [Slots -> Handler] /\ \A t \in Slots : handler'[t] = IF t = s THEN new ELSE handler[t]
  BY <1>1 DEF Takes, TypeInv, TypeOK
<1>3. left' \in [DOMAIN left' -> Nat] /\ DOMAIN left' = DOMAIN left
  BY DEF Begin, Start, TypeInv, TypeOK
<1>4. RunsAsked'
  BY <1>1, <1>2, <1>3 DEF RunsAsked, Ask, TypeInv
<1>5. r \in Asks
  BY DEF TypeInv, TypeOK
<1>6. disturbed' \subseteq Devices
  <2>1. r.device \in Devices
    BY <1>5, AskFacts
  <2> QED BY <2>1 DEF Begin, Start, TypeInv, TypeOK
<1>7. nonce' \in [Instances -> Asks \cup {Nobody}]
  BY DEF Begin, Spent, TypeInv, TypeOK
<1>8. TypeOK'
  BY <1>2, <1>3, <1>6, <1>7 DEF Begin, TypeInv, TypeOK
<1> QED BY <1>1, <1>2, <1>4, <1>8 DEF TypeInv

\* The steps of the clients, the network, the sockets and the collector.
LEMMA OtherTypes ==
  ASSUME TypeInv,
         \/ \E i \in Instances, r \in DOMAIN left : Challenge(i, r)
         \/ \E i \in Instances : Expire(i) \/ Restart(i)
         \/ \E d \in Devices, i \in Instances :
              HearRevoked(i, d) \/ CheckSocket(d, i) \/ RegisterSocket(d, i) \/ Event(d, i)
         \/ \E i \in fresh \cup used : Collect(i)
         \/ UNCHANGED vars
  PROVE  TypeInv' /\ handler' = handler
<1> USE DEF store, gate, history
<1>1. handler' = handler /\ left' = left
  BY DEF Challenge, Expire, Restart, HearRevoked, CheckSocket, RegisterSocket, Event, Collect, vars
<1> SUFFICES TypeOK'
  BY <1>1 DEF TypeInv, RunsAsked, Ask
<1>2. ASSUME NEW i \in Instances, NEW r \in DOMAIN left, Challenge(i, r)
      PROVE  TypeOK'
  BY <1>2 DEF Challenge, TypeInv, TypeOK
<1>3. ASSUME NEW i \in Instances, Expire(i)
      PROVE  TypeOK'
  BY <1>3 DEF Expire, TypeInv, TypeOK
<1>4. ASSUME NEW i \in Instances, Restart(i)
      PROVE  TypeOK'
  <2>1. faults' \in 0..MaxFaults
    BY <1>4, BoundsAreNaturals DEF Restart, TypeInv, TypeOK
  <2>2. socket' \in [Devices \X Instances -> {"off", "checked", "on"}]
    BY <1>4 DEF Restart, TypeInv, TypeOK
  <2> QED BY <1>4, <2>1, <2>2 DEF Restart, TypeInv, TypeOK
<1>5. ASSUME NEW d \in Devices, NEW i \in Instances,
             HearRevoked(i, d) \/ CheckSocket(d, i) \/ RegisterSocket(d, i) \/ Event(d, i)
      PROVE  TypeOK'
  <2>1. socket' \in [Devices \X Instances -> {"off", "checked", "on"}]
    BY <1>5 DEF HearRevoked, CheckSocket, RegisterSocket, Event, TypeInv, TypeOK
  <2>2. revokedMidSession' \in [Instances -> SUBSET Devices]
    BY <1>5 DEF HearRevoked, Marked, CheckSocket, RegisterSocket, Event, TypeInv, TypeOK
  <2>3. flight' \subseteq flight
    BY <1>5 DEF HearRevoked, CheckSocket, RegisterSocket, Event
  <2> QED BY <1>1, <1>5, <2>1, <2>2, <2>3 DEF HearRevoked, CheckSocket, RegisterSocket, Event, TypeInv, TypeOK
<1>6. ASSUME NEW i \in fresh \cup used, Collect(i)
      PROVE  TypeOK'
  <2>1. IsFiniteSet(fresh')
    BY <1>6, FS_Subset DEF Collect, TypeInv, TypeOK
  <2>2. i[1] \in Devices
    BY DEF TypeInv, TypeOK, Items
  <2>3. disturbed' \subseteq Devices
    BY <1>6, <2>2 DEF Collect, TypeInv, TypeOK
  <2>4. /\ fresh' \cup used' \cup given' \subseteq Items /\ fresh' \cap used' = {}
        /\ locked' \subseteq fresh'
    BY <1>6 DEF Collect, TypeInv, TypeOK
  <2> QED BY <1>1, <1>6, <2>1, <2>3, <2>4 DEF Collect, TypeInv, TypeOK
<1>7. CASE UNCHANGED vars
  BY <1>7 DEF vars, TypeInv, TypeOK
<1> QED BY <1>2, <1>3, <1>4, <1>5, <1>6, <1>7

LEMMA StepTypes == TypeInv /\ [Next]_vars => TypeInv'
BY RunTypes, BeginTypes, OtherTypes DEF Next

\* A slot lets go of a target only by announcing it, or by failing.
LEMMA TargetsKept ==
  ASSUME TypeInv, TypeInv', NEW s \in Slots, Run(s), ~Announce(s), ~Fail(s)
  PROVE  handler[s].targets \subseteq handler'[s].targets
<1>1. Fits(handler[s]) /\ handler[s] \in Handler /\ handler \in [Slots -> Handler]
  BY DEF TypeInv, TypeOK, Fits
<1>2. CASE handler[s].pc \notin Working
  BY <1>1, <1>2 DEF Fits
<1>3. CASE handler[s].pc \in Working
  <2>1. MarkRevoked(s) \/ WipePrekeys(s) \/ ReleaseLatch(s)
    <3>1. handler[s].pc \notin {"find", "write", "count", "sign", "insert", "recount", "rearm", "signed",
                                "lock", "take", "signal"}
      BY <1>3 DEF Working
    <3> QED BY <3>1 DEF Run, At, FindDevice, WriteDevice, FindTarget, CountActive, FindOthers, FindOwner,
                        CountStock, UpsertSigned, Insert, Recount, Rearm, FindBundle, ReadSigned,
                        LockCandidate, CommitClaim, Signal
  <2>2. PICK pc \in Pcs : Goto(s, pc)
    BY <2>1 DEF MarkRevoked, WipePrekeys, ReleaseLatch, Pcs
  <2>3. PICK new \in Handler : Takes(s, new) /\ new.targets = handler[s].targets
    BY <2>2, GotoTakes
  <2> QED BY <1>1, <2>3 DEF Takes
<1> QED BY <1>2, <1>3

\* Which steps write what a revocation is about.
LEMMA RevocationFrame ==
  ASSUME NEW s \in Slots, Run(s), ~Announce(s), ~Fail(s)
  PROVE  /\ UNCHANGED <<revokedMidSession, flight, cut>>
         /\ rows' = rows \/ WriteDevice(s) \/ MarkRevoked(s)
<1> USE DEF gate, history, store
<1>1. CASE Looks(s) \/ WriteDevice(s) \/ MarkRevoked(s) \/ WipePrekeys(s) \/ ReleaseLatch(s)
  BY <1>1, LooksFrame DEF WriteDevice, MarkRevoked, WipePrekeys, ReleaseLatch
<1>2. CASE UpsertSigned(s) \/ Insert(s) \/ Rearm(s) \/ LockCandidate(s) \/ CommitClaim(s) \/ Signal(s)
  BY <1>2 DEF UpsertSigned, Insert, Rearm, LockCandidate, CommitClaim, Signal
<1> QED BY <1>1, <1>2 DEF Run, Looks

\* The antecedent and the consequent of RevokedIsSilent for one device and one
\* instance.
Done(d, i) ==
  /\ rows[d] = "revoked" /\ d \notin cut
  /\ <<i, d>> \notin flight /\ \A s \in Slots : d \notin handler[s].targets
Shut(d, i) == socket[<<d, i>>] = "off" \/ Refused(d, i)

LEMMA RunSilent ==
  ASSUME TypeInv, TypeInv', RevokedIsSilent, NEW s \in Slots, Run(s)
  PROVE  RevokedIsSilent'
<1> SUFFICES ASSUME NEW d \in Devices, NEW i \in Instances, Done(d, i)'
             PROVE  Shut(d, i)'
  BY DEF RevokedIsSilent, Done, Shut
<1>1. Done(d, i) => Shut(d, i)
  BY DEF RevokedIsSilent, Done, Shut
<1>2. socket' = socket /\ handler[s].pc # "idle"
  BY RunFrame
<1>3. \A t \in Slots : t # s => handler'[t] = handler[t]
  BY <1>2, RunSteps, RunFrame, StepsTypes
<1>4. handler[s] \in Handler /\ rows \in [Devices -> {"none", "active", "revoked"}]
  BY DEF TypeInv, TypeOK
<1>5. CASE ~Announce(s) /\ ~Fail(s)
  <2>1. /\ UNCHANGED <<revokedMidSession, flight, cut>>
        /\ handler[s].targets \subseteq handler'[s].targets
        /\ rows' = rows \/ WriteDevice(s) \/ MarkRevoked(s)
    BY <1>5, RevocationFrame, TargetsKept
  <2>2. \A t \in Slots : d \notin handler[t].targets
    BY <1>3, <2>1 DEF Done
  <2>3. rows[d] = "revoked"
    <3>1. CASE WriteDevice(s)
      BY <1>4, <3>1 DEF WriteDevice, Done
    <3>2. CASE MarkRevoked(s)
      <4>1. handler[s].pc \in Working
        BY <3>2 DEF MarkRevoked, Working
      <4>2. d # Target(s)
        BY <2>2, <4>1, TargetIn
      <4> QED BY <1>4, <3>2, <4>2 DEF MarkRevoked, Done
    <3> QED BY <2>1, <3>1, <3>2 DEF Done
  <2> QED BY <1>1, <1>2, <2>1, <2>2, <2>3 DEF Done, Shut, Refused
<1>6. CASE Announce(s)
  <2>1. PICK e \in Devices : e = Target(s) /\ e \in handler[s].targets
    <3>1. handler[s].pc \in Working
      BY <1>6 DEF Announce, Working
    <3> QED BY <3>1, TargetIn
  <2>2. /\ rows' = rows /\ flight \subseteq flight' /\ cut \subseteq cut'
        /\ e \in cut' \/ <<i, e>> \in flight'
    BY <1>6, <2>1 DEF Announce
  <2>3. d # e
    BY <2>2 DEF Done
  <2>4. handler[s].targets \subseteq handler'[s].targets \cup {e}
    <3>1. CASE handler[s].targets = {e}
      BY <3>1
    <3>2. CASE handler[s].targets # {e}
      <4>1. handler' = [handler EXCEPT ![s] =
              [handler[s] EXCEPT !.pc = "revoke", !.targets = handler[s].targets \ {e}]]
        BY <1>6, <2>1, <3>2 DEF Announce
      <4>2. handler'[s] = [handler[s] EXCEPT !.pc = "revoke", !.targets = handler[s].targets \ {e}]
        BY <4>1 DEF TypeInv, TypeOK
      <4> QED BY <1>4, <4>2 DEF Handler
    <3> QED BY <3>1, <3>2
  <2>5. \A t \in Slots : d \notin handler[t].targets
    BY <1>3, <2>3, <2>4 DEF Done
  <2>6. revokedMidSession[i] \subseteq revokedMidSession'[i]
    BY <1>6, <2>1 DEF Announce, TypeInv, TypeOK
  <2> QED BY <1>1, <1>2, <2>2, <2>5, <2>6 DEF Done, Shut, Refused
<1>7. CASE Fail(s)
  <2>1. UNCHANGED <<rows, flight, revokedMidSession>> /\ cut' = cut \cup Unannounced(s)
    BY <1>7 DEF Fail, gate
  <2>2. d \notin handler[s].targets
    BY <1>2, <2>1 DEF Done, Unannounced
  <2> QED BY <1>1, <1>2, <1>3, <2>1, <2>2 DEF Done, Shut, Refused
<1> QED BY <1>5, <1>6, <1>7

LEMMA OtherSilent ==
  ASSUME TypeInv, TypeInv', RevokedIsSilent, [Next]_vars, ~(\E s \in Slots : Run(s))
  PROVE  RevokedIsSilent'
<1> SUFFICES ASSUME NEW d \in Devices, NEW i \in Instances, Done(d, i)'
             PROVE  Shut(d, i)'
  BY DEF RevokedIsSilent, Done, Shut
<1>1. Done(d, i) => Shut(d, i)
  BY DEF RevokedIsSilent, Done, Shut
<1> USE DEF store, gate, history, Done, Shut, Refused
<1>2. /\ socket \in [Devices \X Instances -> {"off", "checked", "on"}]
      /\ revokedMidSession \in [Instances -> SUBSET Devices]
  BY DEF TypeInv, TypeOK
<1>3. ASSUME NEW s \in Slots, NEW r \in DOMAIN left, Begin(s, r)
      PROVE  Shut(d, i)'
  <2>1. PICK new \in Handler : Takes(s, new) /\ Fits(new)
    BY <1>3, BeginSteps
  <2>2. handler[s].targets = {}
    <3>1. handler[s].pc = "idle" /\ Fits(handler[s])
      BY <1>3 DEF Begin, Start, TypeInv
    <3> QED BY <3>1 DEF Fits, Working
  <2>3. \A t \in Slots : t # s => handler'[t] = handler[t]
    BY <2>1 DEF Takes, TypeInv, TypeOK
  <2>4. \A t \in Slots : d \notin handler[t].targets
    BY <2>2, <2>3
  <2> QED BY <1>1, <1>3, <2>4 DEF Begin
<1>4. ASSUME NEW j \in Instances, NEW r \in DOMAIN left, Challenge(j, r)
      PROVE  Shut(d, i)'
  BY <1>1, <1>4 DEF Challenge
<1>5. ASSUME NEW j \in Instances, Expire(j) PROVE Shut(d, i)'
  BY <1>1, <1>5 DEF Expire
<1>6. ASSUME NEW j \in Instances, Restart(j) PROVE Shut(d, i)'
  <2>1. CASE j = i
    BY <1>2, <1>6, <2>1 DEF Restart
  <2>2. CASE j # i
    <3>1. <<i, d>> \notin flight
      BY <1>6, <2>2 DEF Restart
    <3>2. socket'[<<d, i>>] = socket[<<d, i>>] /\ revokedMidSession'[i] = revokedMidSession[i]
      BY <1>2, <1>6, <2>2 DEF Restart
    <3> QED BY <1>1, <1>6, <3>1, <3>2 DEF Restart
  <2> QED BY <2>1, <2>2
<1>7. ASSUME NEW e \in Devices, NEW j \in Instances, HearRevoked(j, e)
      PROVE  Shut(d, i)'
  <2>1. CASE e = d /\ j = i
    BY <1>2, <1>7, <2>1 DEF HearRevoked, Marked
  <2>2. CASE ~(e = d /\ j = i)
    <3>1. <<i, d>> \notin flight
      BY <1>7, <2>2 DEF HearRevoked
    <3>2. revokedMidSession[i] \subseteq revokedMidSession'[i]
      BY <1>2, <1>7 DEF HearRevoked, Marked
    <3>3. socket[<<d, i>>] = "off" => socket'[<<d, i>>] = "off"
      BY <1>2, <1>7 DEF HearRevoked
    <3> QED BY <1>1, <1>7, <3>1, <3>2, <3>3 DEF HearRevoked
  <2> QED BY <2>1, <2>2
<1>8. ASSUME NEW e \in Devices, NEW j \in Instances, CheckSocket(e, j) \/ RegisterSocket(e, j) \/ Event(e, j)
      PROVE  Shut(d, i)'
  <2>1. UNCHANGED <<rows, cut, flight, handler, revokedMidSession>>
    BY <1>8 DEF CheckSocket, RegisterSocket, Event
  <2>2. socket[<<d, i>>] = "off" => socket'[<<d, i>>] = "off"
    BY <1>2, <1>8, <2>1 DEF CheckSocket, RegisterSocket, Event
  <2> QED BY <1>1, <2>1, <2>2
<1>9. ASSUME NEW k \in fresh \cup used, Collect(k) PROVE Shut(d, i)'
  BY <1>1, <1>9 DEF Collect
<1>10. CASE UNCHANGED vars
  BY <1>1, <1>10 DEF vars
<1> QED BY <1>3, <1>4, <1>5, <1>6, <1>7, <1>8, <1>9, <1>10 DEF Next

\* The handler of a slot after a step of it.
LEMMA HandlerAfter ==
  ASSUME TypeInv, NEW s \in Slots
  PROVE  /\ \A pc \in Pcs : Goto(s, pc) => handler'[s].pc = pc
         /\ Return(s) => handler'[s].pc = "idle"
<1>1. ASSUME NEW pc \in Pcs, Goto(s, pc)
      PROVE  handler'[s].pc = pc
  BY <1>1, GotoTakes DEF Takes, TypeInv, TypeOK
<1>2. Return(s) => handler'[s].pc = "idle"
  BY DEF Return, Idle, TypeInv, TypeOK
<1> QED BY <1>1, <1>2

\* Only LockCandidate brings a slot to "take", and only three steps bring it to
\* the later statements of revokeDeviceRow.
Later == {"wipe", "release", "announce"}
LEMMA PcAfter ==
  ASSUME TypeInv, NEW s \in Slots, Run(s), ~LockCandidate(s),
         ~MarkRevoked(s), ~WipePrekeys(s), ~ReleaseLatch(s)
  PROVE  handler'[s].pc \notin Later \cup {"take"}
<1>0. handler \in [Slots -> Handler] /\ handler[s] \in Handler
  BY DEF TypeInv, TypeOK
<1> USE DEF Pcs, Later
<1>1. CASE FindDevice(s)
  <2>1. CASE Return(s)
    BY <2>1, HandlerAfter
  <2>2. CASE handler' = [handler EXCEPT ![s].pc = "write", ![s].seen = rows[Dev(s)]]
    BY <1>0, <2>2 DEF Handler
  <2> QED BY <1>1, <2>1, <2>2 DEF FindDevice
<1>2. CASE WriteDevice(s) \/ FindTarget(s)
  BY <1>2, HandlerAfter DEF WriteDevice, FindTarget
<1>3. ASSUME NEW S, handler' = [handler EXCEPT ![s].pc = "revoke", ![s].targets = S]
      PROVE  handler'[s].pc \notin Later \cup {"take"}
  BY <1>0, <1>3 DEF Handler
<1>4. CASE CountActive(s)
  BY <1>3, <1>4, HandlerAfter DEF CountActive
<1>5. CASE FindOthers(s)
  <2>1. PICK others : others = Active \ {Ask(s).by}
    OBVIOUS
  <2>2. CASE others = {}
    BY <1>5, <2>1, <2>2, HandlerAfter DEF FindOthers
  <2>3. CASE others # {}
    BY <1>3, <1>5, <2>1, <2>3 DEF FindOthers
  <2> QED BY <2>2, <2>3
<1>6. CASE Announce(s)
  <2>1. PICK d : d = Target(s)
    OBVIOUS
  <2>2. CASE handler[s].targets = {d}
    BY <1>0, <1>6, <2>1, <2>2 DEF Announce, Idle
  <2>3. CASE handler[s].targets # {d}
    <3>1. handler'[s] = [handler[s] EXCEPT !.pc = "revoke", !.targets = handler[s].targets \ {d}]
      BY <1>0, <1>6, <2>1, <2>3 DEF Announce
    <3> QED BY <1>0, <3>1 DEF Handler
  <2> QED BY <2>2, <2>3
<1>7. CASE CountStock(s)
  <2>1. CASE Return(s)
    BY <2>1, HandlerAfter
  <2>2. CASE ~Return(s)
    <3>1. PICK S : handler' = [handler EXCEPT ![s].pc = IF Ask(s).pool = "otp" THEN "sign" ELSE "insert",
                                              ![s].item = S]
      BY <1>7, <2>2 DEF CountStock
    <3> QED BY <1>0, <3>1 DEF Handler
  <2> QED BY <2>1, <2>2
<1>8. CASE FindOwner(s) \/ UpsertSigned(s) \/ Insert(s) \/ Recount(s) \/ Rearm(s) \/ Fail(s)
  BY <1>8, HandlerAfter DEF FindOwner, UpsertSigned, Insert, Recount, Rearm, Fail
<1>9. CASE FindBundle(s) \/ ReadSigned(s) \/ Signal(s)
  BY <1>9, HandlerAfter DEF FindBundle, ReadSigned, Signal
<1>10. CASE CommitClaim(s)
  BY <1>10, HandlerAfter DEF CommitClaim
<1> QED BY <1>1, <1>2, <1>4, <1>5, <1>6, <1>7, <1>8, <1>9, <1>10 DEF Run

LEMMA TakenByLock ==
  ASSUME TypeInv, NEW s \in Slots, Run(s), ~LockCandidate(s)
  PROVE  handler'[s].pc # "take"
<1>1. CASE MarkRevoked(s) \/ WipePrekeys(s) \/ ReleaseLatch(s)
  BY <1>1, HandlerAfter DEF MarkRevoked, WipePrekeys, ReleaseLatch, Pcs
<1> QED BY <1>1, PcAfter

\* An upload that is over stays over.
LEMMA UploadsEnd ==
  ASSUME TypeInv, TypeInv', [Next]_vars, NEW k, Uploading(k)'
  PROVE  Uploading(k)
<1>1. PICK r \in DOMAIN left' : /\ r.kind = "upload" /\ k \in r.keys
                                /\ left'[r] > 0 \/ \E s \in Slots : Ask(s)' = r
  BY DEF Uploading
<1>2. DOMAIN left' \subseteq Asks /\ r # Nobody
  BY NobodyIsNoAsk DEF TypeInv, TypeOK
<1>3. ASSUME NEW s \in Slots, Run(s)
      PROVE  Uploading(k)
  <2>1. left' = left /\ \A t \in Slots : t # s => handler'[t] = handler[t]
    BY <1>3, RunSteps, RunFrame, StepsTypes
  <2>2. Ask(s)' = r => Ask(s) = r
    <3>1. Fits(handler'[s])
      BY DEF TypeInv
    <3>2. Ask(s)' = r => handler'[s].pc # "idle"
      BY <1>2, <3>1 DEF Fits, Ask
    <3> QED BY <1>3, <3>2, RunSteps, RunFrame, StepsTypes
  <2>3. \A t \in Slots : Ask(t)' = r => Ask(t) = r
    BY <2>1, <2>2 DEF Ask
  <2>4. r \in DOMAIN left /\ left'[r] = left[r]
    BY <2>1
  <2> QED BY <1>1, <2>3, <2>4 DEF Uploading
<1>4. ASSUME NEW s \in Slots, NEW q \in DOMAIN left, Begin(s, q)
      PROVE  Uploading(k)
  <2>1. PICK new \in Handler : Takes(s, new) /\ new.ask = q
    BY <1>4, BeginSteps
  <2>2. \A t \in Slots : handler'[t] = IF t = s THEN new ELSE handler[t]
    BY <2>1 DEF Takes, TypeInv, TypeOK
  <2>3. left[q] > 0 /\ left' = [left EXCEPT ![q] = @ - 1] /\ left \in [DOMAIN left -> Nat]
    BY <1>4 DEF Begin, Start, TypeInv, TypeOK
  <2>4. r \in DOMAIN left /\ (left'[r] > 0 => left[r] > 0)
    BY <2>3
  <2>5. \A t \in Slots : Ask(t)' = r => Ask(t) = r \/ left[r] > 0
    BY <2>1, <2>2, <2>3 DEF Ask
  <2>6. left[r] > 0 \/ \E t \in Slots : Ask(t) = r
    BY <1>1, <2>4, <2>5
  <2> QED BY <1>1, <2>4, <2>6 DEF Uploading
<1>5. CASE handler' = handler /\ left' = left
  BY <1>1, <1>5 DEF Uploading, Ask
<1>6. CASE ~(\E s \in Slots : Run(s)) /\ ~(\E s \in Slots, q \in DOMAIN left : Begin(s, q))
  <2>1. handler' = handler
    BY <1>6, OtherTypes DEF Next
  <2>2. left' = left
    BY <1>6 DEF Next, Challenge, Expire, Restart, HearRevoked, CheckSocket, RegisterSocket, Event, Collect, vars
  <2> QED BY <1>5, <2>1, <2>2
<1> QED BY <1>3, <1>4, <1>6

----------------------------------------------------------------------------
\* Why nothing is handed out twice: what was given is never stored anew, for it
\* is known as used until no upload can bring it again; and an item in the
\* hands of a claim is locked for that claim alone.
Taking(s) == handler[s].pc = "take"
GivenIsGone ==
  /\ fresh \cap given = {}
  /\ \A i \in given : i \in used \/ ~Uploading(i[3])
LocksHeld ==
  /\ \A s \in Slots : Taking(s) => handler[s].item \subseteq locked
  /\ \A s, t \in Slots : s # t /\ Taking(s) /\ Taking(t) => handler[s].item \cap handler[t].item = {}
OnceInv == HandedOutOnce /\ GivenIsGone /\ LocksHeld

\* The steps of a slot that touch the stores of keys.
LEMMA StoreFrame ==
  ASSUME NEW s \in Slots, Run(s),
         ~WipePrekeys(s), ~Insert(s), ~LockCandidate(s), ~CommitClaim(s), ~Fail(s)
  PROVE  UNCHANGED <<fresh, used, locked, given, twice>>
<1> USE DEF gate, history, store
<1>1. CASE Looks(s) \/ WriteDevice(s) \/ MarkRevoked(s) \/ ReleaseLatch(s) \/ Announce(s)
  BY <1>1, LooksFrame DEF WriteDevice, MarkRevoked, ReleaseLatch, Announce
<1>2. CASE UpsertSigned(s) \/ Rearm(s) \/ Signal(s)
  BY <1>2 DEF UpsertSigned, Rearm, Signal
<1> QED BY <1>1, <1>2 DEF Run, Looks

LEMMA RunOnce ==
  ASSUME TypeInv, TypeInv', OnceInv, NEW s \in Slots, Run(s),
         \A k : Uploading(k)' => Uploading(k)
  PROVE  OnceInv'
<1>1. \A t \in Slots : t # s => handler'[t] = handler[t]
  BY RunSteps, RunFrame, StepsTypes
<1>2. /\ fresh \cap used = {} /\ locked \subseteq fresh
      /\ handler \in [Slots -> Handler] /\ handler[s] \in Handler /\ Fits(handler[s])
  BY DEF TypeInv, TypeOK
<1>3. /\ twice = {} /\ fresh \cap given = {} /\ \A i \in given : i \in used \/ ~Uploading(i[3])
      /\ \A t \in Slots : Taking(t) => handler[t].item \subseteq locked
      /\ \A t, u \in Slots : t # u /\ Taking(t) /\ Taking(u) => handler[t].item \cap handler[u].item = {}
  BY DEF OnceInv, HandedOutOnce, GivenIsGone, LocksHeld
\* A slot that does not take keeps or loses its locks; the others keep theirs.
<1>4. ASSUME ~LockCandidate(s), \A t \in Slots : t # s /\ Taking(t) => handler[t].item \subseteq locked'
      PROVE  LocksHeld'
  <2>1. ~Taking(s)'
    BY <1>4, TakenByLock DEF Taking
  <2>2. \A t \in Slots : Taking(t)' => t # s /\ Taking(t) /\ handler'[t].item = handler[t].item
    BY <1>1, <2>1 DEF Taking
  <2> QED BY <1>3, <1>4, <2>2 DEF LocksHeld
<1>5. CASE ~WipePrekeys(s) /\ ~Insert(s) /\ ~LockCandidate(s) /\ ~CommitClaim(s) /\ ~Fail(s)
  <2>1. UNCHANGED <<fresh, used, locked, given, twice>>
    BY <1>5, StoreFrame
  <2>2. LocksHeld'
    BY <1>3, <1>4, <1>5, <2>1
  <2> QED BY <1>3, <2>1, <2>2 DEF OnceInv, HandedOutOnce, GivenIsGone
<1>6. CASE WipePrekeys(s)
  <2>1. PICK d : d = Target(s)
    OBVIOUS
  <2>2. /\ fresh' = fresh \ Of(fresh, d, "otp") /\ used' = used \ Of(used, d, "otp")
        /\ given' = given \ Of(given, d, "otp") /\ locked' = locked /\ twice' = twice
    BY <1>6, <2>1 DEF WipePrekeys
  <2>3. ~LockCandidate(s)
    BY <1>6 DEF WipePrekeys, LockCandidate, At
  <2>4. LocksHeld'
    BY <1>3, <1>4, <2>2, <2>3
  <2>5. fresh' \cap given' = {}
    BY <1>3, <2>2
  <2>6. \A i \in given' : i \in used' \/ ~Uploading(i[3])
    BY <1>3, <2>2 DEF Of
  <2> QED BY <1>3, <2>2, <2>4, <2>5, <2>6 DEF OnceInv, HandedOutOnce, GivenIsGone
<1>7. CASE Insert(s)
  <2>1. /\ handler[s].pc = "insert" /\ ~LockCandidate(s)
        /\ fresh' = fresh \cup NewItems(handler[s].item) /\ used' = used \ fresh'
        /\ locked' = locked /\ given' = given /\ twice' = twice
    BY <1>7 DEF Insert, At, LockCandidate
  <2>2. \A i \in handler[s].item : Uploading(i[3])
    <3>1. Ask(s).kind = "upload" /\ \A i \in handler[s].item : i[3] \in Ask(s).keys
      BY <1>2, <2>1 DEF Fits, Ask
    <3>2. Ask(s) \in DOMAIN left
      BY <2>1 DEF TypeInv, RunsAsked
    <3> QED BY <3>1, <3>2 DEF Uploading
  <2>3. fresh' \cap given' = {}
    BY <1>3, <2>1, <2>2 DEF NewItems
  <2>4. used' = used
    BY <1>2, <2>1 DEF NewItems
  <2>5. LocksHeld'
    BY <1>3, <1>4, <2>1
  <2> QED BY <1>3, <2>1, <2>3, <2>4, <2>5 DEF OnceInv, HandedOutOnce, GivenIsGone
<1>8. CASE LockCandidate(s)
  <2>1. UNCHANGED <<fresh, used, given, twice>> /\ handler[s].pc = "lock"
    BY <1>8 DEF LockCandidate, At
  <2>2. LocksHeld'
    <3>1. CASE Return(s) /\ locked' = locked
      <4>1. ~Taking(s)'
        BY <3>1, HandlerAfter DEF Taking
      <4> QED BY <1>1, <1>3, <3>1, <4>1 DEF LocksHeld, Taking
    <3>2. CASE ~(Return(s) /\ locked' = locked)
      <4>1. PICK i \in Candidates(Dev(s), Ask(s).pool) :
              /\ locked' = locked \cup {i}
              /\ handler' = [handler EXCEPT ![s].pc = "take", ![s].item = {i},
                                            ![s].n = Stock(Dev(s), Ask(s).pool) - 1]
        BY <1>8, <3>2 DEF LockCandidate
      <4>2. handler'[s].item = {i}
        BY <1>2, <4>1 DEF Handler
      <4>3. i \notin locked
        BY DEF Candidates
      <4>4. \A t \in Slots : t # s /\ Taking(t)' =>
              Taking(t) /\ handler'[t].item = handler[t].item /\ i \notin handler[t].item
        BY <1>1, <1>3, <4>3 DEF Taking
      <4>5. \A t \in Slots : Taking(t)' => handler'[t].item \subseteq locked'
        BY <1>3, <4>1, <4>2, <4>4
      <4>6. \A t, u \in Slots : t # u /\ Taking(t)' /\ Taking(u)' => handler'[t].item \cap handler'[u].item = {}
        BY <1>3, <4>2, <4>4
      <4> QED BY <4>5, <4>6 DEF LocksHeld
    <3> QED BY <3>1, <3>2
  <2> QED BY <1>3, <2>1, <2>2 DEF OnceInv, HandedOutOnce, GivenIsGone
<1>9. CASE CommitClaim(s)
  <2>1. PICK item : item = handler[s].item
    OBVIOUS
  <2>2. /\ Taking(s) /\ ~LockCandidate(s)
        /\ locked' = locked \ item /\ fresh' = fresh \ item /\ used' = used \cup item
        /\ twice' = twice \cup (item \cap given) /\ given' = given \cup item
    BY <1>9, <2>1 DEF CommitClaim, At, LockCandidate, Taking
  <2>3. item \subseteq fresh
    BY <1>2, <1>3, <2>1, <2>2
  <2>4. LocksHeld'
    BY <1>3, <1>4, <2>1, <2>2
  <2>5. twice' = {} /\ fresh' \cap given' = {}
    BY <1>3, <2>2, <2>3
  <2>6. \A i \in given' : i \in used' \/ ~Uploading(i[3])
    BY <1>3, <2>2
  <2> QED BY <2>4, <2>5, <2>6 DEF OnceInv, HandedOutOnce, GivenIsGone
<1>10. CASE Fail(s)
  <2>1. UNCHANGED <<fresh, used, given, twice>>
    BY <1>10 DEF Fail
  <2>2. LocksHeld'
    <3>1. ~Taking(s)'
      BY <1>10, HandlerAfter DEF Fail, Taking
    <3>2. locked' = locked \/ (Taking(s) /\ locked' = locked \ handler[s].item)
      BY <1>10 DEF Fail, At, Taking
    <3>3. \A t \in Slots : t # s /\ Taking(t) => handler[t].item \subseteq locked'
      BY <1>3, <3>2
    <3> QED BY <1>1, <1>3, <3>1, <3>3 DEF LocksHeld, Taking
  <2> QED BY <1>3, <2>1, <2>2 DEF OnceInv, HandedOutOnce, GivenIsGone
<1> QED BY <1>5, <1>6, <1>7, <1>8, <1>9, <1>10

LEMMA OtherOnce ==
  ASSUME TypeInv, TypeInv', OnceInv, [Next]_vars, ~(\E s \in Slots : Run(s)),
         \A k : Uploading(k)' => Uploading(k)
  PROVE  OnceInv'
<1> USE DEF store, gate, history
<1>1. CASE \E s \in Slots, r \in DOMAIN left : Begin(s, r)
  <2>1. PICK s \in Slots, r \in DOMAIN left : Begin(s, r)
    BY <1>1
  <2>2. PICK new \in Handler : Takes(s, new) /\ new.pc = "find"
    BY <2>1, BeginSteps
  <2>3. \A t \in Slots : handler'[t] = IF t = s THEN new ELSE handler[t]
    BY <2>2 DEF Takes, TypeInv, TypeOK
  <2>4. UNCHANGED <<fresh, used, locked, given, twice>>
    BY <2>1 DEF Begin
  <2>5. LocksHeld'
    BY <2>2, <2>3, <2>4 DEF OnceInv, LocksHeld, Taking
  <2> QED BY <2>4, <2>5 DEF OnceInv, HandedOutOnce, GivenIsGone
<1>2. CASE \E i \in fresh \cup used : Collect(i)
  <2>1. PICK i \in fresh \cup used : Collect(i)
    BY <1>2
  <2>2. /\ ~Uploading(i[3]) /\ fresh' = fresh \ {i} /\ used' = used \ {i}
        /\ UNCHANGED <<locked, handler, given, twice>>
    BY <2>1 DEF Collect
  <2>3. LocksHeld'
    BY <2>2 DEF OnceInv, LocksHeld, Taking
  <2>4. GivenIsGone'
    BY <2>2 DEF OnceInv, GivenIsGone
  <2> QED BY <2>2, <2>3, <2>4 DEF OnceInv, HandedOutOnce
<1>3. CASE ~(\E s \in Slots, r \in DOMAIN left : Begin(s, r)) /\ ~(\E i \in fresh \cup used : Collect(i))
  <2>1. handler' = handler
    BY <1>3, OtherTypes DEF Next
  <2>2. UNCHANGED <<fresh, used, locked, given, twice>>
    BY <1>3 DEF Next, Challenge, Expire, Restart, HearRevoked, CheckSocket, RegisterSocket, Event, vars
  <2> QED BY <2>1, <2>2 DEF OnceInv, HandedOutOnce, GivenIsGone, LocksHeld, Taking
<1> QED BY <1>1, <1>2, <1>3

----------------------------------------------------------------------------
\* Why a device whose stock ran low is told.  While nobody else works on its
\* keys, the count a claim took in its transaction is still right when it
\* commits (CountedOn); and a latch that is set has told the device, unless an
\* upload is about to open it or a revocation to delete it (LatchedOn).
KeyWork(s, d) == handler[s].pc # "idle" /\ Ask(s).kind \in {"upload", "claim"} /\ Dev(s) = d
Emptying(s, d) == handler[s].pc \in Later /\ Target(s) = d
Reopens(s, d) ==
  /\ handler[s].pc \in {"recount", "rearm"} /\ Ask(s).kind = "upload" /\ Dev(s) = d
  /\ handler[s].pc = "recount" => ~Low(Stock(d, "otp"))
Releases(s, d) == handler[s].pc = "release" /\ Target(s) = d
Signals(s, d) == handler[s].pc = "signal" /\ Dev(s) = d

AloneOn(d) ==
  \A s, t \in Slots : KeyWork(s, d) =>
    (KeyWork(t, d) => Ask(s).kind = Ask(t).kind) /\ ~Emptying(t, d)
CountedOn(d) ==
  \A s \in Slots : Taking(s) /\ Ask(s).pool = "otp" /\ Dev(s) = d =>
    Of(locked, d, "otp") = handler[s].item /\ handler[s].n = Stock(d, "otp") - 1
LatchedOn(d) == d \in latch => d \in told \/ \E s \in Slots : Reopens(s, d) \/ Releases(s, d)
SignalledOn(d) == d \in drained => d \in told \/ \E s \in Slots : Signals(s, d)
LowInv == \A d \in Devices \ disturbed : AloneOn(d) /\ CountedOn(d) /\ LatchedOn(d) /\ SignalledOn(d)

\* The steps of a slot that touch none of what the invariant is about.
LEMMA SignalFrame ==
  ASSUME NEW s \in Slots, Run(s),
         ~MarkRevoked(s), ~WipePrekeys(s), ~ReleaseLatch(s), ~Insert(s), ~Recount(s), ~Rearm(s),
         ~LockCandidate(s), ~CommitClaim(s), ~Signal(s), ~Fail(s)
  PROVE  /\ UNCHANGED <<fresh, locked, latch, told, drained, disturbed>>
         /\ handler[s].pc \notin {"wipe", "release", "take", "signal", "recount", "rearm"}
<1> USE DEF gate, history, store, At
<1>1. CASE FindDevice(s) \/ WriteDevice(s) \/ FindTarget(s) \/ CountActive(s) \/ FindOthers(s) \/ Announce(s)
  BY <1>1 DEF FindDevice, WriteDevice, FindTarget, CountActive, FindOthers, Announce
<1>2. CASE FindOwner(s) \/ CountStock(s) \/ UpsertSigned(s) \/ FindBundle(s) \/ ReadSigned(s)
  BY <1>2 DEF FindOwner, CountStock, UpsertSigned, FindBundle, ReadSigned
<1> QED BY <1>1, <1>2 DEF Run

\* What is recorded as disturbed stays so.
LEMMA DisturbedGrows == [Next]_vars => disturbed \subseteq disturbed'
<1> SUFFICES ASSUME [Next]_vars PROVE disturbed \subseteq disturbed'
  OBVIOUS
<1> USE DEF gate, history, store
<1>1. ASSUME NEW s \in Slots, Run(s) PROVE disturbed \subseteq disturbed'
  <2>1. CASE MarkRevoked(s) \/ WipePrekeys(s) \/ ReleaseLatch(s) \/ Insert(s) \/ Recount(s) \/ Rearm(s)
    BY <2>1 DEF MarkRevoked, WipePrekeys, ReleaseLatch, Insert, Recount, Rearm
  <2>2. CASE LockCandidate(s) \/ CommitClaim(s) \/ Signal(s) \/ Fail(s)
    BY <2>2 DEF LockCandidate, CommitClaim, Signal, Fail
  <2> QED BY <1>1, <2>1, <2>2, SignalFrame
<1>2. ASSUME NEW s \in Slots, NEW r \in DOMAIN left, Begin(s, r) PROVE disturbed \subseteq disturbed'
  BY <1>2 DEF Begin, Start
<1>3. CASE ~(\E s \in Slots : Run(s)) /\ ~(\E s \in Slots, r \in DOMAIN left : Begin(s, r))
  BY <1>3 DEF Next, Challenge, Expire, Restart, HearRevoked, CheckSocket, RegisterSocket, Event, Collect, vars
<1> QED BY <1>1, <1>2, <1>3

\* The part of a set of items that is about a device's prekeys.
LEMMA OfKept ==
  ASSUME NEW S, NEW T, NEW d, \A i : i[1] = d /\ i[2] = "otp" => (i \in S <=> i \in T)
  PROVE  Of(S, d, "otp") = Of(T, d, "otp")
BY DEF Of

LEMMA StockIsNat ==
  ASSUME TypeOK, NEW d
  PROVE  Stock(d, "otp") \in Nat /\ IsFiniteSet(Of(fresh, d, "otp"))
<1>1. Of(fresh, d, "otp") \in SUBSET fresh /\ IsFiniteSet(fresh)
  BY DEF Of, TypeOK
<1> QED BY <1>1, FS_Subset, FS_CardinalityType DEF Stock

LEMMA RunAlone ==
  ASSUME TypeInv, TypeInv', NEW s \in Slots, Run(s), NEW d \in Devices, d \notin disturbed', AloneOn(d)
  PROVE  /\ AloneOn(d)'
         /\ \A t \in Slots : KeyWork(t, d)' => KeyWork(t, d) /\ Ask(t)' = Ask(t)
<1>1. /\ \A t \in Slots : t # s => handler'[t] = handler[t]
      /\ handler[s].pc # "idle"
      /\ handler'[s].pc # "idle" => Ask(s)' = Ask(s)
  BY RunSteps, RunFrame, StepsTypes
<1>2. \A t \in Slots : KeyWork(t, d)' => KeyWork(t, d) /\ Ask(t)' = Ask(t)
  BY <1>1 DEF KeyWork, Dev, Ask
<1>3. \A t \in Slots : t # s => (Emptying(t, d)' => Emptying(t, d))
  BY <1>1 DEF Emptying, Target
<1>4. Emptying(s, d)' => \A t \in Slots : ~KeyWork(t, d)
  <2> SUFFICES ASSUME Emptying(s, d)' PROVE \A t \in Slots : ~KeyWork(t, d)
    OBVIOUS
  <2>1. ~LockCandidate(s)
    <3>1. ASSUME LockCandidate(s) PROVE handler'[s].pc \in {"idle", "take"}
      <4>1. CASE Return(s)
        BY <4>1, HandlerAfter
      <4>2. CASE ~Return(s)
        <5>1. PICK S, n : handler' = [handler EXCEPT ![s].pc = "take", ![s].item = S, ![s].n = n]
          BY <3>1, <4>2 DEF LockCandidate
        <5>2. handler \in [Slots -> Handler] /\ handler[s] \in Handler
          BY DEF TypeInv, TypeOK
        <5> QED BY <5>1, <5>2 DEF Handler
      <4> QED BY <4>1, <4>2
    <3> QED BY <3>1 DEF Emptying, Later
  <2>2. MarkRevoked(s) \/ WipePrekeys(s) \/ ReleaseLatch(s)
    BY <2>1, PcAfter DEF Emptying
  <2>3. PICK pc \in Pcs : Goto(s, pc)
    BY <2>2 DEF MarkRevoked, WipePrekeys, ReleaseLatch, Pcs
  <2>4. handler'[s].targets = handler[s].targets
    BY <2>3, GotoTakes DEF Takes, TypeInv, TypeOK
  <2>5. Target(s) = d
    BY <2>4 DEF Emptying, Target
  <2>6. CASE WipePrekeys(s) \/ ReleaseLatch(s)
    <3>1. Emptying(s, d)
      BY <2>5, <2>6 DEF Emptying, Later, WipePrekeys, ReleaseLatch
    <3> QED BY <3>1 DEF AloneOn
  <2>7. CASE MarkRevoked(s)
    <3>1. Crowd(d, s) = {}
      BY <2>5, <2>7 DEF MarkRevoked
    <3>2. \A t \in Slots : t # s => ~KeyWork(t, d)
      BY <3>1 DEF Crowd, Touches, KeyWork
    <3>3. ~KeyWork(s, d)
      <4>1. handler[s].pc = "revoke" /\ Fits(handler[s])
        BY <2>7 DEF MarkRevoked, TypeInv
      <4> QED BY <4>1 DEF Fits, Working, KeyWork, Ask
    <3> QED BY <3>2, <3>3
  <2> QED BY <2>2, <2>6, <2>7
<1>5. AloneOn(d)'
  <2> SUFFICES ASSUME NEW t \in Slots, NEW u \in Slots, KeyWork(t, d)'
               PROVE  (KeyWork(u, d)' => (Ask(t).kind)' = (Ask(u).kind)') /\ ~Emptying(u, d)'
    BY DEF AloneOn
  <2>1. KeyWork(t, d) /\ Ask(t)' = Ask(t)
    BY <1>2
  <2>2. KeyWork(u, d)' => (Ask(t).kind)' = (Ask(u).kind)'
    BY <1>2, <2>1 DEF AloneOn
  <2>3. ~Emptying(u, d)'
    BY <1>3, <1>4, <2>1 DEF AloneOn
  <2> QED BY <2>2, <2>3
<1> QED BY <1>2, <1>5

\* What a claim that takes knows: one locked item of the device it asks for.
LEMMA TakingFacts ==
  ASSUME TypeInv, OnceInv, NEW s \in Slots, Taking(s)
  PROVE  /\ KeyWork(s, Dev(s)) /\ Ask(s).kind = "claim"
         /\ \E i \in fresh \cap locked : handler[s].item = {i} /\ i[1] = Dev(s) /\ i[2] = Ask(s).pool
<1>1. handler[s].pc = "take" /\ Fits(handler[s])
  BY DEF Taking, TypeInv
<1>2. Ask(s).kind = "claim" /\ \E i \in Items : handler[s].item = {i} /\ i[1] = Dev(s) /\ i[2] = Ask(s).pool
  BY <1>1 DEF Fits, Ask, Dev
<1>3. handler[s].item \subseteq locked /\ locked \subseteq fresh
  BY DEF OnceInv, LocksHeld, TypeInv, TypeOK
<1> QED BY <1>1, <1>2, <1>3 DEF KeyWork

LEMMA RunCounted ==
  ASSUME TypeInv, TypeInv', OnceInv, NEW s \in Slots, Run(s),
         NEW d \in Devices, d \notin disturbed', d \notin disturbed, AloneOn(d), CountedOn(d)
  PROVE  CountedOn(d)'
<1> SUFFICES ASSUME NEW t \in Slots, Taking(t)', (Ask(t).pool = "otp" /\ Dev(t) = d)'
             PROVE  Of(locked', d, "otp") = handler'[t].item /\ handler'[t].n = Stock(d, "otp")' - 1
  BY DEF CountedOn, Of
<1>1. /\ \A u \in Slots : u # s => handler'[u] = handler[u]
      /\ handler \in [Slots -> Handler] /\ handler[s] \in Handler /\ handler[s].pc # "idle"
      /\ Fits(handler[s])
      /\ handler'[s].pc # "idle" => Ask(s)' = Ask(s)
  BY RunSteps, RunFrame, StepsTypes DEF TypeInv, TypeOK
<1>2. CASE t = s
  <2>1. LockCandidate(s)
    BY <1>2, TakenByLock DEF Taking
  <2>2. ~Return(s)
    BY <1>2, HandlerAfter DEF Taking
  <2>3. Ask(s).pool = "otp" /\ Dev(s) = d
    BY <1>1, <1>2 DEF Taking, Dev
  <2>4. PICK i \in Candidates(d, "otp") :
          /\ locked' = locked \cup {i}
          /\ handler' = [handler EXCEPT ![s].pc = "take", ![s].item = {i}, ![s].n = Stock(d, "otp") - 1]
          /\ disturbed' = IF Of(locked, d, "otp") = {} THEN disturbed ELSE disturbed \cup {d}
    BY <2>1, <2>2, <2>3 DEF LockCandidate
  <2>5. PICK n : n = Stock(d, "otp") - 1
    OBVIOUS
  <2>6. handler'[s].item = {i} /\ handler'[s].n = n
    BY <1>1, <2>4, <2>5 DEF Handler
  <2>7. fresh' = fresh
    BY <2>1 DEF LockCandidate
  <2>8. Of(locked, d, "otp") = {} /\ i[1] = d /\ i[2] = "otp"
    BY <2>4 DEF Candidates, Of
  <2>9. Of(locked', d, "otp") = {i}
    BY <2>4, <2>8 DEF Of
  <2> QED BY <1>2, <2>5, <2>6, <2>7, <2>9 DEF Stock, Of
<1>3. CASE t # s
  <2>1. /\ Taking(t) /\ Ask(t).pool = "otp" /\ Dev(t) = d /\ handler'[t] = handler[t]
    BY <1>1, <1>3 DEF Taking, Ask, Dev
  <2>2. /\ Of(locked, d, "otp") = handler[t].item /\ handler[t].n = Stock(d, "otp") - 1
        /\ KeyWork(t, d) /\ Ask(t).kind = "claim" /\ handler[t].item # {}
    BY <2>1, TakingFacts DEF CountedOn
  <2> SUFFICES Of(fresh', d, "otp") = Of(fresh, d, "otp") /\ Of(locked', d, "otp") = Of(locked, d, "otp")
    BY <2>1, <2>2 DEF Stock, Of
  <2>3. CASE fresh' = fresh /\ locked' = locked
    BY <2>3
  <2>4. CASE WipePrekeys(s)
    <3>1. ~Emptying(s, d)
      BY <2>2 DEF AloneOn
    <3>2. Target(s) # d
      BY <2>4, <3>1 DEF Emptying, Later, WipePrekeys
    <3>3. fresh' = fresh \ Of(fresh, Target(s), "otp") /\ locked' = locked
      BY <2>4 DEF WipePrekeys
    <3> QED BY <3>2, <3>3 DEF Of
  <2>5. CASE Insert(s)
    <3>1. Ask(s).kind = "upload" /\ \A i \in handler[s].item : i[1] = Dev(s)
      BY <1>1, <2>5 DEF Insert, At, Fits, Ask, Dev
    <3>2. Dev(s) # d
      BY <1>1, <2>2, <3>1 DEF AloneOn, KeyWork
    <3>3. fresh' = fresh \cup NewItems(handler[s].item) /\ locked' = locked
      BY <2>5 DEF Insert
    <3> QED BY <3>1, <3>2, <3>3 DEF Of, NewItems
  <2>6. CASE LockCandidate(s)
    <3>1. fresh' = fresh
      BY <2>6 DEF LockCandidate
    <3>2. CASE locked' = locked
      BY <3>1, <3>2
    <3>3. CASE locked' # locked
      <4>1. PICK i \in Candidates(Dev(s), Ask(s).pool) :
              /\ locked' = locked \cup {i}
              /\ disturbed' = IF Of(locked, Dev(s), Ask(s).pool) = {} THEN disturbed
                              ELSE disturbed \cup {Dev(s)}
        BY <2>6, <3>3 DEF LockCandidate
      <4>2. ~(Dev(s) = d /\ Ask(s).pool = "otp")
        BY <2>2, <4>1
      <4>3. ~(i[1] = d /\ i[2] = "otp")
        BY <4>1, <4>2 DEF Candidates, Of
      <4> QED BY <3>1, <4>1, <4>3 DEF Of
    <3> QED BY <3>2, <3>3
  <2>7. CASE CommitClaim(s) \/ (Fail(s) /\ At(s, "take", {"claim"}))
    <3>1. Taking(s)
      BY <2>7 DEF CommitClaim, At, Taking
    <3>2. PICK i \in fresh \cap locked : handler[s].item = {i} /\ i[1] = Dev(s) /\ i[2] = Ask(s).pool
      BY <3>1, TakingFacts
    <3>3. handler[s].item \cap handler[t].item = {}
      BY <1>3, <2>1, <3>1 DEF OnceInv, LocksHeld
    <3>4. ~(i[1] = d /\ i[2] = "otp")
      BY <2>2, <3>2, <3>3 DEF Of
    <3>5. locked' = locked \ {i} /\ (fresh' = fresh \/ fresh' = fresh \ {i})
      BY <2>7, <3>2 DEF CommitClaim, Fail
    <3> QED BY <3>4, <3>5 DEF Of
  <2>8. CASE Fail(s) /\ ~At(s, "take", {"claim"})
    BY <2>3, <2>8 DEF Fail
  <2>9. CASE \/ MarkRevoked(s) \/ ReleaseLatch(s) \/ Recount(s) \/ Rearm(s) \/ Signal(s)
    BY <2>3, <2>9 DEF MarkRevoked, ReleaseLatch, Recount, Rearm, Signal, store
  <2> QED BY <2>3, <2>4, <2>5, <2>6, <2>7, <2>8, <2>9, SignalFrame
<1> QED BY <1>2, <1>3

\* A latch that is set when a claim signals has told the device.
LEMMA SignalTells ==
  ASSUME TypeInv, NEW s \in Slots, Signal(s), AloneOn(Dev(s)), LatchedOn(Dev(s))
  PROVE  Dev(s) \in told'
<1>1. KeyWork(s, Dev(s)) /\ Ask(s).kind = "claim"
  BY DEF Signal, At, KeyWork
<1>2. ASSUME Dev(s) \in latch PROVE Dev(s) \in told
  <2>1. ASSUME NEW t \in Slots, Reopens(t, Dev(s)) PROVE FALSE
    <3>1. KeyWork(t, Dev(s)) /\ Ask(t).kind = "upload"
      BY <2>1 DEF Reopens, KeyWork
    <3> QED BY <1>1, <3>1 DEF AloneOn
  <2>2. ASSUME NEW t \in Slots, Releases(t, Dev(s)) PROVE FALSE
    <3>1. Emptying(t, Dev(s))
      BY <2>2 DEF Releases, Emptying, Later
    <3> QED BY <1>1, <3>1 DEF AloneOn
  <2> QED BY <1>2, <2>1, <2>2 DEF LatchedOn
<1> QED BY <1>2 DEF Signal

LEMMA RunLatched ==
  ASSUME TypeInv, TypeInv', NEW s \in Slots, Run(s),
         NEW d \in Devices, d \notin disturbed', AloneOn(d), LatchedOn(d)
  PROVE  LatchedOn(d)'
<1> SUFFICES ASSUME d \in latch', d \notin told'
             PROVE  \E t \in Slots : Reopens(t, d)' \/ Releases(t, d)'
  BY DEF LatchedOn
<1>1. /\ \A u \in Slots : u # s => handler'[u] = handler[u]
      /\ handler \in [Slots -> Handler] /\ handler[s] \in Handler /\ handler[s].pc # "idle"
      /\ handler'[s].pc # "idle" => Ask(s)' = Ask(s)
      /\ Fits(handler[s])
  BY RunSteps, RunFrame, StepsTypes DEF TypeInv, TypeOK
<1>2. d \in latch
  <2>1. CASE Signal(s)
    <3>1. Dev(s) # d
      BY <2>1, SignalTells DEF Signal, LatchedOn
    <3> QED BY <2>1, <3>1 DEF Signal
  <2>2. CASE \/ MarkRevoked(s) \/ WipePrekeys(s) \/ ReleaseLatch(s) \/ Insert(s) \/ Recount(s) \/ Rearm(s)
    BY <2>2 DEF MarkRevoked, WipePrekeys, ReleaseLatch, Insert, Recount, Rearm, store
  <2>3. CASE LockCandidate(s) \/ CommitClaim(s) \/ Fail(s)
    BY <2>3 DEF LockCandidate, CommitClaim, Fail
  <2> QED BY <2>1, <2>2, <2>3, SignalFrame
\* A slot that has just wiped the device's keys, or topped them up.
<1>3. CASE d \in told
  <2>1. CASE WipePrekeys(s)
    <3>1. Goto(s, "release") /\ Target(s) = d
      BY <1>3, <2>1 DEF WipePrekeys
    <3>2. handler'[s].pc = "release" /\ handler'[s].targets = handler[s].targets
      BY <1>1, <3>1, GotoTakes DEF Takes, Pcs
    <3>3. Releases(s, d)'
      BY <3>1, <3>2 DEF Releases, Target
    <3> QED BY <3>3
  <2>2. CASE Insert(s)
    <3>1. /\ Ask(s).pool = "otp" /\ Dev(s) = d /\ ~Low(Cardinality(Of(fresh', d, "otp")))
          /\ Goto(s, "recount") /\ Ask(s).kind = "upload"
      BY <1>3, <2>2 DEF Insert, At
    <3>2. handler'[s].pc = "recount"
      BY <3>1, HandlerAfter DEF Pcs
    <3>3. Ask(s)' = Ask(s)
      BY <1>1, <3>2
    <3>4. Reopens(s, d)'
      BY <3>1, <3>2, <3>3 DEF Reopens, Dev, Stock, Low, Of
    <3> QED BY <3>4
  <2>3. CASE \/ MarkRevoked(s) \/ ReleaseLatch(s) \/ Recount(s) \/ Rearm(s)
             \/ LockCandidate(s) \/ CommitClaim(s) \/ Signal(s) \/ Fail(s)
    <3>1. told \subseteq told'
      BY <2>3 DEF MarkRevoked, ReleaseLatch, Recount, Rearm, LockCandidate, CommitClaim, Signal, Fail, history
    <3> QED BY <1>3, <3>1
  <2> QED BY <1>3, <2>1, <2>2, <2>3, SignalFrame
<1>4. ASSUME NEW t \in Slots, Releases(t, d) PROVE Releases(t, d)'
  <2>1. CASE t # s
    BY <1>1, <1>4, <2>1 DEF Releases, Target
  <2>2. CASE t = s
    <3>1. handler[s].pc = "release" /\ Target(s) = d
      BY <1>4, <2>2 DEF Releases
    <3>2. ReleaseLatch(s) \/ Fail(s)
      BY <3>1, SignalFrame DEF MarkRevoked, WipePrekeys, Insert, Recount, Rearm, LockCandidate, CommitClaim, Signal, At
    <3>3. ~ReleaseLatch(s)
      BY <3>1 DEF ReleaseLatch
    <3>4. d \in handler[s].targets
      BY <3>1, TargetIn DEF Working
    <3>5. ~Fail(s)
      BY <3>4 DEF Fail, Touches
    <3> QED BY <3>2, <3>3, <3>5
  <2> QED BY <2>1, <2>2
<1>5. ASSUME NEW t \in Slots, Reopens(t, d) PROVE Reopens(t, d)'
  <2>1. KeyWork(t, d) /\ Ask(t).kind = "upload"
    BY <1>5 DEF Reopens, KeyWork
  <2>2. CASE t = s
    <3>1. handler[s].pc \in {"recount", "rearm"}
      BY <1>5, <2>2 DEF Reopens
    <3>2. Recount(s) \/ Rearm(s) \/ Fail(s)
      BY <3>1, SignalFrame DEF MarkRevoked, WipePrekeys, ReleaseLatch, Insert, LockCandidate, CommitClaim, Signal, At
    <3>3. ~Rearm(s) /\ ~Fail(s)
      BY <2>1, <2>2 DEF Rearm, Fail, Touches, KeyWork
    <3>4. Goto(s, "rearm")
      BY <1>5, <2>2, <3>2, <3>3 DEF Recount, At, Reopens
    <3>5. handler'[s].pc = "rearm"
      BY <3>4, HandlerAfter DEF Pcs
    <3>6. Ask(s)' = Ask(s)
      BY <1>1, <3>5
    <3> QED BY <2>1, <2>2, <3>5, <3>6 DEF Reopens, Dev, KeyWork
  <2>3. CASE t # s
    <3>1. handler'[t] = handler[t]
      BY <1>1, <2>3
    <3>2. Of(fresh, d, "otp") \subseteq Of(fresh', d, "otp")
      <4>1. CASE fresh \subseteq fresh'
        BY <4>1 DEF Of
      <4>2. CASE WipePrekeys(s)
        <5>1. Target(s) # d
          BY <2>1, <4>2 DEF AloneOn, Emptying, Later, WipePrekeys
        <5> QED BY <4>2, <5>1 DEF WipePrekeys, Of
      <4>3. CASE CommitClaim(s)
        <5>1. handler[s].pc = "take" /\ Ask(s).kind = "claim"
          BY <4>3 DEF CommitClaim, At
        <5>2. Dev(s) # d
          BY <1>1, <2>1, <5>1 DEF AloneOn, KeyWork
        <5>3. \A i \in handler[s].item : i[1] = Dev(s)
          BY <1>1, <5>1 DEF Fits, Ask, Dev
        <5>4. fresh' = fresh \ handler[s].item
          BY <4>3 DEF CommitClaim
        <5> QED BY <5>2, <5>3, <5>4 DEF Of
      <4>4. CASE \/ MarkRevoked(s) \/ ReleaseLatch(s) \/ Insert(s) \/ Recount(s) \/ Rearm(s)
                 \/ LockCandidate(s) \/ Signal(s) \/ Fail(s)
        BY <4>1, <4>4 DEF MarkRevoked, ReleaseLatch, Insert, Recount, Rearm, LockCandidate, Signal, Fail, store
      <4> QED BY <4>1, <4>2, <4>3, <4>4, SignalFrame
    <3>3. ~Low(Stock(d, "otp")) => ~Low(Stock(d, "otp"))'
      <4>1. PICK S, T : S = Of(fresh, d, "otp") /\ T = Of(fresh', d, "otp")
        OBVIOUS
      <4>2. IsFiniteSet(T) /\ Cardinality(S) \in Nat /\ Cardinality(T) \in Nat
        <5>1. Stock(d, "otp") \in Nat
          BY StockIsNat DEF TypeInv
        <5>2. Of(fresh', d, "otp") \in SUBSET fresh' /\ IsFiniteSet(fresh')
          BY DEF Of, TypeInv, TypeOK
        <5>3. IsFiniteSet(T) /\ Cardinality(T) \in Nat
          BY <4>1, <5>2, FS_Subset, FS_CardinalityType
        <5> QED BY <4>1, <5>1, <5>3 DEF Stock
      <4>3. Cardinality(S) <= Cardinality(T)
        BY <3>2, <4>1, <4>2, FS_Subset
      <4>4. Threshold \in Nat
        BY BoundsAreNaturals
      <4> QED BY <4>1, <4>2, <4>3, <4>4 DEF Low, Stock, Of
    <3> QED BY <1>5, <3>1, <3>3 DEF Reopens, Ask, Dev
  <2> QED BY <2>2, <2>3
<1> QED BY <1>2, <1>3, <1>4, <1>5 DEF LatchedOn

LEMMA RunSignalled ==
  ASSUME TypeInv, TypeInv', OnceInv, NEW s \in Slots, Run(s),
         NEW d \in Devices, d \notin disturbed',
         AloneOn(d), CountedOn(d), LatchedOn(d), SignalledOn(d)
  PROVE  SignalledOn(d)'
<1> SUFFICES ASSUME d \in drained', d \notin told'
             PROVE  \E t \in Slots : Signals(t, d)'
  BY DEF SignalledOn
<1>1. /\ \A u \in Slots : u # s => handler'[u] = handler[u]
      /\ handler'[s].pc # "idle" => Ask(s)' = Ask(s)
  BY RunSteps, RunFrame, StepsTypes
<1>2. CASE CommitClaim(s) /\ Dev(s) = d /\ Ask(s).pool = "otp" /\ Low(Cardinality(Of(fresh', d, "otp")))
  <2>1. Taking(s)
    BY <1>2 DEF CommitClaim, At, Taking
  <2>2. PICK i \in fresh \cap locked : handler[s].item = {i} /\ i[1] = d /\ i[2] = "otp"
    BY <1>2, <2>1, TakingFacts
  <2>3. fresh' = fresh \ {i}
    BY <1>2, <2>2 DEF CommitClaim
  <2>4. PICK S : S = Of(fresh, d, "otp")
    OBVIOUS
  <2>5. Of(fresh', d, "otp") = S \ {i} /\ i \in S
    BY <2>2, <2>3, <2>4 DEF Of
  <2>6. IsFiniteSet(S) /\ Cardinality(S) \in Nat
    BY <2>4, StockIsNat DEF TypeInv, Stock
  <2>7. Cardinality(S \ {i}) = Cardinality(S) - 1
    BY <2>5, <2>6, FS_RemoveElement
  <2>8. handler[s].n = Cardinality(S) - 1
    BY <1>2, <2>1, <2>4 DEF CountedOn, Stock
  <2>9. Goto(s, "signal")
    BY <1>2, <2>5, <2>7, <2>8 DEF CommitClaim
  <2>10. handler'[s].pc = "signal"
    BY <2>9, HandlerAfter DEF Pcs
  <2> QED BY <1>1, <1>2, <2>10 DEF Signals, Dev
<1>3. CASE ~(CommitClaim(s) /\ Dev(s) = d /\ Ask(s).pool = "otp" /\ Low(Cardinality(Of(fresh', d, "otp"))))
  <2>1. d \in drained
    <3>1. CASE CommitClaim(s)
      <4>1. \/ drained' = drained
            \/ /\ Ask(s).pool # "mls" /\ Low(Cardinality(Of(fresh', Dev(s), "otp")))
               /\ drained' = drained \cup {Dev(s)}
        BY <3>1 DEF CommitClaim
      <4>2. Ask(s).pool \in Pools
        BY RunFacts, RunFrame
      <4> QED BY <1>3, <3>1, <4>1, <4>2 DEF Pools
    <3>2. CASE \/ MarkRevoked(s) \/ WipePrekeys(s) \/ ReleaseLatch(s) \/ Insert(s) \/ Recount(s) \/ Rearm(s)
               \/ LockCandidate(s) \/ Signal(s) \/ Fail(s)
      BY <3>2 DEF MarkRevoked, WipePrekeys, ReleaseLatch, Insert, Recount, Rearm, LockCandidate, Signal, Fail, history
    <3> QED BY <3>1, <3>2, SignalFrame
  <2>2. d \notin told
    <3>1. CASE WipePrekeys(s) \/ Insert(s)
      BY <3>1 DEF WipePrekeys, Insert
    <3>2. CASE \/ MarkRevoked(s) \/ ReleaseLatch(s) \/ Recount(s) \/ Rearm(s)
               \/ LockCandidate(s) \/ CommitClaim(s) \/ Signal(s) \/ Fail(s)
      BY <3>2 DEF MarkRevoked, ReleaseLatch, Recount, Rearm, LockCandidate, CommitClaim, Signal, Fail, history
    <3> QED BY <3>1, <3>2, SignalFrame
  <2>3. PICK t \in Slots : Signals(t, d)
    BY <2>1, <2>2 DEF SignalledOn
  <2>4. CASE t # s
    BY <1>1, <2>3, <2>4 DEF Signals, Dev, Ask
  <2>5. CASE t = s
    <3>1. handler[s].pc = "signal" /\ Dev(s) = d
      BY <2>3, <2>5 DEF Signals
    <3>2. Signal(s) \/ Fail(s)
      BY <3>1, SignalFrame DEF MarkRevoked, WipePrekeys, ReleaseLatch, Insert, Recount, Rearm,
                               LockCandidate, CommitClaim, At
    <3>3. ~Signal(s)
      BY <3>1, SignalTells
    <3>4. Ask(s).kind = "claim"
      BY <3>1 DEF TypeInv, Fits, Ask
    <3>5. ~Fail(s)
      BY <3>1, <3>4 DEF Fail, Touches
    <3> QED BY <3>2, <3>3, <3>5
  <2> QED BY <2>4, <2>5
<1> QED BY <1>2, <1>3

LEMMA BeginLow ==
  ASSUME TypeInv, TypeInv', LowInv, NEW s \in Slots, NEW r \in DOMAIN left, Begin(s, r)
  PROVE  LowInv'
<1> SUFFICES ASSUME NEW d \in Devices, d \notin disturbed'
             PROVE  AloneOn(d)' /\ CountedOn(d)' /\ LatchedOn(d)' /\ SignalledOn(d)'
  BY DEF LowInv
<1>1. PICK new \in Handler : Takes(s, new) /\ new.ask = r /\ new.pc = "find"
  BY BeginSteps
<1>2. \A t \in Slots : handler'[t] = IF t = s THEN new ELSE handler[t]
  BY <1>1 DEF Takes, TypeInv, TypeOK
<1>3. /\ UNCHANGED <<fresh, locked, latch, told, drained>> /\ handler[s].pc = "idle"
      /\ d \notin disturbed
      /\ r.kind \in {"upload", "claim"} /\ r.device = d => \A t \in Crowd(d, s) : Ask(t).kind = r.kind
  BY DEF Begin, Start, store
<1>4. AloneOn(d) /\ CountedOn(d) /\ LatchedOn(d) /\ SignalledOn(d)
  BY <1>3 DEF LowInv
<1>5. ASSUME NEW t \in Slots, t # s
      PROVE  /\ KeyWork(t, d)' = KeyWork(t, d) /\ Ask(t)' = Ask(t) /\ handler'[t] = handler[t]
             /\ Emptying(t, d)' = Emptying(t, d)
  BY <1>2, <1>5 DEF KeyWork, Emptying, Ask, Dev, Target
<1>6. ~Emptying(s, d)' /\ Ask(s)' = r
  BY <1>1, <1>2 DEF Emptying, Later, Ask
<1>7. AloneOn(d)'
  <2>1. ASSUME KeyWork(s, d)', NEW u \in Slots, u # s
        PROVE  (KeyWork(u, d) => r.kind = Ask(u).kind) /\ ~Emptying(u, d)
    <3>1. r.kind \in {"upload", "claim"} /\ r.device = d
      BY <1>6, <2>1 DEF KeyWork, Dev
    <3>2. u \in Crowd(d, s) => Ask(u).kind = r.kind
      BY <1>3, <3>1
    <3>3. KeyWork(u, d) => u \in Crowd(d, s)
      BY <2>1 DEF KeyWork, Crowd, Touches
    <3>4. Emptying(u, d) => u \in Crowd(d, s) /\ Ask(u).kind \notin {"upload", "claim"}
      <4>1. ASSUME Emptying(u, d) PROVE handler[u].pc \in Working /\ Target(u) = d
        BY <4>1 DEF Emptying, Later, Working
      <4>2. ASSUME Emptying(u, d) PROVE d \in handler[u].targets
        BY <4>1, <4>2, TargetIn
      <4>3. ASSUME Emptying(u, d) PROVE Ask(u).kind \in {"revoke", "logout"}
        BY <4>1, <4>3 DEF TypeInv, Fits, Ask
      <4> QED BY <2>1, <4>2, <4>3 DEF Crowd, Touches
    <3> QED BY <3>1, <3>2, <3>3, <3>4
  <2> SUFFICES ASSUME NEW t \in Slots, NEW u \in Slots, KeyWork(t, d)'
               PROVE  (KeyWork(u, d)' => (Ask(t).kind)' = (Ask(u).kind)') /\ ~Emptying(u, d)'
    BY DEF AloneOn
  <2>2. CASE t = s /\ u = s
    BY <1>6, <2>2
  <2>3. CASE t = s /\ u # s
    BY <1>5, <1>6, <2>1, <2>3
  <2>4. CASE t # s /\ u = s
    BY <1>5, <1>6, <2>1, <2>4
  <2>5. CASE t # s /\ u # s
    BY <1>4, <1>5, <2>5 DEF AloneOn
  <2> QED BY <2>2, <2>3, <2>4, <2>5
<1>8. CountedOn(d)'
  BY <1>1, <1>2, <1>3, <1>4 DEF CountedOn, Taking, Ask, Dev, Stock
<1>9. \A t \in Slots : t # s => (Reopens(t, d) => Reopens(t, d)') /\ (Releases(t, d) => Releases(t, d)')
                                /\ (Signals(t, d) => Signals(t, d)')
  BY <1>3, <1>5 DEF Reopens, Releases, Signals, Target, Stock, Dev, Ask
<1>10. ~Reopens(s, d) /\ ~Releases(s, d) /\ ~Signals(s, d)
  BY <1>3 DEF Reopens, Releases, Signals
<1> QED BY <1>3, <1>4, <1>7, <1>8, <1>9, <1>10 DEF LatchedOn, SignalledOn

LEMMA OtherLow ==
  ASSUME TypeInv, TypeInv', LowInv, [Next]_vars, ~(\E s \in Slots : Run(s)),
         ~(\E s \in Slots, r \in DOMAIN left : Begin(s, r))
  PROVE  LowInv'
<1> SUFFICES ASSUME NEW d \in Devices, d \notin disturbed'
             PROVE  AloneOn(d)' /\ CountedOn(d)' /\ LatchedOn(d)' /\ SignalledOn(d)'
  BY DEF LowInv
<1>1. AloneOn(d) /\ CountedOn(d) /\ LatchedOn(d) /\ SignalledOn(d)
  BY DisturbedGrows DEF LowInv
<1>2. handler' = handler
  BY OtherTypes DEF Next
<1>3. UNCHANGED <<locked, latch, told, drained>>
  BY DEF Next, Challenge, Expire, Restart, HearRevoked, CheckSocket, RegisterSocket, Event, Collect, vars,
         store, history, gate
<1>4. Of(fresh', d, "otp") = Of(fresh, d, "otp")
  <2>1. CASE \E i \in fresh \cup used : Collect(i)
    <3>1. PICK i \in fresh \cup used : Collect(i)
      BY <2>1
    <3>2. i \notin fresh \/ i[1] # d
      BY <3>1 DEF Collect
    <3> QED BY <3>1, <3>2 DEF Collect, Of
  <2>2. CASE ~(\E i \in fresh \cup used : Collect(i))
    BY <2>2 DEF Next, Challenge, Expire, Restart, HearRevoked, CheckSocket, RegisterSocket, Event, vars,
                store, history, gate
  <2> QED BY <2>1, <2>2
<1>5. Stock(d, "otp")' = Stock(d, "otp")
  BY <1>4 DEF Stock, Of
<1>6. AloneOn(d)'
  BY <1>1, <1>2 DEF AloneOn, KeyWork, Emptying, Target, Ask, Dev
<1>7. CountedOn(d)'
  BY <1>1, <1>2, <1>3, <1>5 DEF CountedOn, Taking, Ask, Dev, Of
<1>8. LatchedOn(d)'
  BY <1>1, <1>2, <1>3, <1>5 DEF LatchedOn, Reopens, Releases, Target, Ask, Dev
<1>9. SignalledOn(d)'
  BY <1>1, <1>2, <1>3 DEF SignalledOn, Signals, Ask, Dev
<1> QED BY <1>6, <1>7, <1>8, <1>9

LEMMA RunLow ==
  ASSUME TypeInv, TypeInv', OnceInv, LowInv, NEW s \in Slots, Run(s), disturbed \subseteq disturbed'
  PROVE  LowInv'
BY RunAlone, RunCounted, RunLatched, RunSignalled DEF LowInv

LEMMA TypesHold == Spec => []TypeInv
<1> QED BY InitTypes, StepTypes, PTL DEF Spec

----------------------------------------------------------------------------
\* Every table, set and handler of routes/devices.ts, routes/auth.ts and
\* prekeyLowSignal.ts has its type; the locks are on rows that are there.
THEOREM TypeCorrect == Spec => []TypeOK
<1>1. TypeInv => TypeOK
  BY DEF TypeInv
<1> QED BY <1>1, TypesHold, PTL

\* A revocation carried out and announced leaves no socket of the device
\* through which an event passes, on any number of instances, whatever
\* restarts, links again or registers late (deviceRevocation.ts).
THEOREM RevokedDevicesAreSilent == Spec => []RevokedIsSilent
<1>1. Init => RevokedIsSilent
  BY DEF Init, RevokedIsSilent
<1>2. TypeInv /\ TypeInv' /\ RevokedIsSilent /\ [Next]_vars => RevokedIsSilent'
  BY RunSilent, OtherSilent
<1> QED BY <1>1, <1>2, TypesHold, PTL DEF Spec

\* No claim hands out a prekey or a key package that another handed out, for
\* any number of claims, uploads sent again, collections and revocations at
\* once: FOR UPDATE SKIP LOCKED, and consumed rows kept while an upload lives.
THEOREM KeysAreHandedOutOnce == Spec => []HandedOutOnce
<1>1. Init => OnceInv
  BY DEF Init, OnceInv, HandedOutOnce, GivenIsGone, LocksHeld, Taking, Idle
<1>2. TypeInv /\ TypeInv' /\ OnceInv /\ [Next]_vars => OnceInv'
  BY UploadsEnd, RunOnce, OtherOnce
<1>3. OnceInv => HandedOutOnce
  BY DEF OnceInv
<1> QED BY <1>1, <1>2, <1>3, TypesHold, PTL DEF Spec

\* The latch of prekeyLowSignal.ts never swallows the last word: a device whose
\* stock claims ran down has been told, unless other work met them on its keys.
THEOREM LowStockIsSignalled == Spec => []LowIsSignalled
<1>1. Init => OnceInv /\ LowInv
  BY DEF Init, OnceInv, HandedOutOnce, GivenIsGone, LocksHeld, Taking, Idle, LowInv, AloneOn, CountedOn,
         LatchedOn, SignalledOn, KeyWork
<1>2. TypeInv /\ TypeInv' /\ OnceInv /\ [Next]_vars => OnceInv'
  BY UploadsEnd, RunOnce, OtherOnce
<1>3. TypeInv /\ TypeInv' /\ OnceInv /\ LowInv /\ [Next]_vars => LowInv'
  BY DisturbedGrows, RunLow, BeginLow, OtherLow
<1>4. TypeInv /\ LowInv => LowIsSignalled
  <2> SUFFICES ASSUME TypeInv, LowInv, NEW d \in drained \ disturbed,
                      \A s \in Slots : handler[s].pc # "idle" => Dev(s) # d
               PROVE  d \in told
    BY DEF LowIsSignalled
  <2>1. d \in Devices
    BY DEF TypeInv, TypeOK
  <2>2. d \in told \/ \E s \in Slots : Signals(s, d)
    BY <2>1 DEF LowInv, SignalledOn
  <2> QED BY <2>2 DEF Signals
<1> QED BY <1>1, <1>2, <1>3, <1>4, TypesHold, PTL DEF Spec
=============================================================================
