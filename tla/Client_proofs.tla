--------------------------- MODULE Client_proofs ---------------------------
(***************************************************************************)
(* What the client keeps, for every number of devices, sends, messages and *)
(* events and every bound: its sends (Sessions), the pipeline of what      *)
(* comes in (Inbound), and the double ratchet (Ratchet).                   *)
(*                                                                         *)
(* A task of a send acts on a device set and a session it looked at some   *)
(* awaits ago. Working says that the set of a send with open tasks is      *)
(* still the pinned one; SessionsSound and KeysOrdered say what a session  *)
(* is, whichever send made it.                                             *)
(*                                                                         *)
(* A message comes in by several ways and a replay in many events.         *)
(* OnItsWay says where an envelope that is due is until it has come in;    *)
(* Replayed says that what would move the resume cursor is behind what it  *)
(* moves past.                                                             *)
(*                                                                         *)
(* A receiver of the double ratchet cannot go back: Spent says that the    *)
(* keys of what it read are Behind its root key and its chain and not      *)
(* among those set aside. LateInv says what the two sides know of each     *)
(* other: one of them is Ahead by one DH step, and of every chain but the  *)
(* last each message is Settled (Good). A skip of any length is a          *)
(* recursive function of its end; what it does to the keys that are set    *)
(* aside is shown by a least counterexample.                               *)
(***************************************************************************)
EXTENDS Sessions, Inbound, Ratchet, FiniteSetTheorems, WellFoundedInduction, TLAPS

Header == [ephemeral : Nat, oneTime : {None} \cup (Devices \X Nat)]
Envelope == [device : Devices, key : Nat, session : Nat, number : Nat, header : {None} \cup Header]
Call == [pc : {"idle", "fetched", "refused", "building", "sent", "retry", "failed"},
         devices : SUBSET (Devices \X Nat),
         task : [Devices -> {"none", "ensure", "bundle", "step", "made", "failed"}],
         made : SUBSET Envelope, tries : Nat]

Types ==
  /\ phase \in Phases
  /\ reported \in [Devices -> Nat] /\ changes \in Nat
  /\ oneTime \in [Devices -> {0, 1}]
  /\ pin \subseteq Devices \X Nat
  /\ DOMAIN sessions = Devices /\ sessions = [d \in Devices |-> sessions[d]]
  /\ bundles \in Nat
  /\ call \in [Sends -> Call]
  /\ posted \subseteq Envelope

\* The bounds of TypeOK, and the attempts a send has made where it stands.
Attempts(s) ==
  /\ call[s].tries \in 0..2
  /\ call[s].pc = "idle" => call[s].tries = 0
  /\ call[s].pc = "retry" => call[s].tries = 1
Bounds ==
  /\ reported \in [Devices -> 0..(MaxChanges + 1)] /\ changes \in 1..(MaxChanges + 1)
  /\ bundles \in 0..MaxBundles
  /\ \A s \in Sends : Attempts(s)

-----------------------------------------------------------------------------
(* Trust *)

\* A send with a task that is still open works on the pinned set.
OpenTasks == {"ensure", "bundle", "step", "failed"}
Working ==
  \A s \in Sends, d \in Devices :
    /\ call[s].task[d] \in OpenTasks =>
         call[s].pc \in {"building", "failed"} /\ call[s].devices = pin /\ d \in DevicesOf(pin)
    /\ phase = "sealed" => call[s].task[d] \notin {"bundle", "step"}

Out == posted \cup UNION {call[s].made : s \in Sends}

OutPinned == phase = "sealed" => \A e \in Out : <<e.device, e.key>> \in pin

-----------------------------------------------------------------------------
(* Sessions *)

\* A session is what createSession makes of a bundle, some steps later; before
\* the first step it holds the header that completes to its secret.
SessionOf(d, i, k, n, h, p) ==
  [sid |-> i, key |-> k, number |-> n, secret |-> completeSession(d, k, h), pending |-> p]
IsSession(d, x, last) ==
  \E i, k, n \in Nat, h \in Header, p \in {None} \cup Header :
    /\ x = SessionOf(d, i, k, n, h, p)
    /\ 0 < i /\ i <= last
    /\ IF n = 0 THEN p = h ELSE p = None
SessionsSound ==
  \A d \in Devices : sessions[d] # None => IsSession(d, sessions[d], bundles)

\* No two sessions have the same number, and those in use are behind the last.
KeysOrdered ==
  /\ \A d, e \in Devices :
       sessions[d] # None /\ sessions[e] # None /\ sessions[d].sid = sessions[e].sid => d = e
  /\ \A u \in used : u[1] \in Nat /\ u[2] \in Nat /\ u[1] <= bundles
  /\ \A u \in used, d \in Devices :
       sessions[d] # None /\ u[1] = sessions[d].sid => u[2] < sessions[d].number

OutKnown == \A e \in Out : e.session <= bundles

KeysInv == Types /\ SessionsSound /\ KeysOrdered /\ OutKnown /\ KeysLineUp

-----------------------------------------------------------------------------
(* Types *)

LEMMA PreKeyType ==
  ASSUME Types, NEW d \in Devices
  PROVE  PreKey(d) \in {None} \cup (Devices \X Nat)
BY DEF Types, PreKey

\* The record of a device in a set of records.
LEMMA KeyInSet ==
  ASSUME NEW set \in SUBSET (Devices \X Nat), NEW d, d \in DevicesOf(set)
  PROVE  d \in Devices /\ KeyIn(set, d) \in Nat /\ <<d, KeyIn(set, d)>> \in set
<1>1. PICK e \in set : e[1] = d
  BY DEF DevicesOf
<1>2. PICK f : f = CHOOSE x \in set : x[1] = d
  OBVIOUS
<1>3. f \in set /\ f[1] = d
  BY <1>1, <1>2
<1> QED BY <1>2, <1>3 DEF KeyIn

LEMMA SessionFields ==
  ASSUME SessionsSound, NEW d \in Devices, sessions[d] # None
  PROVE  /\ sessions[d].sid \in Nat /\ sessions[d].key \in Nat /\ sessions[d].number \in Nat
         /\ sessions[d].pending \in {None} \cup Header
         /\ 0 < sessions[d].sid /\ sessions[d].sid <= bundles
         /\ IF sessions[d].number = 0
              THEN /\ sessions[d].pending \in Header
                   /\ sessions[d].secret = completeSession(d, sessions[d].key, sessions[d].pending)
              ELSE sessions[d].pending = None
<1>1. PICK i, k, n \in Nat, h \in Header, p \in {None} \cup Header :
        /\ sessions[d] = SessionOf(d, i, k, n, h, p)
        /\ 0 < i /\ i <= bundles
        /\ IF n = 0 THEN p = h ELSE p = None
  BY DEF SessionsSound, IsSession
<1>2. /\ sessions[d].sid = i /\ sessions[d].key = k /\ sessions[d].number = n
      /\ sessions[d].secret = completeSession(d, k, h) /\ sessions[d].pending = p
  BY <1>1 DEF SessionOf
<1> QED BY <1>1, <1>2

LEMMA SessionNumber ==
  ASSUME NEW d, NEW x, NEW last, IsSession(d, x, last)
  PROVE  x.number \in Nat
BY DEF IsSession, SessionOf

LEMMA HeaderIsSome == \A h \in Header : h # None
<1> SUFFICES ASSUME NEW h \in Header, h = None PROVE FALSE
  OBVIOUS
<1>1. DOMAIN h = {"ephemeral", "oneTime"}
  BY DEF Header
<1>2. DOMAIN h = 1..0
  BY DEF None
<1>3. 1..0 = {}
  OBVIOUS
<1> QED BY <1>1, <1>2, <1>3

Base == Types /\ SessionsSound

\* The envelope a step of a session puts out.
StepEnvelope(d) ==
  [device |-> d, key |-> sessions[d].key, session |-> sessions[d].sid,
   number |-> sessions[d].number, header |-> sessions[d].pending]

LEMMA StepEnvelopeType ==
  ASSUME Base, NEW d \in Devices, sessions[d] # None
  PROVE  StepEnvelope(d) \in Envelope
BY SessionFields DEF Base, StepEnvelope, Envelope

SealedEnvelope(s, d) ==
  [device |-> d, key |-> KeyIn(call[s].devices, d), session |-> 0, number |-> 0, header |-> None]

LEMMA SealedEnvelopeType ==
  ASSUME Types, NEW s \in Sends, NEW d \in Devices, d \in DevicesOf(call[s].devices)
  PROVE  SealedEnvelope(s, d) \in Envelope
<1>1. call[s].devices \in SUBSET (Devices \X Nat)
  BY DEF Types, Call
<1> QED BY <1>1, KeyInSet DEF SealedEnvelope, Envelope

\* What a task of a send does to its record.
LEMMA TaskMoves ==
  ASSUME Types, NEW s \in Sends, NEW d \in Devices,
         NEW x \in {"none", "ensure", "bundle", "step", "made", "failed"},
         call' = [call EXCEPT ![s].task[d] = x]
  PROVE  /\ call' \in [Sends -> Call]
         /\ \A t \in Sends : t # s => call'[t] = call[t]
         /\ call'[s].pc = call[s].pc /\ call'[s].devices = call[s].devices
         /\ call'[s].made = call[s].made /\ call'[s].tries = call[s].tries
         /\ call'[s].task[d] = x
         /\ \A e \in Devices : e # d => call'[s].task[e] = call[s].task[e]
<1>1. call'[s] = [call[s] EXCEPT !.task[d] = x] /\ call[s] \in Call
  BY DEF Types
<1>2. call'[s].task = [call[s].task EXCEPT ![d] = x]
  BY <1>1 DEF Call
<1>3. call'[s] \in Call
  BY <1>1 DEF Call
<1>4. call' \in [Sends -> Call]
  BY <1>3 DEF Types
<1> QED BY <1>1, <1>2, <1>4 DEF Types, Call

LEMMA MakeMoves ==
  ASSUME Types, NEW s \in Sends, NEW d \in Devices, NEW e \in Envelope, Make(s, d, e)
  PROVE  /\ call' \in [Sends -> Call]
         /\ \A t \in Sends : t # s => call'[t] = call[t]
         /\ call'[s].pc = call[s].pc /\ call'[s].devices = call[s].devices
         /\ call'[s].made = call[s].made \cup {e} /\ call'[s].tries = call[s].tries
         /\ call'[s].task[d] = "made"
         /\ \A c \in Devices : c # d => call'[s].task[c] = call[s].task[c]
<1>1. call'[s] = [call[s] EXCEPT !.made = call[s].made \cup {e}, !.task[d] = "made"]
      /\ call[s] \in Call
  BY DEF Types, Make
<1>2. call'[s].task = [call[s].task EXCEPT ![d] = "made"]
  BY <1>1 DEF Call
<1>3. call'[s] \in Call
  <2>1. call[s].made \cup {e} \in SUBSET Envelope
    BY <1>1 DEF Call
  <2>2. [call[s].task EXCEPT ![d] = "made"]
          \in [Devices -> {"none", "ensure", "bundle", "step", "made", "failed"}]
    BY <1>1 DEF Call
  <2>3. call'[s] = [call[s] EXCEPT !.made = call[s].made \cup {e},
                                  !.task = [call[s].task EXCEPT ![d] = "made"]]
    BY <1>1
  <2> QED BY <1>1, <2>1, <2>2, <2>3 DEF Call
<1>4. call' \in [Sends -> Call]
  BY <1>3 DEF Types, Make
<1> QED BY <1>1, <1>2, <1>4 DEF Types, Call, Make

\* A step of a send as a whole: its record becomes another.
LEMMA CallMoves ==
  ASSUME Types, NEW s \in Sends, NEW new \in Call, call' = [call EXCEPT ![s] = new]
  PROVE  /\ call' \in [Sends -> Call] /\ call'[s] = new
         /\ \A t \in Sends : t # s => call'[t] = call[t]
BY DEF Types

LEMMA LiveType ==
  Types => Live \in SUBSET (Devices \X Nat)
BY DEF Types, Live

-----------------------------------------------------------------------------
(* Every step keeps the types and the shape of sessions *)

\* What only some actions change.
LEMMA Frame ==
  ASSUME [Next]_vars
  PROVE  /\ phase' = phase
         /\ UNCHANGED <<reported, changes>> \/ \E d \in Devices : Change(d)
         /\ pin' = pin \/ pin = {}
         /\ bundles' = bundles \/ \E s \in Sends, d \in Devices : establishSession(s, d)
         /\ used' = used \/ \E s \in Sends, d \in Devices : ratchetEncryptStep(s, d)
<1>1. ASSUME NEW d \in Devices, Change(d)
      PROVE  UNCHANGED <<phase, pin, bundles, used>>
  BY <1>1 DEF Change
<1>2. ASSUME NEW s \in Sends, FetchDevices(s) \/ Post(s) \/ Mismatch(s) \/ GiveUp(s)
      PROVE  UNCHANGED <<phase, reported, changes, pin, bundles, used>>
  BY <1>2 DEF FetchDevices, Post, Mismatch, GiveUp
<1>3. ASSUME NEW s \in Sends, Trusted(s) \/ Refused(s)
      PROVE  UNCHANGED <<phase, reported, changes, bundles, used>> /\ (pin' = pin \/ pin = {})
  BY <1>3 DEF Trusted, Refused, Pinned, Nobody
<1>4. ASSUME NEW s \in Sends, NEW d \in Devices,
             Seal(s, d) \/ HasSession(s, d) \/ AskBundle(s, d) \/ Fails(s, d)
      PROVE  UNCHANGED <<phase, reported, changes, pin, bundles, used>>
  BY <1>4 DEF Seal, HasSession, AskBundle, Fails
<1>5. ASSUME NEW s \in Sends, NEW d \in Devices, establishSession(s, d)
      PROVE  UNCHANGED <<phase, reported, changes, pin, used>>
  BY <1>5 DEF establishSession
<1>6. ASSUME NEW s \in Sends, NEW d \in Devices, ratchetEncryptStep(s, d)
      PROVE  UNCHANGED <<phase, reported, changes, pin, bundles>>
  BY <1>6 DEF ratchetEncryptStep
<1>7. CASE UNCHANGED vars
  BY <1>7 DEF vars
<1>8. CASE \E d \in Devices : Change(d)
  BY <1>1, <1>8
<1>9. CASE \E s \in Sends : FetchDevices(s) \/ Trusted(s) \/ Refused(s) \/ Post(s)
                             \/ Mismatch(s) \/ GiveUp(s)
  BY <1>2, <1>3, <1>9
<1>10. CASE \E s \in Sends, d \in Devices : Task(s, d)
  BY <1>4, <1>5, <1>6, <1>10 DEF Task
<1> QED BY <1>7, <1>8, <1>9, <1>10 DEF Next

LEMMA InitBase == Init => Base
<1> SUFFICES ASSUME Init PROVE Base
  OBVIOUS
<1>1. NoCall \in Call
  BY DEF NoCall, Call
<1>2. Types
  BY <1>1 DEF Init, Types, Nobody
<1>3. SessionsSound
  BY DEF Init, SessionsSound
<1> QED BY <1>2, <1>3 DEF Base

\* The session made from the bundle of a device.
NewSession(d) ==
  [sid |-> bundles + 1, key |-> reported[d], number |-> 0,
   secret |-> initiateSession(d, reported[d], bundles + 1, PreKey(d)),
   pending |-> InitialHeader(bundles + 1, PreKey(d))]

LEMMA NewSessionSound ==
  ASSUME Types, NEW d \in Devices
  PROVE  /\ InitialHeader(bundles + 1, PreKey(d)) \in Header
         /\ NewSession(d) = SessionOf(d, bundles + 1, reported[d], 0,
                                      InitialHeader(bundles + 1, PreKey(d)),
                                      InitialHeader(bundles + 1, PreKey(d)))
<1>1. InitialHeader(bundles + 1, PreKey(d)) \in Header
  BY PreKeyType DEF InitialHeader, Header, Types
<1>2. initiateSession(d, reported[d], bundles + 1, PreKey(d))
        = completeSession(d, reported[d], InitialHeader(bundles + 1, PreKey(d)))
  BY DEF initiateSession, completeSession, InitialHeader
<1> QED BY <1>1, <1>2 DEF NewSession, SessionOf

\* One session changes, or goes.
LEMMA SessionsPut ==
  ASSUME Base, NEW d \in Devices, NEW x, sessions' = [sessions EXCEPT ![d] = x],
         bundles' \in Nat, bundles <= bundles', IsSession(d, x, bundles')
  PROVE  /\ SessionsSound' /\ DOMAIN sessions' = Devices
         /\ sessions' = [e \in Devices |-> sessions'[e]]
<1>1. sessions'[d] = x /\ \A e \in Devices : e # d => sessions'[e] = sessions[e]
  BY DEF Base, Types
<1>2. ASSUME NEW e \in Devices, e # d, sessions'[e] # None
      PROVE  IsSession(e, sessions[e], bundles')
  <2>1. IsSession(e, sessions[e], bundles)
    BY <1>1, <1>2 DEF Base, SessionsSound
  <2>2. bundles \in Nat
    BY DEF Base, Types
  <2> QED BY <2>1, <2>2 DEF IsSession
<1>3. SessionsSound'
  BY <1>1, <1>2 DEF SessionsSound
<1> QED BY <1>3 DEF Base, Types

LEMMA ResetSound ==
  ASSUME Base, NEW changed, resetSessions(changed), bundles' = bundles
  PROVE  /\ SessionsSound' /\ DOMAIN sessions' = Devices
         /\ sessions' = [e \in Devices |-> sessions'[e]]
<1>1. \A e \in Devices : sessions'[e] # None => sessions'[e] = sessions[e]
  BY DEF resetSessions
<1>2. SessionsSound'
  BY <1>1 DEF Base, SessionsSound
<1> QED BY <1>2 DEF resetSessions

LEMMA StepBase == Base /\ Working /\ [Next]_vars => Base'
<1> SUFFICES ASSUME Base, Working, [Next]_vars PROVE Base'
  OBVIOUS
<1>0. Types /\ SessionsSound
  BY DEF Base
<1>1. ASSUME UNCHANGED <<sessions, bundles>> PROVE SessionsSound'
  BY <1>0, <1>1 DEF SessionsSound
<1>2. ASSUME NEW d \in Devices, Change(d) PROVE Base'
  <2>1. Types'
    BY <1>0, <1>2 DEF Change, Types
  <2> QED BY <1>1, <1>2, <2>1 DEF Base, Change
<1>3. ASSUME NEW s \in Sends, FetchDevices(s) PROVE Base'
  <2>1. PICK new : new = [call[s] EXCEPT !.pc = "fetched", !.devices = Live, !.tries = @ + 1]
    OBVIOUS
  <2>2. new \in Call /\ call' = [call EXCEPT ![s] = new]
    BY <1>0, <1>3, <2>1, LiveType DEF FetchDevices, Types, Call
  <2>3. Types'
    BY <1>0, <1>3, <2>2, CallMoves DEF FetchDevices, Types
  <2> QED BY <1>1, <1>3, <2>3 DEF Base, FetchDevices
<1>4. ASSUME NEW s \in Sends, Trusted(s) PROVE Base'
  <2>1. PICK new : new = [call[s] EXCEPT !.pc = "building", !.made = {}, !.task =
                            [d \in Devices |-> IF d \in DevicesOf(call[s].devices) THEN "ensure" ELSE "none"]]
    OBVIOUS
  <2>2. new \in Call /\ call' = [call EXCEPT ![s] = new]
    <3>1. call[s] \in Call
      BY <1>0 DEF Types
    <3>2. [d \in Devices |-> IF d \in DevicesOf(call[s].devices) THEN "ensure" ELSE "none"]
            \in [Devices -> {"none", "ensure", "bundle", "step", "made", "failed"}]
      OBVIOUS
    <3>3. new \in Call
      BY <2>1, <3>1, <3>2 DEF Call
    <3> QED BY <1>4, <2>1, <3>3 DEF Trusted
  <2>3. pin' \subseteq Devices \X Nat
    BY <1>0, <1>4 DEF Trusted, Pinned, Types, Call
  <2>4. Types'
    BY <1>0, <1>4, <2>2, <2>3, CallMoves DEF Trusted, Types
  <2> QED BY <1>1, <1>4, <2>4 DEF Base, Trusted
<1>5. ASSUME NEW s \in Sends, Refused(s) PROVE Base'
  <2>1. PICK new : new = [call[s] EXCEPT !.pc = "refused"]
    OBVIOUS
  <2>2. new \in Call /\ call' = [call EXCEPT ![s] = new]
    <3>1. call[s] \in Call
      BY <1>0 DEF Types
    <3>2. new \in Call
      BY <2>1, <3>1 DEF Call
    <3> QED BY <1>5, <2>1, <3>2 DEF Refused
  <2>3. pin' \subseteq Devices \X Nat
    BY <1>0, <1>5 DEF Refused, Pinned, Types, Call
  <2>4. /\ SessionsSound' /\ DOMAIN sessions' = Devices
        /\ sessions' = [e \in Devices |-> sessions'[e]]
    BY <1>5, ResetSound DEF Refused
  <2>5. Types'
    BY <1>0, <1>5, <2>2, <2>3, <2>4, CallMoves DEF Refused, Types
  <2> QED BY <2>4, <2>5 DEF Base
<1>6. ASSUME NEW s \in Sends, Post(s) \/ Mismatch(s) \/ GiveUp(s) PROVE Base'
  <2>1. PICK pc \in {"sent", "retry", "failed"} : call' = [call EXCEPT ![s].pc = pc]
    BY <1>6 DEF Post, Mismatch, GiveUp
  <2>2. PICK new : new = [call[s] EXCEPT !.pc = pc]
    OBVIOUS
  <2>3. new \in Call /\ call' = [call EXCEPT ![s] = new]
    <3>1. call[s] \in Call
      BY <1>0 DEF Types
    <3>2. new \in Call
      BY <2>2, <3>1 DEF Call
    <3> QED BY <2>1, <2>2, <3>2
  <2>4. posted' \subseteq Envelope
    BY <1>0, <1>6 DEF Post, Mismatch, GiveUp, Types, Call
  <2>5. Types'
    BY <1>0, <1>6, <2>3, <2>4, CallMoves DEF Post, Mismatch, GiveUp, Types
  <2> QED BY <1>1, <1>6, <2>5 DEF Base, Post, Mismatch, GiveUp
<1>7. ASSUME NEW s \in Sends, NEW d \in Devices, Seal(s, d) PROVE Base'
  <2>1. d \in DevicesOf(call[s].devices)
    BY <1>7 DEF Working, OpenTasks, Seal
  <2>2. Make(s, d, SealedEnvelope(s, d))
    BY <1>7 DEF Seal, SealedEnvelope
  <2>3. call' \in [Sends -> Call]
    BY <1>0, <2>1, <2>2, MakeMoves, SealedEnvelopeType
  <2>4. Types'
    BY <1>0, <1>7, <2>3 DEF Seal, Types
  <2> QED BY <1>1, <1>7, <2>4 DEF Base, Seal
<1>8. ASSUME NEW s \in Sends, NEW d \in Devices, HasSession(s, d) \/ AskBundle(s, d) \/ Fails(s, d)
      PROVE  Base'
  <2>1. PICK x \in {"step", "bundle", "failed"} : call' = [call EXCEPT ![s].task[d] = x]
    BY <1>8 DEF HasSession, AskBundle, Fails
  <2>2. call' \in [Sends -> Call]
    BY <1>0, <2>1, TaskMoves
  <2>3. Types'
    BY <1>0, <1>8, <2>2 DEF HasSession, AskBundle, Fails, Types
  <2> QED BY <1>1, <1>8, <2>3 DEF Base, HasSession, AskBundle, Fails
<1>9. ASSUME NEW s \in Sends, NEW d \in Devices, establishSession(s, d)
      PROVE  Base'
  <2>1. /\ sessions' = [sessions EXCEPT ![d] = NewSession(d)] /\ bundles' = bundles + 1
        /\ call' = [call EXCEPT ![s].task[d] = "step"]
    BY <1>9 DEF establishSession, NewSession
  <2>2. bundles' \in Nat /\ bundles <= bundles' /\ bundles + 1 \in Nat /\ 0 < bundles + 1
        /\ bundles + 1 <= bundles' /\ reported[d] \in Nat
    BY <1>0, <2>1 DEF Types
  <2>3. /\ SessionsSound' /\ DOMAIN sessions' = Devices
        /\ sessions' = [e \in Devices |-> sessions'[e]]
    <3>1. IsSession(d, NewSession(d), bundles + 1)
      BY <1>0, <2>2, NewSessionSound DEF IsSession
    <3> QED BY <2>1, <2>2, <3>1, SessionsPut
  <2>4. call' \in [Sends -> Call]
    BY <1>0, <2>1, TaskMoves
  <2>5. Types'
    BY <1>0, <1>9, <2>2, <2>3, <2>4 DEF establishSession, Types
  <2> QED BY <2>3, <2>5 DEF Base
<1>10. ASSUME NEW s \in Sends, NEW d \in Devices, ratchetEncryptStep(s, d)
       PROVE  Base'
  <2>1. /\ sessions[d] # None /\ bundles' = bundles
        /\ sessions' = [sessions EXCEPT ![d] = Advanced(d)]
        /\ Make(s, d, StepEnvelope(d))
    BY <1>10 DEF ratchetEncryptStep, StepEnvelope
  <2>2. PICK i, k, n \in Nat, h \in Header, p \in {None} \cup Header :
          sessions[d] = SessionOf(d, i, k, n, h, p) /\ 0 < i /\ i <= bundles
    BY <1>0, <2>1 DEF SessionsSound, IsSession
  <2>3. Advanced(d) = SessionOf(d, i, k, n + 1, h, None)
    <3>1. sessions[d].number = n
      BY <2>2 DEF SessionOf
    <3>2. Advanced(d) = [SessionOf(d, i, k, n, h, p) EXCEPT !.number = n + 1, !.pending = None]
      BY <2>2, <3>1 DEF Advanced
    <3> QED BY <3>2 DEF SessionOf
  <2>4. /\ SessionsSound' /\ DOMAIN sessions' = Devices
        /\ sessions' = [e \in Devices |-> sessions'[e]]
    <3>1. n + 1 \in Nat /\ n + 1 # 0 /\ bundles' \in Nat /\ bundles <= bundles'
      BY <1>0, <2>1 DEF Types
    <3>2. IsSession(d, Advanced(d), bundles')
      BY <2>1, <2>2, <2>3, <3>1 DEF IsSession
    <3> QED BY <2>1, <3>1, <3>2, SessionsPut
  <2>5. call' \in [Sends -> Call]
    BY <1>0, <2>1, MakeMoves, StepEnvelopeType
  <2>6. Types'
    BY <1>0, <1>10, <2>4, <2>5 DEF ratchetEncryptStep, Types
  <2> QED BY <2>4, <2>6 DEF Base
<1>11. CASE UNCHANGED vars
  BY <1>0, <1>1, <1>11 DEF Base, Types, vars
<1> QED
  BY <1>2, <1>3, <1>4, <1>5, <1>6, <1>7, <1>8, <1>9, <1>10, <1>11 DEF Next, Task

-----------------------------------------------------------------------------
(* Trust is kept *)

\* A send that is built has no task open.
LEMMA NoneOpen ==
  ASSUME Types, Working, NEW s \in Sends, NEW d \in Devices,
         call[s].pc \notin {"building", "failed"} \/ Built(s)
  PROVE  call[s].task[d] \notin OpenTasks
<1>1. CASE call[s].pc \notin {"building", "failed"}
  BY <1>1 DEF Working
<1>2. CASE Built(s)
  <2>1. SUFFICES ASSUME call[s].task[d] \in OpenTasks PROVE FALSE
    OBVIOUS
  <2>2. d \in DevicesOf(call[s].devices)
    BY <2>1 DEF Working
  <2>3. call[s].task[d] = "made"
    BY <1>2, <2>2 DEF Built
  <2> QED BY <2>1, <2>3 DEF OpenTasks
<1> QED BY <1>1, <1>2

\* A task that puts out no envelope goes on, or fails; under the sealed box it
\* has nothing to go on to.
LEMMA TaskGoesOn ==
  ASSUME Types, Working, NEW s \in Sends, NEW d \in Devices,
         HasSession(s, d) \/ AskBundle(s, d) \/ establishSession(s, d) \/ Fails(s, d)
  PROVE  \E x \in {"step", "bundle", "failed"} :
           /\ \A t \in Sends : t # s => call'[t] = call[t]
           /\ call'[s].pc = call[s].pc /\ call'[s].devices = call[s].devices
           /\ call'[s].task[d] = x /\ (phase = "sealed" => x \notin {"bundle", "step"})
           /\ \A e \in Devices : e # d => call'[s].task[e] = call[s].task[e]
<1>1. PICK x \in {"step", "bundle", "failed"} :
        call' = [call EXCEPT ![s].task[d] = x] /\ (phase = "sealed" => x \notin {"bundle", "step"})
  <2>1. HasSession(s, d) => call' = [call EXCEPT ![s].task[d] = "step"] /\ phase = "signal"
    BY DEF HasSession
  <2>2. establishSession(s, d) => call' = [call EXCEPT ![s].task[d] = "step"] /\ phase # "sealed"
    BY DEF establishSession, Working
  <2>3. AskBundle(s, d) => call' = [call EXCEPT ![s].task[d] = "bundle"] /\ phase = "signal"
    BY DEF AskBundle
  <2>4. Fails(s, d) => call' = [call EXCEPT ![s].task[d] = "failed"]
    BY DEF Fails
  <2> QED BY <2>1, <2>2, <2>3, <2>4
<1>2. /\ \A t \in Sends : t # s => call'[t] = call[t]
      /\ call'[s].pc = call[s].pc /\ call'[s].devices = call[s].devices
      /\ call'[s].task[d] = x
      /\ \A e \in Devices : e # d => call'[s].task[e] = call[s].task[e]
  <2>1. call'[s] = [call[s] EXCEPT !.task[d] = x] /\ call[s] \in Call
    BY <1>1 DEF Types
  <2>2. call'[s].task = [call[s].task EXCEPT ![d] = x]
    BY <2>1 DEF Call
  <2> QED BY <1>1, <2>1, <2>2 DEF Types, Call
<1> QED BY <1>1, <1>2

LEMMA StepWorking ==
  ASSUME Base, Working, [Next]_vars
  PROVE  Working'
<1> DEFINE Keeps(s) == \A d \in Devices :
             /\ call'[s].task[d] \in OpenTasks =>
                  call'[s].pc \in {"building", "failed"} /\ call'[s].devices = pin'
                    /\ d \in DevicesOf(pin')
             /\ phase' = "sealed" => call'[s].task[d] \notin {"bundle", "step"}
<1>0. Types /\ phase' = phase
  BY Frame DEF Base
<1>1. ASSUME NEW t \in Sends, call'[t] = call[t]
      PROVE  Keeps(t)
  <2>1. \A d \in Devices : call[t].task[d] \in OpenTasks => pin # {}
    BY DEF Working, DevicesOf
  <2>2. \A d \in Devices : call[t].task[d] \in OpenTasks => pin' = pin
    BY <2>1, Frame
  <2> QED BY <1>0, <1>1, <2>2 DEF Working, DevicesOf
<1>2. ASSUME NEW s \in Sends, NEW d \in Devices, Task(s, d)
      PROVE  \A t \in Sends : Keeps(t)
  <2>1. call[s].task[d] \in OpenTasks /\ pin' = pin
    BY <1>2 DEF Task, OpenTasks, Seal, HasSession, AskBundle, establishSession, Fails, ratchetEncryptStep
  <2>2. PICK x \in {"step", "bundle", "failed", "made"} :
          /\ \A t \in Sends : t # s => call'[t] = call[t]
          /\ call'[s].pc = call[s].pc /\ call'[s].devices = call[s].devices
          /\ call'[s].task[d] = x /\ (phase = "sealed" => x \notin {"bundle", "step"})
          /\ \A e \in Devices : e # d => call'[s].task[e] = call[s].task[e]
    <3>1. CASE Seal(s, d)
      <4>1. d \in DevicesOf(call[s].devices)
        BY <2>1 DEF Working
      <4>2. Make(s, d, SealedEnvelope(s, d)) /\ SealedEnvelope(s, d) \in Envelope
        BY <1>0, <3>1, <4>1, SealedEnvelopeType DEF Seal, SealedEnvelope
      <4> QED BY <1>0, <4>2, MakeMoves
    <3>2. CASE ratchetEncryptStep(s, d)
      <4>1. Make(s, d, StepEnvelope(d)) /\ StepEnvelope(d) \in Envelope
        BY <3>2, StepEnvelopeType DEF ratchetEncryptStep, StepEnvelope
      <4> QED BY <1>0, <4>1, MakeMoves
    <3>3. CASE HasSession(s, d) \/ AskBundle(s, d) \/ establishSession(s, d) \/ Fails(s, d)
      BY <1>0, <3>3, TaskGoesOn
    <3> QED BY <1>2, <3>1, <3>2, <3>3 DEF Task
  <2>3. Keeps(s)
    BY <1>0, <2>1, <2>2 DEF Working
  <2> QED BY <1>1, <2>2, <2>3
<1>3. ASSUME NEW s \in Sends, FetchDevices(s) \/ Refused(s) \/ Post(s) \/ Mismatch(s)
      PROVE  \A t \in Sends : Keeps(t)
  <2>1. \A d \in Devices : call[s].task[d] \notin OpenTasks
    BY <1>0, <1>3, NoneOpen DEF FetchDevices, Refused, Post, Mismatch
  <2>2. call'[s].task = call[s].task /\ \A t \in Sends : t # s => call'[t] = call[t]
    BY <1>0, <1>3 DEF FetchDevices, Refused, Post, Mismatch, Types, Call
  <2>3. Keeps(s)
    BY <2>1, <2>2 DEF OpenTasks
  <2> QED BY <1>1, <2>2, <2>3
<1>4. ASSUME NEW s \in Sends, GiveUp(s)
      PROVE  \A t \in Sends : Keeps(t)
  <2>1. /\ call'[s].task = call[s].task /\ call'[s].devices = call[s].devices
        /\ call'[s].pc = "failed" /\ pin' = pin
        /\ \A t \in Sends : t # s => call'[t] = call[t]
    BY <1>0, <1>4 DEF GiveUp, Types, Call
  <2>2. Keeps(s)
    BY <1>0, <2>1 DEF Working
  <2> QED BY <1>1, <2>1, <2>2
<1>5. ASSUME NEW s \in Sends, Trusted(s)
      PROVE  \A t \in Sends : Keeps(t)
  <2>1. call[s] \in Call
    BY <1>0 DEF Types
  <2>2. /\ call'[s].pc = "building" /\ call'[s].devices = call[s].devices
        /\ \A d \in Devices :
             call'[s].task[d] = IF d \in DevicesOf(call[s].devices) THEN "ensure" ELSE "none"
        /\ \A t \in Sends : t # s => call'[t] = call[t]
    BY <1>0, <1>5, <2>1 DEF Trusted, Types, Call
  <2>3. pin' = call[s].devices
    BY <1>5 DEF Trusted, Trusts, Pinned
  <2>4. Keeps(s)
    BY <2>2, <2>3 DEF OpenTasks
  <2> QED BY <1>1, <2>2, <2>4
<1>6. (\A s \in Sends : Keeps(s)) => Working'
  BY DEF Working, DevicesOf
<1>7. ASSUME UNCHANGED call
      PROVE  \A s \in Sends : Keeps(s)
  BY <1>1, <1>7
<1> QED
  BY <1>2, <1>3, <1>4, <1>5, <1>6, <1>7 DEF Next, Change, vars

\* What is out and was not is the envelope of the step.
LEMMA OutGrows ==
  ASSUME Base, Working, [Next]_vars, NEW e \in Out', e \notin Out
  PROVE  \E s \in Sends, d \in Devices :
           \/ Seal(s, d) /\ e = SealedEnvelope(s, d)
           \/ ratchetEncryptStep(s, d) /\ e = StepEnvelope(d)
<1>0. Types
  BY DEF Base
<1>1. ASSUME posted' \subseteq Out, \A t \in Sends : call'[t].made \subseteq Out
      PROVE  FALSE
  BY <1>1 DEF Out
<1>2. ASSUME NEW s \in Sends, NEW d \in Devices, Seal(s, d)
      PROVE  e = SealedEnvelope(s, d)
  <2>1. d \in DevicesOf(call[s].devices)
    BY <1>2 DEF Working, OpenTasks, Seal
  <2>2. Make(s, d, SealedEnvelope(s, d)) /\ SealedEnvelope(s, d) \in Envelope /\ posted' = posted
    BY <1>0, <1>2, <2>1, SealedEnvelopeType DEF Seal, SealedEnvelope
  <2>3. /\ call'[s].made = call[s].made \cup {SealedEnvelope(s, d)}
        /\ \A t \in Sends : t # s => call'[t] = call[t]
    BY <1>0, <2>2, MakeMoves
  <2> QED BY <2>2, <2>3 DEF Out
<1>3. ASSUME NEW s \in Sends, NEW d \in Devices, ratchetEncryptStep(s, d)
      PROVE  e = StepEnvelope(d)
  <2>1. Make(s, d, StepEnvelope(d)) /\ StepEnvelope(d) \in Envelope /\ posted' = posted
    BY <1>3, StepEnvelopeType DEF ratchetEncryptStep, StepEnvelope
  <2>2. /\ call'[s].made = call[s].made \cup {StepEnvelope(d)}
        /\ \A t \in Sends : t # s => call'[t] = call[t]
    BY <1>0, <2>1, MakeMoves
  <2> QED BY <2>1, <2>2 DEF Out
<1>4. ASSUME NEW s \in Sends, NEW d \in Devices,
             HasSession(s, d) \/ AskBundle(s, d) \/ establishSession(s, d) \/ Fails(s, d)
      PROVE  FALSE
  <2>1. PICK x \in {"step", "bundle", "failed"} : call' = [call EXCEPT ![s].task[d] = x]
    BY <1>4 DEF HasSession, AskBundle, establishSession, Fails
  <2>2. \A t \in Sends : call'[t].made = call[t].made
    BY <1>0, <2>1, TaskMoves
  <2>3. posted' = posted
    BY <1>4 DEF HasSession, AskBundle, establishSession, Fails
  <2> QED BY <1>1, <2>2, <2>3 DEF Out
<1>5. ASSUME NEW s \in Sends, FetchDevices(s) \/ Refused(s) \/ Post(s) \/ Mismatch(s) \/ GiveUp(s)
      PROVE  FALSE
  <2>1. \A t \in Sends : call'[t].made = call[t].made
    <3>1. \A t \in Sends : t # s => call'[t] = call[t]
      BY <1>0, <1>5 DEF FetchDevices, Refused, Post, Mismatch, GiveUp, Types
    <3>2. call[s] \in Call
      BY <1>0 DEF Types
    <3>3. CASE FetchDevices(s)
      BY <1>0, <3>1, <3>2, <3>3 DEF FetchDevices, Types, Call
    <3>4. CASE Refused(s)
      BY <1>0, <3>1, <3>2, <3>4 DEF Refused, Types, Call
    <3>5. CASE Post(s) \/ Mismatch(s) \/ GiveUp(s)
      BY <1>0, <3>1, <3>2, <3>5 DEF Post, Mismatch, GiveUp, Types, Call
    <3> QED BY <1>5, <3>3, <3>4, <3>5
  <2>2. posted' = posted \/ posted' = posted \cup call[s].made
    BY <1>5 DEF FetchDevices, Refused, Post, Mismatch, GiveUp
  <2> QED BY <1>1, <2>1, <2>2 DEF Out
<1>6. ASSUME NEW s \in Sends, Trusted(s)
      PROVE  FALSE
  <2>1. call'[s].made = {} /\ \A t \in Sends : t # s => call'[t] = call[t]
    BY <1>0, <1>6 DEF Trusted, Types, Call
  <2>2. posted' = posted
    BY <1>6 DEF Trusted
  <2> QED BY <1>1, <2>1, <2>2 DEF Out
<1>7. ASSUME UNCHANGED <<call, posted>> PROVE FALSE
  BY <1>7 DEF Out
<1> QED BY <1>2, <1>3, <1>4, <1>5, <1>6, <1>7 DEF Next, Task, Change, vars

LEMMA StepPinned ==
  ASSUME Base, Working, OutPinned, [Next]_vars
  PROVE  OutPinned'
<1>1. Types /\ phase' = phase
  BY Frame DEF Base
<1>2. SUFFICES ASSUME phase = "sealed", NEW e \in Out'
      PROVE  <<e.device, e.key>> \in pin'
  BY <1>1 DEF OutPinned
<1>3. pin \subseteq pin'
  BY Frame
<1>4. CASE e \in Out
  BY <1>2, <1>3, <1>4 DEF OutPinned
<1>5. CASE e \notin Out
  <2>1. PICK s \in Sends, d \in Devices :
          \/ Seal(s, d) /\ e = SealedEnvelope(s, d)
          \/ ratchetEncryptStep(s, d) /\ e = StepEnvelope(d)
    BY <1>5, OutGrows
  <2>2. ~ratchetEncryptStep(s, d)
    BY <1>2 DEF Working, ratchetEncryptStep
  <2>3. call[s].devices = pin /\ d \in DevicesOf(pin)
    BY <2>1, <2>2 DEF Seal, Working, OpenTasks
  <2>4. e.device = d /\ e.key = KeyIn(pin, d)
    BY <2>1, <2>2, <2>3 DEF SealedEnvelope
  <2>5. <<d, KeyIn(pin, d)>> \in pin
    BY <1>1, <2>3, KeyInSet DEF Types
  <2> QED BY <1>3, <2>4, <2>5
<1> QED BY <1>4, <1>5

-----------------------------------------------------------------------------
(* Every message has a key of its own *)

\* A session that is there after a step was there before it, under the same
\* secret and no further on, or it is new.
LEMMA SessionMoves ==
  ASSUME Base, [Next]_vars, NEW d \in Devices, sessions'[d] # None
  PROVE  \/ /\ sessions[d] # None
            /\ sessions'[d].sid = sessions[d].sid /\ sessions'[d].secret = sessions[d].secret
            /\ sessions'[d].number >= sessions[d].number
         \/ /\ sessions'[d].sid = bundles + 1 /\ bundles' = bundles + 1
            /\ \A e \in Devices : e # d => sessions'[e] = sessions[e]
<1>0. Types /\ SessionsSound
  BY DEF Base
<1>1. ASSUME sessions'[d] = sessions[d]
      PROVE  /\ sessions[d] # None
             /\ sessions'[d].sid = sessions[d].sid /\ sessions'[d].secret = sessions[d].secret
             /\ sessions'[d].number >= sessions[d].number
  BY <1>0, <1>1, SessionFields
<1>2. ASSUME NEW s \in Sends, Refused(s)
      PROVE  sessions'[d] = sessions[d]
  BY <1>2 DEF Refused, resetSessions
<1>3. ASSUME NEW s \in Sends, NEW c \in Devices, establishSession(s, c), c # d
      PROVE  sessions'[d] = sessions[d]
  BY <1>0, <1>3 DEF establishSession, Types
<1>4. ASSUME NEW s \in Sends, establishSession(s, d)
      PROVE  /\ sessions'[d].sid = bundles + 1 /\ bundles' = bundles + 1
             /\ \A e \in Devices : e # d => sessions'[e] = sessions[e]
  BY <1>0, <1>4 DEF establishSession, Types
<1>5. ASSUME NEW s \in Sends, NEW c \in Devices, ratchetEncryptStep(s, c), c # d
      PROVE  sessions'[d] = sessions[d]
  BY <1>0, <1>5 DEF ratchetEncryptStep, Types
<1>6. ASSUME NEW s \in Sends, ratchetEncryptStep(s, d)
      PROVE  /\ sessions[d] # None
             /\ sessions'[d].sid = sessions[d].sid /\ sessions'[d].secret = sessions[d].secret
             /\ sessions'[d].number >= sessions[d].number
  <2>1. sessions[d] # None /\ sessions'[d] = Advanced(d)
    BY <1>0, <1>6 DEF ratchetEncryptStep, Types
  <2>2. PICK i, k, n \in Nat, h \in Header, p \in {None} \cup Header :
          sessions[d] = SessionOf(d, i, k, n, h, p)
    BY <1>0, <2>1 DEF SessionsSound, IsSession
  <2> QED BY <2>1, <2>2 DEF Advanced, SessionOf
<1>7. ASSUME UNCHANGED sessions
      PROVE  sessions'[d] = sessions[d]
  BY <1>7
<1> QED
  BY <1>1, <1>2, <1>3, <1>4, <1>5, <1>6, <1>7
     DEF Next, Change, FetchDevices, Trusted, Post, Mismatch, GiveUp, Task, Seal, HasSession,
         AskBundle, Fails, vars

LEMMA StepOrdered ==
  ASSUME KeysInv, Working, [Next]_vars
  PROVE  KeysOrdered' /\ OneKeyOneMessage'
<1>0. Base /\ Types /\ SessionsSound /\ KeysOrdered /\ OneKeyOneMessage
      /\ bundles \in Nat /\ bundles' \in Nat /\ bundles <= bundles'
  <2>1. Base /\ KeysOrdered /\ OneKeyOneMessage
    BY DEF KeysInv, Base, KeysLineUp
  <2>2. bundles' = bundles \/ bundles' = bundles + 1
    BY Frame DEF establishSession
  <2> QED BY <2>1, <2>2 DEF Base, Types
<1>1. \A d \in Devices : sessions[d] # None => sessions[d].sid \in Nat /\ sessions[d].sid <= bundles
                           /\ sessions[d].number \in Nat
  BY <1>0, SessionFields
<1>2. ASSUME NEW d \in Devices, NEW e \in Devices, sessions'[d] # None, sessions'[e] # None,
             sessions'[d].sid = sessions'[e].sid
      PROVE  d = e
  <2>1. SUFFICES ASSUME d # e PROVE FALSE
    OBVIOUS
  <2>2. CASE sessions'[d].sid = bundles + 1
    <3>1. sessions[d] = None \/ sessions'[d].sid # sessions[d].sid
      BY <1>0, <1>1, <2>2
    <3>2. sessions[e] = None \/ sessions'[e].sid # sessions[e].sid
      BY <1>0, <1>1, <1>2, <2>2
    <3>3. sessions'[e] = sessions[e]
      BY <1>0, <1>2, <2>1, <3>1, SessionMoves
    <3> QED BY <1>2, <3>2, <3>3
  <2>3. CASE sessions'[d].sid # bundles + 1
    BY <1>0, <1>2, <2>1, <2>3, SessionMoves DEF KeysOrdered
  <2> QED BY <2>2, <2>3
<1>3. CASE used' = used
  <2>1. \A u \in used : u[1] <= bundles'
    BY <1>0 DEF KeysOrdered
  <2>2. ASSUME NEW u \in used, NEW d \in Devices, sessions'[d] # None, u[1] = sessions'[d].sid
        PROVE  u[2] < sessions'[d].number
    <3>1. sessions'[d].sid # bundles + 1 /\ u[1] \in Nat /\ u[2] \in Nat
      BY <1>0, <2>2 DEF KeysOrdered
    <3>2. /\ sessions[d] # None /\ sessions'[d].sid = sessions[d].sid
          /\ sessions'[d].number >= sessions[d].number
      BY <1>0, <2>2, <3>1, SessionMoves
    <3>3. u[2] < sessions[d].number
      BY <1>0, <2>2, <3>2 DEF KeysOrdered
    <3>4. sessions'[d].number \in Nat /\ sessions[d].number \in Nat
      <4>1. IsSession(d, sessions'[d], bundles')
        BY <1>0, <2>2, StepBase DEF Base, SessionsSound
      <4> QED BY <1>1, <3>2, <4>1, SessionNumber
    <3> QED BY <3>1, <3>2, <3>3, <3>4
  <2> QED BY <1>0, <1>2, <1>3, <2>1, <2>2 DEF KeysOrdered, OneKeyOneMessage
<1>4. ASSUME NEW s \in Sends, NEW d \in Devices, ratchetEncryptStep(s, d)
      PROVE  KeysOrdered' /\ OneKeyOneMessage'
  <2>1. PICK w : w = <<sessions[d].sid, sessions[d].number, s, call[s].tries>>
    OBVIOUS
  <2>2. /\ sessions[d] # None /\ used' = used \cup {w} /\ bundles' = bundles
        /\ sessions'[d] = Advanced(d) /\ \A e \in Devices : e # d => sessions'[e] = sessions[e]
    BY <1>0, <1>4, <2>1 DEF ratchetEncryptStep, Types
  <2>3. sessions'[d].sid = sessions[d].sid /\ sessions'[d].number = sessions[d].number + 1
    <3>1. PICK i, k, n \in Nat, h \in Header, p \in {None} \cup Header :
            sessions[d] = SessionOf(d, i, k, n, h, p)
      BY <1>0, <2>2 DEF SessionsSound, IsSession
    <3> QED BY <2>2, <3>1 DEF Advanced, SessionOf
  <2>4. \A u \in used : u[1] = w[1] => u[2] < w[2]
    BY <1>0, <2>1, <2>2 DEF KeysOrdered
  <2>5. w[1] = sessions[d].sid /\ w[2] = sessions[d].number
    BY <2>1
  <2>6. w[1] \in Nat /\ w[2] \in Nat /\ w[1] <= bundles
    BY <1>1, <2>2, <2>5
  <2>7. ASSUME NEW u \in used', NEW e \in Devices, sessions'[e] # None, u[1] = sessions'[e].sid
        PROVE  u[2] < sessions'[e].number
    <3>1. CASE u \in used /\ e # d
      BY <1>0, <2>2, <2>7, <3>1 DEF KeysOrdered
    <3>2. CASE u \in used /\ e = d
      <4>1. u[2] < sessions[d].number /\ u[2] \in Nat
        BY <1>0, <2>2, <2>3, <2>7, <3>2 DEF KeysOrdered
      <4> QED BY <1>1, <2>2, <2>3, <3>2, <4>1
    <3>3. CASE u = w
      <4>1. e = d
        BY <1>0, <2>2, <2>5, <2>7, <3>3 DEF KeysOrdered
      <4> QED BY <1>1, <2>2, <2>3, <2>5, <3>3, <4>1
    <3> QED BY <2>2, <3>1, <3>2, <3>3
  <2>8. OneKeyOneMessage'
    <3>1. \A u \in used : u[2] \in Nat
      BY <1>0 DEF KeysOrdered
    <3> QED BY <1>0, <2>2, <2>4, <2>6, <3>1 DEF OneKeyOneMessage
  <2> QED BY <1>0, <1>2, <2>2, <2>6, <2>7, <2>8 DEF KeysOrdered
<1>5. used' = used \/ \E s \in Sends, d \in Devices : ratchetEncryptStep(s, d)
  BY Frame
<1> QED BY <1>3, <1>4, <1>5

\* What FirstCarriesHeader asks of one envelope.
HeaderRight(e) ==
  e.session # 0 =>
    /\ e.header # None <=> e.number = 0
    /\ e.header # None =>
         \A d \in Devices :
           sessions[d] # None /\ sessions[d].sid = e.session =>
             completeSession(d, e.key, e.header) = sessions[d].secret

LEMMA FirstIsOut == FirstCarriesHeader <=> \A e \in Out : HeaderRight(e)
BY DEF FirstCarriesHeader, Out, HeaderRight

LEMMA StepHeaders ==
  ASSUME KeysInv, Working, [Next]_vars
  PROVE  OutKnown' /\ FirstCarriesHeader'
<1>0. /\ Base /\ Types /\ SessionsSound /\ KeysOrdered /\ OutKnown
      /\ \A e \in Out : HeaderRight(e)
      /\ bundles \in Nat /\ bundles' \in Nat /\ bundles <= bundles'
  <2>1. Base /\ KeysOrdered /\ OutKnown /\ \A e \in Out : HeaderRight(e)
    BY FirstIsOut DEF KeysInv, Base, KeysLineUp
  <2>2. bundles' = bundles \/ bundles' = bundles + 1
    BY Frame DEF establishSession
  <2> QED BY <2>1, <2>2 DEF Base, Types
<1>1. ASSUME NEW e \in Out
      PROVE  e.session <= bundles' /\ HeaderRight(e)'
  <2>1. e.session \in Nat /\ e.session <= bundles
    BY <1>0 DEF OutKnown, Out, Types, Call, Envelope
  <2>2. ASSUME NEW d \in Devices, sessions'[d] # None, sessions'[d].sid = e.session
        PROVE  /\ sessions[d] # None /\ sessions[d].sid = e.session
               /\ sessions'[d].secret = sessions[d].secret
    BY <1>0, <2>1, <2>2, SessionMoves
  <2>3. HeaderRight(e)'
    BY <1>0, <2>2 DEF HeaderRight, completeSession
  <2> QED BY <1>0, <2>1, <2>3
<1>2. ASSUME NEW s \in Sends, NEW d \in Devices
      PROVE  SealedEnvelope(s, d).session <= bundles' /\ SealedEnvelope(s, d).session = 0
  BY <1>0 DEF SealedEnvelope
<1>3. ASSUME NEW s \in Sends, NEW d \in Devices, ratchetEncryptStep(s, d), NEW e,
             e = StepEnvelope(d)
      PROVE  e.session <= bundles' /\ HeaderRight(e)'
  <2>1. /\ e.session = sessions[d].sid /\ e.number = sessions[d].number
        /\ e.header = sessions[d].pending /\ e.key = sessions[d].key
    BY <1>3 DEF StepEnvelope
  <2>2. sessions[d] # None
    BY <1>3 DEF ratchetEncryptStep
  <2>3. /\ e.session <= bundles' /\ e.session <= bundles /\ e.session \in Nat
        /\ e.header # None <=> e.number = 0
        /\ e.header # None => completeSession(d, e.key, e.header) = sessions[d].secret
    BY <1>0, <2>1, <2>2, SessionFields, HeaderIsSome
  <2>4. ASSUME NEW c \in Devices, sessions'[c] # None, sessions'[c].sid = e.session
        PROVE  c = d /\ sessions'[c].secret = sessions[d].secret
    <3>1. sessions[c] # None /\ sessions[c].sid = e.session
          /\ sessions'[c].secret = sessions[c].secret
      BY <1>0, <2>3, <2>4, SessionMoves
    <3>2. c = d
      BY <1>0, <2>1, <2>2, <3>1 DEF KeysOrdered
    <3> QED BY <3>1, <3>2
  <2>5. HeaderRight(e)'
    BY <2>3, <2>4 DEF HeaderRight, completeSession
  <2> QED BY <2>3, <2>5
<1>4. ASSUME NEW e \in Out'
      PROVE  e.session <= bundles' /\ HeaderRight(e)'
  <2>1. CASE e \in Out
    BY <1>1, <2>1
  <2>2. CASE e \notin Out
    <3>1. PICK s \in Sends, d \in Devices :
            \/ Seal(s, d) /\ e = SealedEnvelope(s, d)
            \/ ratchetEncryptStep(s, d) /\ e = StepEnvelope(d)
      BY <1>0, <2>2, OutGrows
    <3>2. CASE e = SealedEnvelope(s, d)
      BY <1>2, <3>2 DEF HeaderRight
    <3>3. CASE ratchetEncryptStep(s, d) /\ e = StepEnvelope(d)
      BY <1>3, <3>3
    <3> QED BY <3>1, <3>2, <3>3
  <2> QED BY <2>1, <2>2
<1>5. (\A e \in Out : HeaderRight(e))' => FirstCarriesHeader'
  BY DEF FirstCarriesHeader, Out, HeaderRight
<1> QED BY <1>4, <1>5 DEF OutKnown

-----------------------------------------------------------------------------
(* Theorems *)

IInv == Types /\ SessionsSound /\ Working /\ OutPinned /\ KeysOrdered /\ OutKnown /\ KeysLineUp

LEMMA SpecIInv == Spec => []IInv
<1>1. Init => IInv
  <2> SUFFICES ASSUME Init PROVE IInv
    OBVIOUS
  <2>1. Types /\ SessionsSound
    BY InitBase DEF Base
  <2>2. Out = {}
    BY DEF Init, Out, NoCall
  <2>3. Working
    BY DEF Init, NoCall, Working, OpenTasks
  <2>4. OutPinned /\ OutKnown /\ \A e \in Out : HeaderRight(e)
    BY <2>2 DEF OutPinned, OutKnown
  <2>5. KeysOrdered /\ OneKeyOneMessage
    BY DEF Init, KeysOrdered, OneKeyOneMessage
  <2> QED BY <2>1, <2>3, <2>4, <2>5, FirstIsOut DEF IInv, KeysLineUp
<1>2. IInv /\ [Next]_vars => IInv'
  <2> SUFFICES ASSUME IInv, [Next]_vars PROVE IInv'
    OBVIOUS
  <2>1. Base /\ Working /\ OutPinned /\ KeysInv
    BY DEF IInv, Base, KeysInv
  <2>2. Base' /\ Working' /\ OutPinned'
    BY <2>1, StepBase, StepWorking, StepPinned
  <2>3. KeysOrdered' /\ OneKeyOneMessage' /\ OutKnown' /\ FirstCarriesHeader'
    BY <2>1, StepOrdered, StepHeaders
  <2> QED BY <2>2, <2>3 DEF IInv, Base, KeysLineUp
<1> QED BY <1>1, <1>2, PTL DEF Spec

\* The bounds, the device sets and the attempts of a send stay in their ranges
\* (sendEncryptedMessage tries twice).
THEOREM TypeCorrect == Spec => []TypeOK
<1>1. Init => Bounds
  BY SessionsAssumption DEF Init, Bounds, Attempts, NoCall
<1>2. IInv /\ Bounds /\ [Next]_vars => Bounds'
  <2> SUFFICES ASSUME IInv, Bounds, [Next]_vars PROVE Bounds'
    OBVIOUS
  <2>0. Base /\ Types
    BY DEF IInv, Base
  <2>1. /\ reported' \in [Devices -> 0..(MaxChanges + 1)] /\ changes' \in 1..(MaxChanges + 1)
        /\ bundles' \in 0..MaxBundles
    <3>1. ASSUME NEW d \in Devices, Change(d)
          PROVE  /\ reported' \in [Devices -> 0..(MaxChanges + 1)] /\ changes' \in 1..(MaxChanges + 1)
                 /\ bundles' = bundles
      <4>1. changes + 1 \in 1..(MaxChanges + 1) /\ 0 \in 0..(MaxChanges + 1)
        BY <3>1, SessionsAssumption DEF Bounds, Change
      <4>2. PICK k \in {0, changes + 1} : reported' = [reported EXCEPT ![d] = k]
        BY <3>1 DEF Change
      <4>3. k \in 0..(MaxChanges + 1)
        BY <4>1, <4>2
      <4> QED BY <3>1, <4>1, <4>2, <4>3 DEF Bounds, Change
    <3>2. ASSUME NEW s \in Sends, NEW d \in Devices, establishSession(s, d)
          PROVE  bundles' \in 0..MaxBundles /\ UNCHANGED <<reported, changes>>
      BY <3>2, SessionsAssumption DEF Bounds, establishSession
    <3> QED BY <3>1, <3>2, Frame DEF Bounds
  <2>2. ASSUME NEW t \in Sends, call'[t].pc = call[t].pc, call'[t].tries = call[t].tries
        PROVE  Attempts(t)'
    BY <2>2 DEF Bounds, Attempts
  <2>3. ASSUME NEW s \in Sends, FetchDevices(s)
        PROVE  \A t \in Sends : Attempts(t)'
    <3>1. /\ call'[s].pc = "fetched" /\ call'[s].tries = call[s].tries + 1
          /\ \A t \in Sends : t # s => call'[t] = call[t]
      BY <2>0, <2>3 DEF FetchDevices, Types, Call
    <3>2. call[s].tries \in 0..1
      BY <2>3 DEF FetchDevices, Bounds, Attempts
    <3>3. Attempts(s)'
      BY <3>1, <3>2 DEF Attempts
    <3> QED BY <2>2, <3>1, <3>3
  <2>4. ASSUME NEW s \in Sends, Trusted(s) \/ Refused(s) \/ Post(s) \/ Mismatch(s) \/ GiveUp(s)
        PROVE  \A t \in Sends : Attempts(t)'
    <3>1. \A t \in Sends : t # s => call'[t] = call[t]
      BY <2>0, <2>4 DEF Trusted, Refused, Post, Mismatch, GiveUp, Types
    <3>2. call'[s].tries = call[s].tries /\ call'[s].pc # "idle"
      <4>1. CASE Trusted(s)
        BY <2>0, <4>1 DEF Trusted, Types, Call
      <4>2. CASE Refused(s)
        BY <2>0, <4>2 DEF Refused, Types, Call
      <4>3. CASE Post(s) \/ Mismatch(s) \/ GiveUp(s)
        BY <2>0, <4>3 DEF Post, Mismatch, GiveUp, Types, Call
      <4> QED BY <2>4, <4>1, <4>2, <4>3
    <3>3. call'[s].pc = "retry" => call[s].tries = 1
      <4>1. CASE Trusted(s)
        BY <2>0, <4>1 DEF Trusted, Types, Call
      <4>2. CASE Refused(s)
        BY <2>0, <4>2 DEF Refused, Types, Call
      <4>3. CASE Post(s) \/ Mismatch(s) \/ GiveUp(s)
        BY <2>0, <4>3 DEF Post, Mismatch, GiveUp, Types, Call
      <4> QED BY <2>4, <4>1, <4>2, <4>3
    <3>4. Attempts(s)'
      BY <3>2, <3>3 DEF Bounds, Attempts
    <3> QED BY <2>2, <3>1, <3>4
  <2>5. ASSUME NEW s \in Sends, NEW d \in Devices, Task(s, d)
        PROVE  \A t \in Sends : Attempts(t)'
    <3>1. CASE Seal(s, d)
      BY <2>0, <2>2, <3>1 DEF Seal, Make, Types, Call
    <3>2. CASE ratchetEncryptStep(s, d)
      BY <2>0, <2>2, <3>2 DEF ratchetEncryptStep, Make, Types, Call
    <3>3. CASE HasSession(s, d) \/ AskBundle(s, d) \/ establishSession(s, d) \/ Fails(s, d)
      <4>1. PICK x \in {"step", "bundle", "failed"} : call' = [call EXCEPT ![s].task[d] = x]
        <5>1. HasSession(s, d) \/ establishSession(s, d) => call' = [call EXCEPT ![s].task[d] = "step"]
          BY DEF HasSession, establishSession
        <5>2. AskBundle(s, d) => call' = [call EXCEPT ![s].task[d] = "bundle"]
          BY DEF AskBundle
        <5>3. Fails(s, d) => call' = [call EXCEPT ![s].task[d] = "failed"]
          BY DEF Fails
        <5> QED BY <3>3, <5>1, <5>2, <5>3
      <4>2. \A t \in Sends : call'[t].pc = call[t].pc /\ call'[t].tries = call[t].tries
        BY <2>0, <4>1, TaskMoves
      <4> QED BY <2>2, <4>2
    <3> QED BY <2>5, <3>1, <3>2, <3>3 DEF Task
  <2>6. ASSUME UNCHANGED call
        PROVE  \A t \in Sends : Attempts(t)'
    BY <2>2, <2>6
  <2> QED BY <2>1, <2>3, <2>4, <2>5, <2>6 DEF Bounds, Next, Change, vars
<1>3. IInv /\ Bounds => TypeOK
  BY DEF IInv, Bounds, Attempts, Types, TypeOK
<1> QED BY <1>1, <1>2, <1>3, SpecIInv, PTL DEF Spec

\* Every sealed envelope that leaves is for a device and a key in the pinned set
\* (buildEnvelopes after checkDeviceSet), however sends and changes overlap.
THEOREM SealedForPinned == Spec => []SealedToPinned
<1>1. IInv => SealedToPinned
  BY DEF IInv, OutPinned, Out, SealedToPinned
<1> QED BY <1>1, SpecIInv, PTL

\* No step of a chain serves two messages, and the first one and no other
\* carries the header that completes to the sender's secret.
THEOREM KeysAreRight == Spec => []KeysLineUp
<1>1. IInv => KeysLineUp
  BY DEF IInv
<1> QED BY <1>1, SpecIInv, PTL

-----------------------------------------------------------------------------
(* The inbound pipeline *)

Copies == {"message_envelope", "device_envelope", "new_message"}
Replay == {"ephemeral_replay", "resume_complete"}
SocketEvent == [type : Copies \cup Replay, of : Nat]

\* An event on the wire is a copy of a message, or tells of recorded events.
OnWire(event) ==
  /\ event \in SocketEvent
  /\ event.type \in Copies => event.of \in Messages
  /\ event.type \in Replay => event.of <= recorded

WireTypes == wire \in Seq(SocketEvent) /\ \A i \in 1..Len(wire) : OnWire(wire[i])

InboundTypes ==
  /\ scene \in Scenes /\ stored \in 0..Len(kinds)
  /\ recorded \in Nat /\ resumeCursor \in 0..recorded
  /\ WireTypes
  /\ DOMAIN view = Messages
  /\ run \in [Messages -> {"idle", "keying", "opening", "cached"}]
  /\ \A answer \in answers : answer.rows \subseteq Messages
  /\ pendingCiphertext \subseteq Messages /\ arrived \subseteq Messages

\* What is due is where a connect found it, from the first envelope on: in the
\* tab, in an answer, or in the answer of a request that is still to be read.
OnItsWay(m) ==
  \/ m \in arrived
  \/ "connect" \in asks
  \/ \E answer \in answers : answer.by = "connect" /\ m \in answer.rows
DueInv ==
  /\ due \subseteq Deliverable
  /\ \A m \in due, n \in Deliverable : n < m => n \in due
  /\ Cardinality(due) <= Page => \A m \in due : OnItsWay(m)

\* Before an event that would move the cursor come the events it moves past.
Replayed(e, i) == e \in seen \/ \E j \in 1..i : wire[j] = Event("ephemeral_replay", e)
ReplayInv ==
  /\ 1..resumeCursor \subseteq seen
  /\ \A i \in 1..Len(wire) : wire[i].type \in Replay =>
       \A e \in 1..wire[i].of : Replayed(e, i)

InboundInv == InboundTypes /\ ArrivedIsRead /\ DueInv /\ ReplayInv

LEMMA SceneFacts ==
  ASSUME scene \in Scenes
  PROVE  Len(kinds) \in Nat /\ Messages = 1..Len(kinds) /\ scene \in Scene
BY InboundAssumption DEF kinds, Messages, Scene

LEMMA InboundInitInv == InboundInit => InboundInv
<1> SUFFICES ASSUME InboundInit PROVE InboundInv
  OBVIOUS
<1> USE DEF InboundInit
<1>1. InboundTypes
  BY SceneFacts DEF InboundTypes, WireTypes
<1>2. ArrivedIsRead
  BY DEF ArrivedIsRead
<1>3. DueInv
  BY DEF DueInv
<1>4. ReplayInv
  BY DEF ReplayInv
<1> QED BY <1>1, <1>2, <1>3, <1>4 DEF InboundInv

-----------------------------------------------------------------------------
\* The events after a step are those before it and some new ones.
LEMMA WireGrows ==
  ASSUME wire \in Seq(SocketEvent), NEW more \in Seq(SocketEvent), wire' = wire \o more
  PROVE  /\ wire' \in Seq(SocketEvent) /\ Len(wire') = Len(wire) + Len(more)
         /\ Len(wire) \in Nat /\ Len(more) \in Nat
         /\ \A i \in 1..Len(wire) : wire'[i] = wire[i]
         /\ \A k \in 1..Len(more) : wire'[Len(wire) + k] = more[k]
         /\ \A i \in 1..Len(wire') : i \notin 1..Len(wire) =>
              \E k \in 1..Len(more) : i = Len(wire) + k
<1>1. /\ wire' \in Seq(SocketEvent) /\ Len(wire') = Len(wire) + Len(more)
      /\ Len(wire) \in Nat /\ Len(more) \in Nat
  OBVIOUS
<1>2. \A i \in 1..Len(wire) : wire'[i] = wire[i]
  OBVIOUS
<1>3. \A k \in 1..Len(more) : wire'[Len(wire) + k] = more[k]
  OBVIOUS
<1>4. ASSUME NEW i \in 1..Len(wire'), i \notin 1..Len(wire)
      PROVE  \E k \in 1..Len(more) : i = Len(wire) + k
  <2>1. i - Len(wire) \in 1..Len(more) /\ i = Len(wire) + (i - Len(wire))
    BY <1>1, <1>4
  <2> QED BY <2>1
<1> QED BY <1>1, <1>2, <1>3, <1>4

\* Copies of messages change nothing about the replay.
LEMMA CopiesGrow ==
  ASSUME InboundTypes, ReplayInv, NEW more \in Seq(SocketEvent), wire' = wire \o more,
         \A k \in 1..Len(more) : more[k].type \in Copies /\ more[k].of \in Messages,
         UNCHANGED <<scene, recorded, resumeCursor, seen>>
  PROVE  WireTypes' /\ ReplayInv'
<1>a. wire \in Seq(SocketEvent)
  BY DEF InboundTypes, WireTypes
<1>1. /\ wire' \in Seq(SocketEvent) /\ Len(wire') = Len(wire) + Len(more)
      /\ Len(wire) \in Nat /\ Len(more) \in Nat
      /\ \A i \in 1..Len(wire) : wire'[i] = wire[i]
      /\ \A k \in 1..Len(more) : wire'[Len(wire) + k] = more[k]
      /\ \A i \in 1..Len(wire') : i \notin 1..Len(wire) =>
           \E k \in 1..Len(more) : i = Len(wire) + k
  BY <1>a, WireGrows
<1>2. ASSUME NEW i \in 1..Len(wire'), i \notin 1..Len(wire)
      PROVE  wire'[i] \in SocketEvent /\ wire'[i].type \in Copies /\ wire'[i].of \in Messages
  <2>1. PICK k \in 1..Len(more) : i = Len(wire) + k
    BY <1>1, <1>2
  <2>2. wire'[i] = more[k] /\ more[k] \in SocketEvent
    BY <1>1, <2>1
  <2> QED BY <2>2
<1>3. Copies \cap Replay = {}
  BY DEF Copies, Replay
<1>4. WireTypes'
  <2>1. ASSUME NEW i \in 1..Len(wire')
        PROVE  /\ wire'[i] \in SocketEvent
               /\ wire'[i].type \in Copies => wire'[i].of \in Messages
               /\ wire'[i].type \in Replay => wire'[i].of <= recorded
    <3>1. CASE i \in 1..Len(wire)
      BY <1>1, <3>1 DEF InboundTypes, WireTypes, OnWire
    <3>2. CASE i \notin 1..Len(wire)
      BY <1>2, <1>3, <3>2
    <3> QED BY <3>1, <3>2
  <2> QED BY <1>1, <2>1 DEF WireTypes, OnWire, Messages, kinds
<1>5. ASSUME NEW i \in 1..Len(wire'), wire'[i].type \in Replay, NEW e \in 1..wire'[i].of
      PROVE  e \in seen \/ \E j \in 1..i : wire'[j] = Event("ephemeral_replay", e)
  <2>1. i \in 1..Len(wire)
    BY <1>2, <1>3, <1>5
  <2>2. wire'[i] = wire[i] /\ \A j \in 1..i : j \in 1..Len(wire)
    BY <1>1, <2>1
  <2>3. Replayed(e, i)
    BY <1>5, <2>1, <2>2 DEF ReplayInv
  <2>4. \A j \in 1..i : wire'[j] = wire[j]
    BY <1>1, <2>2
  <2> QED BY <2>3, <2>4 DEF Replayed, Event
<1>6. ReplayInv'
  BY <1>5 DEF ReplayInv, Replayed, Event
<1> QED BY <1>4, <1>6
LEMMA EventFields ==
  ASSUME NEW type, NEW of
  PROVE  Event(type, of).type = type /\ Event(type, of).of = of
BY DEF Event

\* The answer to a resume holds every event after the cursor, in order.
LEMMA ReplayGrows ==
  ASSUME InboundTypes, ReplayInv, socket = "joined", Resume
  PROVE  WireTypes' /\ ReplayInv'
<1> DEFINE n == Cardinality(Missed)
           replay == [i \in 1..n |-> Event("ephemeral_replay", resumeCursor + i)]
           done == <<Event("resume_complete", recorded)>>
<1>1. n = recorded - resumeCursor /\ n \in Nat /\ resumeCursor + n = recorded
  <2>1. Missed = (resumeCursor + 1)..recorded /\ recorded \in Nat /\ resumeCursor \in 0..recorded
    BY DEF Missed, InboundTypes
  <2>2. resumeCursor + 1 \in Int /\ recorded \in Int
    BY <2>1
  <2>3. Cardinality(Missed) =
          IF resumeCursor + 1 > recorded THEN 0 ELSE recorded - (resumeCursor + 1) + 1
    BY <2>1, <2>2, FS_Interval
  <2> QED BY <2>1, <2>3
<1>2. resumeCursor \in Nat /\ recorded \in Nat /\ wire \in Seq(SocketEvent)
  BY DEF InboundTypes, WireTypes
<1>3. /\ \A i \in 1..n : Event("ephemeral_replay", resumeCursor + i) \in SocketEvent
      /\ Event("resume_complete", recorded) \in SocketEvent
  BY <1>1, <1>2 DEF Event, SocketEvent, Replay
<1>4. replay \in Seq(SocketEvent) /\ Len(replay) = n
  BY <1>1, <1>3
<1>5. PICK r : r = replay
  OBVIOUS
<1>6. /\ r \in Seq(SocketEvent) /\ Len(r) = n
      /\ \A i \in 1..n : r[i] = Event("ephemeral_replay", resumeCursor + i)
  BY <1>4, <1>5
<1>7. PICK more : more = r \o done
  OBVIOUS
<1>8. /\ more \in Seq(SocketEvent) /\ Len(more) = n + 1
      /\ \A i \in 1..n : more[i] = Event("ephemeral_replay", resumeCursor + i)
      /\ more[n + 1] = Event("resume_complete", recorded)
  BY <1>1, <1>3, <1>6, <1>7
<1>9. wire' = wire \o more
  <2>1. wire' = (wire \o r) \o done
    BY <1>5 DEF Resume
  <2> QED BY <1>2, <1>3, <1>6, <1>7, <2>1
<1>10. /\ wire' \in Seq(SocketEvent) /\ Len(wire') = Len(wire) + Len(more)
       /\ Len(wire) \in Nat /\ Len(more) \in Nat
       /\ \A i \in 1..Len(wire) : wire'[i] = wire[i]
       /\ \A k \in 1..Len(more) : wire'[Len(wire) + k] = more[k]
       /\ \A i \in 1..Len(wire') : i \notin 1..Len(wire) =>
            \E k \in 1..Len(more) : i = Len(wire) + k
  BY <1>2, <1>8, <1>9, WireGrows
<1>11. /\ \A k \in 1..(n + 1) : more[k].type \in Replay /\ more[k].of \in resumeCursor..recorded
       /\ \A k \in 1..n : more[k].of = resumeCursor + k
  <2>1. ASSUME NEW k \in 1..n
        PROVE  /\ more[k].type \in Replay /\ more[k].of = resumeCursor + k
               /\ more[k].of \in resumeCursor..recorded
    <3>1. more[k].type \in Replay /\ more[k].of = resumeCursor + k
      <4>1. more[k] = Event("ephemeral_replay", resumeCursor + k)
        BY <1>8
      <4>2. more[k].type = "ephemeral_replay" /\ more[k].of = resumeCursor + k
        BY <4>1, EventFields
      <4> QED BY <4>2 DEF Replay
    <3>2. k \in Nat /\ k <= n
      BY <1>1
    <3> QED BY <1>1, <1>2, <3>1, <3>2
  <2>2. more[n + 1].type \in Replay /\ more[n + 1].of \in resumeCursor..recorded
    <3>1. more[n + 1].type \in Replay /\ more[n + 1].of = recorded
      BY <1>8 DEF Event, Replay
    <3> QED BY <1>1, <1>2, <3>1
  <2>3. \A k \in 1..(n + 1) : k \in 1..n \/ k = n + 1
    BY <1>1
  <2> QED BY <2>1, <2>2, <2>3
<1>12. Copies \cap Replay = {}
  BY DEF Copies, Replay
<1>13. UNCHANGED <<scene, recorded, resumeCursor, seen>>
  BY DEF Resume, server, tab, history
<1>14. WireTypes'
  <2>1. ASSUME NEW i \in 1..Len(wire')
        PROVE  /\ wire'[i] \in SocketEvent
               /\ wire'[i].type \in Copies => wire'[i].of \in Messages
               /\ wire'[i].type \in Replay => wire'[i].of <= recorded
    <3>1. CASE i \in 1..Len(wire)
      BY <1>10, <3>1 DEF InboundTypes, WireTypes, OnWire
    <3>2. CASE i \notin 1..Len(wire)
      <4>1. PICK k \in 1..(n + 1) : i = Len(wire) + k
        BY <1>8, <1>10, <3>2
      <4>2. wire'[i] = more[k] /\ more[k] \in SocketEvent /\ more[k].type \in Replay
            /\ more[k].of <= recorded
        <5>1. wire'[i] = more[k] /\ more[k] \in SocketEvent
          BY <1>1, <1>8, <1>10, <4>1
        <5>2. more[k].type \in Replay /\ more[k].of <= recorded
          BY <1>2, <1>11
        <5> QED BY <5>1, <5>2
      <4> QED BY <1>12, <4>2
    <3> QED BY <3>1, <3>2
  <2> QED BY <1>10, <1>13, <2>1 DEF WireTypes, OnWire, Messages, kinds
<1>15. ASSUME NEW i \in 1..Len(wire'), wire'[i].type \in Replay, NEW e \in 1..wire'[i].of
       PROVE  e \in seen \/ \E j \in 1..i : wire'[j] = Event("ephemeral_replay", e)
  <2>1. CASE i \in 1..Len(wire)
    <3>1. wire'[i] = wire[i] /\ \A j \in 1..i : j \in 1..Len(wire)
      BY <1>10, <2>1
    <3>2. Replayed(e, i)
      BY <1>15, <2>1, <3>1 DEF ReplayInv
    <3>3. \A j \in 1..i : wire'[j] = wire[j]
      BY <1>10, <3>1
    <3> QED BY <3>2, <3>3 DEF Replayed
  <2>2. CASE i \notin 1..Len(wire)
    <3>1. PICK k \in 1..(n + 1) : i = Len(wire) + k
      BY <1>8, <1>10, <2>2
    <3>2. wire'[i] = more[k]
      BY <1>8, <1>10, <3>1
    <3>3. CASE e <= resumeCursor
      BY <1>2, <1>15, <3>3 DEF ReplayInv
    <3>4. CASE e > resumeCursor
      <4>0. e \in Nat /\ e <= wire'[i].of
        <5>1. wire'[i].of \in Int
          BY <1>2, <1>11, <3>2
        <5> QED BY <1>15, <5>1
      <4>1. /\ e - resumeCursor \in 1..n /\ e - resumeCursor <= k
            /\ resumeCursor + (e - resumeCursor) = e
        <5>1. CASE k = n + 1
          BY <1>1, <1>2, <1>11, <3>2, <3>4, <4>0, <5>1
        <5>2. CASE k # n + 1
          <6>1. k \in 1..n /\ e <= resumeCursor + k
            BY <1>1, <1>11, <3>2, <4>0, <5>2
          <6> QED BY <1>1, <1>2, <3>4, <4>0, <6>1
        <5> QED BY <5>1, <5>2
      <4>2. PICK j : j = Len(wire) + (e - resumeCursor)
        OBVIOUS
      <4>3. j \in 1..i
        BY <1>1, <1>2, <1>10, <3>1, <4>0, <4>1, <4>2
      <4>4. wire'[j] = Event("ephemeral_replay", e)
        BY <1>1, <1>8, <1>10, <4>1, <4>2
      <4> QED BY <4>3, <4>4
    <3>5. e \in Int
      OBVIOUS
    <3> QED BY <1>2, <3>3, <3>4, <3>5
  <2> QED BY <2>1, <2>2
<1>16. 1..resumeCursor' \subseteq seen'
  BY <1>13 DEF ReplayInv
<1>17. ReplayInv'
  BY <1>13, <1>15, <1>16 DEF ReplayInv, Replayed, Event
<1> QED BY <1>14, <1>17
-----------------------------------------------------------------------------
\* What a step keeps of the types, the wire apart.
TabTypes ==
  /\ scene \in Scenes /\ stored \in 0..Len(kinds)
  /\ recorded \in Nat /\ resumeCursor \in 0..recorded
  /\ DOMAIN view = Messages
  /\ run \in [Messages -> {"idle", "keying", "opening", "cached"}]
  /\ \A answer \in answers : answer.rows \subseteq Messages
  /\ pendingCiphertext \subseteq Messages /\ arrived \subseteq Messages

LEMMA TypesSplit == InboundTypes <=> TabTypes /\ WireTypes
BY DEF InboundTypes, TabTypes

LEMMA StartedType ==
  ASSUME InboundTypes, NEW ms
  PROVE  Started(ms) \in [Messages -> {"idle", "keying", "opening", "cached"}]
BY DEF InboundTypes, Started

LEMMA IngestMetaType ==
  ASSUME InboundTypes, scene' = scene, NEW rows \in SUBSET Messages,
         NEW handled \in SUBSET Messages, IngestMeta(rows, handled)
  PROVE  /\ DOMAIN view' = Messages
         /\ run' \in [Messages -> {"idle", "keying", "opening", "cached"}]
         /\ pendingCiphertext' \subseteq Messages /\ arrived' \subseteq Messages
<1>1. run' \in [Messages -> {"idle", "keying", "opening", "cached"}]
  BY StartedType DEF IngestMeta
<1> QED BY <1>1 DEF IngestMeta, InboundTypes

\* The event a tab takes, and what stays behind it.
LEMMA HeadOfWire ==
  ASSUME InboundTypes, wire # <<>>
  PROVE  /\ Head(wire) = wire[1] /\ 1 \in 1..Len(wire) /\ OnWire(wire[1])
         /\ Tail(wire) \in Seq(SocketEvent)
         /\ Len(Tail(wire)) = Len(wire) - 1 /\ Len(wire) \in Nat
         /\ \A i \in 1..Len(Tail(wire)) : Tail(wire)[i] = wire[i + 1] /\ i + 1 \in 1..Len(wire)
<1>1. wire \in Seq(SocketEvent)
  BY DEF InboundTypes, WireTypes
<1>2. Len(wire) \in Nat /\ Len(wire) > 0
  BY <1>1
<1> QED BY <1>1, <1>2 DEF InboundTypes, WireTypes

\* A received event is of one of the five types.
LEMMA ReceiveSplit ==
  ASSUME InboundTypes, Receive
  PROVE  \/ /\ wire[1].type = "message_envelope"
            /\ run' = Started({wire[1].of})
            /\ arrived' = arrived \cup {wire[1].of}
            /\ UNCHANGED <<view, pendingMeta, pendingCiphertext, asks, resumeCursor, seen>>
         \/ /\ wire[1].type = "device_envelope"
            /\ IngestCiphertext(wire[1].of)
            /\ UNCHANGED <<asks, resumeCursor, seen>>
         \/ /\ wire[1].type = "new_message"
            /\ IngestMeta({wire[1].of}, {})
            /\ UNCHANGED <<asks, resumeCursor, seen>>
         \/ /\ wire[1].type = "ephemeral_replay"
            /\ resumeCursor' = wire[1].of
            /\ seen' = seen \cup {wire[1].of}
            /\ NothingIngested /\ UNCHANGED asks
         \/ /\ wire[1].type = "resume_complete"
            /\ resumeCursor' = IF wire[1].of > 0 THEN wire[1].of ELSE resumeCursor
            /\ asks' = asks \cup {"resumed"}
            /\ NothingIngested /\ UNCHANGED seen
<1>1. wire # <<>> /\ Head(wire) = wire[1] /\ wire[1].type \in Copies \cup Replay
  BY HeadOfWire DEF Receive, OnWire, SocketEvent
<1>2. PICK event : event = wire[1]
  OBVIOUS
<1>3. \/ event.type = "message_envelope" \/ event.type = "device_envelope"
      \/ event.type = "new_message" \/ event.type = "ephemeral_replay"
      \/ event.type = "resume_complete"
  BY <1>1, <1>2 DEF Copies, Replay
<1> QED BY <1>1, <1>2, <1>3 DEF Receive

LEMMA TabStep ==
  ASSUME InboundTypes, InboundNext
  PROVE  TabTypes'
<1>0. scene' = scene /\ kinds' = kinds /\ Messages' = Messages
  BY DEF InboundNext, Insert, Record, Join, Resume, Receive, Load, Connect, Drop, KeyChange,
         Relink, Reload, Deliver, FetchSenderDevicePublicKey, FetchFails, Open, OpenCached,
         Answer, SyncFails, Take, Settle, server, kinds, Messages
<1> USE DEF TabTypes, server, link, tab, bounds, history
<1>1. CASE Insert \/ Join \/ Resume \/ Connect \/ Drop \/ KeyChange \/ Relink
  BY <1>0, <1>1, SceneFacts DEF Insert, Join, Resume, Connect, Drop, KeyChange, Relink,
     InboundTypes
<1>2. CASE Record
  BY <1>0, <1>2 DEF Record, InboundTypes
<1>3. CASE Reload
  BY <1>0, <1>3 DEF Reload, InboundTypes
<1>4. CASE Load
  BY <1>0, <1>4 DEF Load, InboundTypes, NothingIngested
<1>5. CASE Receive
  <2>1. UNCHANGED <<server, answers>> /\ wire # <<>>
    BY <1>5 DEF Receive
  <2>2. OnWire(wire[1])
    BY <2>1, HeadOfWire
  <2>3. CASE wire[1].type \in Copies
    <3>1. wire[1].of \in Messages
      BY <2>2, <2>3 DEF OnWire
    <3>2. resumeCursor' = resumeCursor
      BY <1>5, <2>3, ReceiveSplit DEF Copies
    <3>3. CASE wire[1].type = "message_envelope"
      BY <1>0, <1>5, <2>1, <3>1, <3>2, <3>3, ReceiveSplit, StartedType DEF InboundTypes
    <3>4. CASE wire[1].type = "device_envelope"
      BY <1>0, <1>5, <2>1, <3>1, <3>2, <3>4, ReceiveSplit, StartedType
      DEF InboundTypes, IngestCiphertext
    <3>5. CASE wire[1].type = "new_message"
      <4>1. IngestMeta({wire[1].of}, {})
        BY <1>5, <3>5, ReceiveSplit
      <4> QED BY <1>0, <2>1, <3>1, <3>2, <4>1, IngestMetaType DEF InboundTypes
    <3> QED BY <2>3, <3>3, <3>4, <3>5 DEF Copies
  <2>4. CASE wire[1].type \in Replay
    <3>1. wire[1].of \in 0..recorded
      BY <2>2, <2>4 DEF OnWire, SocketEvent, InboundTypes
    <3>2. resumeCursor' \in 0..recorded /\ NothingIngested
      BY <1>5, <2>4, <3>1, ReceiveSplit DEF Replay, InboundTypes
    <3> QED BY <1>0, <2>1, <3>2 DEF InboundTypes, NothingIngested
  <2> QED BY <2>2, <2>3, <2>4 DEF OnWire, SocketEvent
<1>6. CASE \E m \in Messages : Deliver(m) \/ FetchSenderDevicePublicKey(m) \/ OpenCached(m)
  BY <1>0, <1>6 DEF Deliver, FetchSenderDevicePublicKey, OpenCached, Settle, InboundTypes
<1>7. CASE \E m \in Messages : FetchFails(m) \/ Open(m)
  <2>1. PICK m \in Messages : \E status : Settle(m, status)
    BY <1>7 DEF FetchFails, Open
  <2>2. PICK status : Settle(m, status)
    BY <2>1
  <2> QED BY <1>0, <2>2 DEF Settle, InboundTypes
<1>8. ASSUME NEW by \in {"page", "list", "connect", "resumed"}, Answer(by)
      PROVE  TabTypes'
  <2>1. FirstPage(Deliverable) \subseteq Messages
    BY SceneFacts DEF FirstPage, Deliverable, Stored, Messages, InboundTypes
  <2>2. \A answer \in answers' : answer \in answers \/ answer.rows = FirstPage(Deliverable)
    BY <1>8 DEF Answer
  <2>3. \A answer \in answers' : answer.rows \subseteq Messages
    BY <2>1, <2>2 DEF InboundTypes
  <2> QED BY <1>0, <1>8, <2>3 DEF Answer, InboundTypes
<1>9. CASE \E by \in {"page", "list", "connect", "resumed"} : SyncFails(by)
  BY <1>0, <1>9 DEF SyncFails, InboundTypes
<1>10. ASSUME NEW answer \in answers, Take(answer)
       PROVE  TabTypes'
  <2>1. answer.rows \subseteq Messages
    BY DEF InboundTypes
  <2>2. CASE answer.by = "page"
    BY <1>0, <1>10, <2>1, <2>2, StartedType DEF Take, InboundTypes
  <2>3. CASE answer.by # "page"
    <3>1. IngestMeta(answer.rows, answer.rows)
      BY <1>10, <2>3 DEF Take
    <3> QED BY <1>0, <1>10, <2>1, <3>1, IngestMetaType DEF Take, InboundTypes
  <2> QED BY <2>2, <2>3
<1> QED BY <1>1, <1>2, <1>3, <1>4, <1>5, <1>6, <1>7, <1>8, <1>9, <1>10 DEF InboundNext
-----------------------------------------------------------------------------
\* The replay: what moves the wire keeps its events in order.
LEMMA WireStays ==
  ASSUME InboundTypes, ReplayInv, UNCHANGED <<wire, scene, resumeCursor, seen>>,
         recorded' \in Nat, recorded <= recorded'
  PROVE  WireTypes' /\ ReplayInv'
<1>1. WireTypes'
  <2>1. ASSUME NEW i \in 1..Len(wire)
        PROVE  /\ wire[i] \in SocketEvent
               /\ wire[i].type \in Copies => wire[i].of \in Messages
               /\ wire[i].type \in Replay => wire[i].of <= recorded'
    <3>1. OnWire(wire[i]) /\ wire[i].of \in Nat /\ recorded \in Nat
      BY DEF InboundTypes, WireTypes, OnWire, SocketEvent
    <3> QED BY <3>1 DEF OnWire
  <2> QED BY <2>1 DEF InboundTypes, WireTypes, OnWire, Messages, kinds
<1>2. ReplayInv'
  BY DEF ReplayInv, Replayed, Event
<1> QED BY <1>1, <1>2

LEMMA WireIsGone ==
  ASSUME InboundTypes, ReplayInv, wire' = <<>>, UNCHANGED <<resumeCursor, seen>>
  PROVE  WireTypes' /\ ReplayInv'
BY DEF WireTypes, ReplayInv

\* The tab takes the first event: what it replays has been replayed.
LEMMA ReceiveKeeps ==
  ASSUME InboundTypes, ReplayInv, Receive
  PROVE  WireTypes' /\ ReplayInv'
<1>1. wire # <<>> /\ wire' = Tail(wire) /\ UNCHANGED <<scene, recorded>>
  BY DEF Receive, server
<1>2. /\ 1 \in 1..Len(wire) /\ OnWire(wire[1]) /\ Len(wire) \in Nat
      /\ wire' \in Seq(SocketEvent) /\ Len(wire') = Len(wire) - 1
      /\ \A i \in 1..Len(wire') : wire'[i] = wire[i + 1] /\ i + 1 \in 1..Len(wire)
  BY <1>1, HeadOfWire
<1>3. WireTypes'
  <2>1. ASSUME NEW i \in 1..Len(wire')
        PROVE  /\ wire'[i] \in SocketEvent
               /\ wire'[i].type \in Copies => wire'[i].of \in Messages
               /\ wire'[i].type \in Replay => wire'[i].of <= recorded
    BY <1>2 DEF InboundTypes, WireTypes, OnWire
  <2> QED BY <1>1, <1>2, <2>1 DEF WireTypes, OnWire, Messages, kinds
<1>4. wire[1].of \in Nat
  BY <1>2 DEF OnWire, SocketEvent
<1>5. \/ wire[1].type \notin {"ephemeral_replay", "resume_complete"} /\ UNCHANGED <<resumeCursor, seen>>
      \/ /\ wire[1].type = "ephemeral_replay"
         /\ resumeCursor' = wire[1].of /\ seen' = seen \cup {wire[1].of}
      \/ /\ wire[1].type = "resume_complete" /\ seen' = seen
         /\ resumeCursor' = IF wire[1].of > 0 THEN wire[1].of ELSE resumeCursor
  BY ReceiveSplit
\* The events up to the first one of the wire, if that one is of the replay.
<1>6. ASSUME wire[1].type \in Replay, NEW e \in 1..wire[1].of
      PROVE  e \in seen \/ wire[1] = Event("ephemeral_replay", e)
  BY <1>2, <1>6 DEF ReplayInv, Replayed
<1>7. seen \subseteq seen'
  BY <1>5
<1>8. wire[1].type = "ephemeral_replay" => wire[1].of \in seen'
  BY <1>5
<1>9. 1..resumeCursor' \subseteq seen'
  <2>1. CASE wire[1].type \notin Replay
    BY <1>5, <2>1 DEF Replay, ReplayInv
  <2>2. CASE wire[1].type \in Replay
    <3>1. \A e \in 1..wire[1].of : e \in seen'
      <4>1. ASSUME NEW e \in 1..wire[1].of, wire[1] = Event("ephemeral_replay", e)
            PROVE  e \in seen'
        BY <1>8, <4>1, EventFields
      <4> QED BY <1>6, <1>7, <2>2, <4>1
    <3>2. resumeCursor' = wire[1].of \/ resumeCursor' = resumeCursor
      BY <1>5
    <3> QED BY <1>7, <3>1, <3>2 DEF ReplayInv
  <2> QED BY <2>1, <2>2
<1>10. ASSUME NEW i \in 1..Len(wire'), wire'[i].type \in Replay, NEW e \in 1..wire'[i].of
       PROVE  e \in seen' \/ \E j \in 1..i : wire'[j] = Event("ephemeral_replay", e)
  <2>1. wire'[i] = wire[i + 1] /\ i + 1 \in 1..Len(wire)
    BY <1>2
  <2>2. Replayed(e, i + 1)
    BY <1>10, <2>1 DEF ReplayInv
  <2>3. ASSUME NEW j \in 1..(i + 1), wire[j] = Event("ephemeral_replay", e)
        PROVE  e \in seen' \/ \E k \in 1..i : wire'[k] = Event("ephemeral_replay", e)
    <3>1. CASE j = 1
      BY <1>8, <2>3, <3>1, EventFields
    <3>2. CASE j # 1
      <4>1. j - 1 \in 1..i /\ j - 1 \in 1..Len(wire') /\ j = (j - 1) + 1
        BY <1>2, <2>1, <3>2
      <4>2. wire'[j - 1] = wire[j]
        BY <1>2, <4>1
      <4> QED BY <2>3, <4>1, <4>2
    <3> QED BY <3>1, <3>2
  <2> QED BY <1>7, <2>2, <2>3 DEF Replayed
<1> QED BY <1>3, <1>9, <1>10 DEF ReplayInv, Replayed, Event

\* A delivery puts its copies at the end.
LEMMA DeliverKeeps ==
  ASSUME InboundTypes, ReplayInv, NEW m \in Messages, Deliver(m)
  PROVE  WireTypes' /\ ReplayInv'
<1>1. UNCHANGED <<scene, recorded, resumeCursor, seen>>
  BY DEF Deliver, history
<1>2. PICK row : row = Event("new_message", m)
  OBVIOUS
<1>3. PICK letter : letter = Event(IF kinds[m] = "relayed" THEN "device_envelope"
                                   ELSE "message_envelope", m)
  OBVIOUS
<1>4. \/ wire' = wire \/ wire' = Append(wire, row)
      \/ wire' = wire \o <<letter, row>> \/ wire' = wire \o <<row, letter>>
  BY <1>2, <1>3 DEF Deliver
<1>5. m \in Nat
  BY SceneFacts DEF InboundTypes
<1>6. \A x \in {row, letter} : x \in SocketEvent /\ x.type \in Copies /\ x.of \in Messages
  BY <1>2, <1>3, <1>5, EventFields DEF Event, SocketEvent, Copies
<1>7. CASE wire' = wire
  BY <1>1, <1>7, WireStays DEF InboundTypes
<1>8. ASSUME NEW more \in Seq({row, letter}), wire' = wire \o more
      PROVE  WireTypes' /\ ReplayInv'
  <2>1. more \in Seq(SocketEvent) /\ \A k \in 1..Len(more) : more[k] \in {row, letter}
    BY <1>6
  <2> QED BY <1>1, <1>6, <1>8, <2>1, CopiesGrow
<1>9. CASE wire' = Append(wire, row)
  <2>1. wire' = wire \o <<row>> /\ <<row>> \in Seq({row, letter})
    BY <1>9 DEF InboundTypes, WireTypes
  <2> QED BY <1>8, <2>1
<1>10. CASE wire' = wire \o <<letter, row>>
  <2>1. <<letter, row>> \in Seq({row, letter})
    OBVIOUS
  <2> QED BY <1>8, <1>10, <2>1
<1>11. CASE wire' = wire \o <<row, letter>>
  <2>1. <<row, letter>> \in Seq({row, letter})
    OBVIOUS
  <2> QED BY <1>8, <1>11, <2>1
<1> QED BY <1>4, <1>7, <1>9, <1>10, <1>11

LEMMA WireStep ==
  ASSUME InboundTypes, ReplayInv, InboundNext
  PROVE  WireTypes' /\ ReplayInv'
<1>0. recorded \in Nat
  BY DEF InboundTypes
<1> USE DEF server, link, tab, bounds, history
<1>1. CASE UNCHANGED <<wire, scene, recorded, resumeCursor, seen>>
  BY <1>0, <1>1, WireStays
<1>2. CASE Insert \/ Join \/ Load \/ Connect \/ KeyChange \/ Relink
  BY <1>1, <1>2 DEF Insert, Join, Load, Connect, KeyChange, Relink
<1>3. CASE Record
  <2>1. UNCHANGED <<wire, scene, resumeCursor, seen>> /\ recorded' = recorded + 1
    BY <1>3 DEF Record
  <2> QED BY <1>0, <2>1, WireStays
<1>4. CASE Drop \/ Reload
  BY <1>4, WireIsGone DEF Drop, Reload
<1>5. CASE Resume
  <2>1. CASE socket = "joined"
    BY <1>5, <2>1, ReplayGrows
  <2>2. CASE socket # "joined"
    BY <1>1, <1>5, <2>2 DEF Resume
  <2> QED BY <2>1, <2>2
<1>6. CASE Receive
  BY <1>6, ReceiveKeeps
<1>7. CASE \E m \in Messages : Deliver(m)
  BY <1>7, DeliverKeeps
<1>8. CASE \E m \in Messages : FetchSenderDevicePublicKey(m) \/ FetchFails(m) \/ Open(m) \/ OpenCached(m)
  BY <1>1, <1>8 DEF FetchSenderDevicePublicKey, FetchFails, Open, OpenCached, Settle
<1>9. CASE \E by \in {"page", "list", "connect", "resumed"} : Answer(by) \/ SyncFails(by)
  BY <1>1, <1>9 DEF Answer, SyncFails
<1>10. CASE \E answer \in answers : Take(answer)
  BY <1>1, <1>10 DEF Take
<1> QED BY <1>2, <1>3, <1>4, <1>5, <1>6, <1>7, <1>8, <1>9, <1>10 DEF InboundNext
-----------------------------------------------------------------------------
\* A copy of a message that comes in starts a run, or finds one.
LEMMA StartsARun ==
  ASSUME InboundTypes, NEW ms, NEW m \in Messages
  PROVE  m \in ms \/ run[m] # "idle" => Started(ms)[m] # "idle"
BY DEF InboundTypes, Started

LEMMA ComesIn ==
  ASSUME InboundTypes, ArrivedIsRead, NEW ms \in SUBSET Messages,
         run' = Started(ms), arrived' \subseteq arrived \cup ms, failed' = failed,
         \A m \in Messages : view[m] = "decrypted" => view'[m] = "decrypted"
  PROVE  ArrivedIsRead'
<1> SUFFICES ASSUME NEW m \in arrived'
             PROVE  run'[m] # "idle" \/ view'[m] = "decrypted" \/ m \in failed'
  BY DEF ArrivedIsRead
<1>1. m \in Messages
  BY DEF InboundTypes
<1>2. CASE m \in ms
  BY <1>1, <1>2, StartsARun
<1>3. CASE m \in arrived
  BY <1>1, <1>3, StartsARun DEF ArrivedIsRead
<1> QED BY <1>2, <1>3

LEMMA IngestMetaComesIn ==
  ASSUME InboundTypes, ArrivedIsRead, NEW rows \in SUBSET Messages,
         NEW handled \in SUBSET Messages, IngestMeta(rows, handled), failed' = failed
  PROVE  ArrivedIsRead'
<1> DEFINE whole == rows \cap pendingCiphertext
<1>1. /\ run' = Started(handled \cup whole) /\ arrived' = arrived \cup handled \cup whole
      /\ \A m \in Messages : view[m] = "decrypted" => view'[m] = "decrypted"
  BY DEF IngestMeta, Merged
<1>2. handled \cup whole \subseteq Messages
  OBVIOUS
<1> QED BY <1>1, <1>2, ComesIn

\* A run ends with its message shown, or its failure kept.
LEMMA RunEnds ==
  ASSUME InboundTypes, ArrivedIsRead, NEW m \in Messages, NEW status, Settle(m, status),
         \/ status = "decrypted" /\ failed \subseteq failed' \cup {m}
         \/ failed' = failed \cup {m}
  PROVE  ArrivedIsRead'
<1> SUFFICES ASSUME NEW k \in arrived'
             PROVE  run'[k] # "idle" \/ view'[k] = "decrypted" \/ k \in failed'
  BY DEF ArrivedIsRead
<1>1. k \in Messages /\ k \in arrived
  BY DEF InboundTypes, Settle
<1>2. CASE k = m
  BY <1>1, <1>2 DEF Settle, Merged, InboundTypes
<1>3. CASE k # m
  <2>1. run'[k] = run[k] /\ view'[k] = view[k]
    BY <1>1, <1>3 DEF Settle, InboundTypes
  <2> QED BY <1>1, <1>3, <2>1 DEF ArrivedIsRead
<1> QED BY <1>2, <1>3

LEMMA ArrivedStep ==
  ASSUME InboundTypes, ArrivedIsRead, InboundNext
  PROVE  ArrivedIsRead'
<1> USE DEF tab, history, bounds
<1>1. CASE UNCHANGED <<arrived, run, view, failed>>
  BY <1>1 DEF ArrivedIsRead
<1>2. CASE Insert \/ Record \/ Join \/ Resume \/ Connect \/ Drop \/ KeyChange \/ Relink
  BY <1>1, <1>2 DEF Insert, Record, Join, Resume, Connect, Drop, KeyChange, Relink
<1>3. CASE Load
  BY <1>1, <1>3 DEF Load, NothingIngested
<1>4. CASE Reload
  BY <1>4 DEF Reload, ArrivedIsRead
<1>5. CASE Receive
  <2>1. failed' = failed /\ wire # <<>>
    BY <1>5 DEF Receive
  <2>2. OnWire(wire[1])
    BY <2>1, HeadOfWire
  <2>3. CASE wire[1].type \in Copies
    <3>1. {wire[1].of} \subseteq Messages
      BY <2>2, <2>3 DEF OnWire
    <3>2. CASE wire[1].type = "message_envelope"
      <4>1. run' = Started({wire[1].of}) /\ arrived' = arrived \cup {wire[1].of} /\ view' = view
        BY <1>5, <3>2, ReceiveSplit
      <4> QED BY <2>1, <3>1, <4>1, ComesIn
    <3>3. CASE wire[1].type = "device_envelope"
      <4>1. IngestCiphertext(wire[1].of)
        BY <1>5, <3>3, ReceiveSplit
      <4>2. CASE wire[1].of \in pendingMeta
        BY <2>1, <3>1, <4>1, <4>2, ComesIn DEF IngestCiphertext
      <4>3. CASE wire[1].of \notin pendingMeta
        BY <1>1, <2>1, <4>1, <4>3 DEF IngestCiphertext
      <4> QED BY <4>2, <4>3
    <3>4. CASE wire[1].type = "new_message"
      <4>1. IngestMeta({wire[1].of}, {})
        BY <1>5, <3>4, ReceiveSplit
      <4> QED BY <2>1, <3>1, <4>1, IngestMetaComesIn
    <3> QED BY <2>3, <3>2, <3>3, <3>4 DEF Copies
  <2>4. CASE wire[1].type \in Replay
    BY <1>1, <1>5, <2>1, <2>4, ReceiveSplit DEF Replay, NothingIngested
  <2> QED BY <2>2, <2>3, <2>4 DEF OnWire, SocketEvent
<1>6. CASE \E m \in Messages : Deliver(m)
  BY <1>1, <1>6 DEF Deliver
<1>7. ASSUME NEW m \in Messages, FetchSenderDevicePublicKey(m)
      PROVE  ArrivedIsRead'
  <2>1. \A k \in Messages : run[k] # "idle" => run'[k] # "idle"
    BY <1>7 DEF FetchSenderDevicePublicKey, InboundTypes
  <2>2. UNCHANGED <<arrived, view, failed>>
    BY <1>7 DEF FetchSenderDevicePublicKey
  <2> QED BY <2>1, <2>2 DEF ArrivedIsRead, InboundTypes
<1>8. ASSUME NEW m \in Messages, FetchFails(m) \/ Open(m) \/ OpenCached(m)
      PROVE  ArrivedIsRead'
  <2>1. CASE FetchFails(m)
    BY <2>1, RunEnds DEF FetchFails
  <2>2. CASE Open(m)
    <3>1. CASE linked /\ kinds[m] # "broken"
      <4>1. Settle(m, "decrypted") /\ failed \subseteq failed' \cup {m}
        BY <2>2, <3>1 DEF Open
      <4> QED BY <4>1, RunEnds
    <3>2. CASE ~(linked /\ kinds[m] # "broken")
      BY <2>2, <3>2, RunEnds DEF Open
    <3> QED BY <3>1, <3>2
  <2>3. CASE OpenCached(m)
    <3>1. Settle(m, "decrypted") /\ failed \subseteq failed' \cup {m}
      BY <2>3 DEF OpenCached
    <3> QED BY <3>1, RunEnds
  <2> QED BY <1>8, <2>1, <2>2, <2>3
<1>9. CASE \E by \in {"page", "list", "connect", "resumed"} : Answer(by) \/ SyncFails(by)
  BY <1>1, <1>9 DEF Answer, SyncFails
<1>10. ASSUME NEW answer \in answers, Take(answer)
       PROVE  ArrivedIsRead'
  <2>1. answer.rows \subseteq Messages /\ failed' = failed
    BY <1>10 DEF InboundTypes, Take
  <2>2. CASE answer.by = "page"
    BY <1>10, <2>1, <2>2, ComesIn DEF Take
  <2>3. CASE answer.by # "page"
    <3>1. IngestMeta(answer.rows, answer.rows)
      BY <1>10, <2>3 DEF Take
    <3> QED BY <2>1, <3>1, IngestMetaComesIn
  <2> QED BY <2>2, <2>3
<1> QED BY <1>2, <1>3, <1>4, <1>5, <1>6, <1>7, <1>8, <1>9, <1>10 DEF InboundNext

-----------------------------------------------------------------------------
\* Where nothing of a connect's sync changes.
LEMMA DueStays ==
  ASSUME InboundTypes, DueInv, UNCHANGED <<scene, due>>, stored' \in Nat, stored <= stored',
         arrived \subseteq arrived', "connect" \in asks => "connect" \in asks',
         \A answer \in answers : answer.by = "connect" =>
           answer \in answers' \/ answer.rows \subseteq arrived'
  PROVE  DueInv'
<1>1. \A n \in Deliverable : n \in Deliverable'
  BY DEF Deliverable, Stored, Sealed, kinds, InboundTypes
<1>2. \A m \in due, n \in Deliverable' : n < m => n \in Deliverable
  BY SceneFacts DEF DueInv, Deliverable, Stored, Sealed, kinds, InboundTypes
<1>3. \A m : OnItsWay(m) => OnItsWay(m)'
  BY DEF OnItsWay
<1>4. due' \subseteq Deliverable'
  BY <1>1 DEF DueInv
<1>5. \A m \in due', n \in Deliverable' : n < m => n \in due'
  BY <1>2 DEF DueInv
<1>6. Cardinality(due') <= Page => \A m \in due' : OnItsWay(m)'
  BY <1>3 DEF DueInv
<1> QED BY <1>4, <1>5, <1>6 DEF DueInv

\* The first page of a sync has all that is due, when that fits a page.
LEMMA DueFitsPage ==
  ASSUME InboundTypes, DueInv, Cardinality(due) <= Page
  PROVE  due \subseteq FirstPage(Deliverable)
<1> SUFFICES ASSUME NEW m \in due PROVE m \in FirstPage(Deliverable)
  OBVIOUS
<1>1. Deliverable \subseteq 1..stored /\ stored \in Nat /\ m \in Deliverable /\ Page \in Nat
  BY SceneFacts, InboundAssumption DEF Deliverable, Stored, DueInv, InboundTypes
<1>2. IsFiniteSet(due)
  <2>1. IsFiniteSet(1..stored)
    <3>1. 1 \in Int /\ stored \in Int
      BY <1>1
    <3> QED BY <3>1, FS_Interval
  <2>2. due \subseteq 1..stored
    BY <1>1 DEF DueInv
  <2> QED BY <2>1, <2>2, FS_Subset
<1>3. {n \in Deliverable : n < m} \subseteq due \ {m}
  <2>1. \A n \in Deliverable : n < m => n \in due
    BY DEF DueInv
  <2>2. m \in Nat
    BY <1>1
  <2> QED BY <2>1, <2>2
<1>4. IsFiniteSet(due \ {m}) /\ Cardinality(due \ {m}) = Cardinality(due) - 1
      /\ Cardinality(due) \in Nat
  BY <1>2, FS_RemoveElement, FS_CardinalityType
<1>5. Cardinality({n \in Deliverable : n < m}) <= Cardinality(due \ {m})
  BY <1>3, <1>4, FS_Subset
<1>6. Cardinality({n \in Deliverable : n < m}) \in Nat
  BY <1>3, <1>4, FS_Subset, FS_CardinalityType
<1> QED BY <1>1, <1>4, <1>5, <1>6 DEF FirstPage

LEMMA DueStep ==
  ASSUME InboundTypes, DueInv, InboundNext
  PROVE  DueInv'
<1>0. stored \in Nat
  BY SceneFacts DEF InboundTypes
<1> USE DEF server, link, tab, bounds, history
<1>1. CASE Insert
  BY <1>0, <1>1, DueStays DEF Insert
<1>2. CASE Record \/ Join \/ Resume \/ Drop \/ KeyChange \/ Relink
  BY <1>0, <1>2, DueStays DEF Record, Join, Resume, Drop, KeyChange, Relink
<1>3. CASE Load
  BY <1>0, <1>3, DueStays DEF Load, NothingIngested
<1>4. CASE Reload
  BY <1>4, FS_EmptySet DEF Reload, DueInv
<1>5. CASE Connect
  <2>1. due' = Deliverable /\ Deliverable' = Deliverable /\ "connect" \in asks'
    BY <1>5 DEF Connect, Deliverable, Stored, Sealed, kinds
  <2> QED BY <2>1 DEF DueInv, OnItsWay
<1>6. CASE Receive
  <2>1. UNCHANGED <<scene, stored, due, answers>>
    BY <1>6 DEF Receive
  <2>2. arrived \subseteq arrived' /\ asks \subseteq asks'
    BY <1>6, ReceiveSplit DEF IngestCiphertext, IngestMeta, NothingIngested
  <2> QED BY <1>0, <2>1, <2>2, DueStays
<1>7. CASE \E m \in Messages : Deliver(m)
  BY <1>0, <1>7, DueStays DEF Deliver
<1>8. CASE \E m \in Messages : FetchSenderDevicePublicKey(m) \/ FetchFails(m) \/ Open(m) \/ OpenCached(m)
  BY <1>0, <1>8, DueStays DEF FetchSenderDevicePublicKey, FetchFails, Open, OpenCached, Settle
<1>9. ASSUME NEW by \in {"page", "list", "connect", "resumed"}, Answer(by)
      PROVE  DueInv'
  <2>0. UNCHANGED <<scene, stored, due, arrived>> /\ asks' = asks \ {by} /\ answers \subseteq answers'
    BY <1>9 DEF Answer
  <2>1. CASE by # "connect"
    BY <1>0, <2>0, <2>1, DueStays
  <2>2. CASE by = "connect"
    <3>1. Deliverable' = Deliverable
      BY <2>0 DEF Deliverable, Stored, Sealed, kinds
    <3>2. \E answer \in answers' : answer.by = "connect" /\ answer.rows = FirstPage(Deliverable)
      <4>1. PICK answer : answer = [by |-> by, rows |-> FirstPage(Deliverable),
                                    more |-> Cardinality(Deliverable) > Page]
        OBVIOUS
      <4>2. answer \in answers'
        BY <1>9, <4>1 DEF Answer
      <4> QED BY <2>2, <4>1, <4>2
    <3>3. Cardinality(due) <= Page => \A m \in due : OnItsWay(m)'
      BY <3>2, DueFitsPage DEF OnItsWay
    <3> QED BY <2>0, <3>1, <3>3 DEF DueInv
  <2> QED BY <2>1, <2>2
<1>10. ASSUME NEW by \in {"page", "list", "connect", "resumed"}, SyncFails(by)
       PROVE  DueInv'
  <2>1. CASE by = "connect"
    BY <1>10, <2>1, FS_EmptySet DEF SyncFails, DueInv
  <2>2. CASE by # "connect"
    BY <1>0, <1>10, <2>2, DueStays DEF SyncFails
  <2> QED BY <2>1, <2>2
<1>11. ASSUME NEW answer \in answers, Take(answer)
       PROVE  DueInv'
  <2>1. UNCHANGED <<scene, stored, due>> /\ asks \subseteq asks' /\ answers' = answers \ {answer}
    BY <1>11 DEF Take
  <2>2. arrived \cup answer.rows \subseteq arrived'
    BY <1>11 DEF Take, IngestMeta
  <2> QED BY <1>0, <2>1, <2>2, DueStays
<1> QED BY <1>1, <1>2, <1>3, <1>4, <1>5, <1>6, <1>7, <1>8, <1>9, <1>10, <1>11 DEF InboundNext

-----------------------------------------------------------------------------
LEMMA InboundStep == InboundInv /\ [InboundNext]_inboundVars => InboundInv'
<1> SUFFICES ASSUME InboundInv, [InboundNext]_inboundVars PROVE InboundInv'
  OBVIOUS
<1>1. CASE InboundNext
  <2>1. InboundTypes'
    <3>1. TabTypes' /\ WireTypes'
      BY <1>1, TabStep, WireStep DEF InboundInv
    <3> QED BY <3>1 DEF InboundTypes, TabTypes
  <2> QED BY <1>1, <2>1, WireStep, ArrivedStep, DueStep DEF InboundInv
<1>2. CASE UNCHANGED inboundVars
  <2> USE <1>2 DEF inboundVars, server, link, tab, bounds, history
  <2>1. InboundTypes'
    BY DEF InboundInv, InboundTypes, WireTypes, OnWire, Messages, kinds
  <2>2. ArrivedIsRead'
    BY DEF InboundInv, ArrivedIsRead
  <2>3. DueInv'
    BY DEF InboundInv, DueInv, Deliverable, Stored, Sealed, kinds, OnItsWay
  <2>4. ReplayInv'
    BY DEF InboundInv, ReplayInv, Replayed, Event
  <2> QED BY <2>1, <2>2, <2>3, <2>4 DEF InboundInv
<1> QED BY <1>1, <1>2

LEMMA SpecInboundInv == InboundSpec => []InboundInv
<1> QED BY InboundInitInv, InboundStep, PTL DEF InboundSpec

\* No copy of a message is dropped because another one was in the way: what
\* came in is being handled, is shown, or failed for a reason of its own,
\* however the copies of the four paths overlap (useInboundMessages).
THEOREM ArrivedAreRead == InboundSpec => []ArrivedIsRead
<1>1. InboundInv => ArrivedIsRead
  BY DEF InboundInv
<1> QED BY <1>1, SpecInboundInv, PTL

\* After the sync of a connect, nothing that was stored when the socket
\* connected is missing from the tab, when it fits the page the client reads;
\* and the resume cursor passes only replayed events (runSocketSync, resume).
THEOREM NothingIsSkipped == InboundSpec => []NothingSkipped
<1>1. InboundInv => NothingSkipped
  BY DEF InboundInv, NothingSkipped, DueInv, ReplayInv, OnItsWay
<1> QED BY <1>1, SpecInboundInv, PTL
-----------------------------------------------------------------------------
(* The double ratchet.                                                     *)

KeyPair == Parties \X Nat
ChainKey == [root : Seq(SUBSET KeyPair), step : Nat]
Remote == {Absent} \cup KeyPair
Entry == [id : Remote \X Nat, mk : ChainKey]
SessionState ==
  [DHs : KeyPair, DHr : Remote, RK : Seq(SUBSET KeyPair),
   CKs : {Absent} \cup ChainKey, CKr : {Absent} \cup ChainKey,
   Ns : Nat, Nr : Nat, PN : Nat, MKSKIPPED : Seq(Entry)]
Payload == [from : Parties, dh : KeyPair, pn : Nat, n : Nat, mk : ChainKey]

LEMMA KeyIsThere == \A k \in ChainKey : k # Absent
<1> SUFFICES ASSUME NEW k \in ChainKey, k = Absent PROVE FALSE
  OBVIOUS
<1>1. DOMAIN k = {"root", "step"}
  BY DEF ChainKey
<1>2. DOMAIN k = 1..0
  BY DEF Absent
<1>3. 1..0 = {}
  OBVIOUS
<1> QED BY <1>1, <1>2, <1>3

-----------------------------------------------------------------------------
\* The map of skipped keys: one place for an id, found where it is.
LEMMA PlaceOfId ==
  ASSUME NEW kept \in Seq(Entry), NEW id, id \in Ids(kept)
  PROVE  Place(kept, id) \in 1..Len(kept) /\ kept[Place(kept, id)].id = id
<1>1. \E i \in DOMAIN kept : kept[i].id = id
  BY DEF Ids
<1> QED BY <1>1 DEF Place

\* Put sets one entry, at the place of its id or at the end.
LEMMA PutFacts ==
  ASSUME NEW kept \in Seq(Entry), NEW id \in Remote \X Nat, NEW mk \in ChainKey
  PROVE  /\ Put(kept, id, mk) \in Seq(Entry)
         /\ Len(kept) <= Len(Put(kept, id, mk)) /\ Len(Put(kept, id, mk)) <= Len(kept) + 1
         /\ \E j \in 1..Len(Put(kept, id, mk)) :
              /\ Put(kept, id, mk)[j] = [id |-> id, mk |-> mk]
              /\ j \in 1..Len(kept) => kept[j].id = id
              /\ \A i \in 1..Len(Put(kept, id, mk)) : i # j =>
                   i \in 1..Len(kept) /\ Put(kept, id, mk)[i] = kept[i]
<1>1. PICK entry : entry = [id |-> id, mk |-> mk]
  OBVIOUS
<1>2. entry \in Entry
  BY <1>1 DEF Entry
<1>3. CASE id \in Ids(kept)
  <2>1. PICK j \in 1..Len(kept) : j = Place(kept, id) /\ kept[j].id = id
    BY <1>3, PlaceOfId
  <2>2. Put(kept, id, mk) = [kept EXCEPT ![j] = entry]
    BY <1>1, <1>3, <2>1 DEF Put
  <2>3. PICK after : after = [kept EXCEPT ![j] = entry]
    OBVIOUS
  <2>4. after \in Seq(Entry) /\ Len(after) = Len(kept) /\ Len(kept) \in Nat
    BY <1>2, <2>1, <2>3
  <2>5. after[j] = entry /\ \A i \in 1..Len(kept) : i # j => after[i] = kept[i]
    BY <2>1, <2>3
  <2> QED BY <1>1, <2>1, <2>2, <2>3, <2>4, <2>5
<1>4. CASE id \notin Ids(kept)
  <2>1. Put(kept, id, mk) = Append(kept, entry)
    BY <1>1, <1>4 DEF Put
  <2>2. PICK after : after = Append(kept, entry)
    OBVIOUS
  <2>3. after \in Seq(Entry) /\ Len(after) = Len(kept) + 1 /\ Len(kept) \in Nat
    BY <1>2, <2>2
  <2>4. after[Len(kept) + 1] = entry /\ \A i \in 1..Len(kept) : after[i] = kept[i]
    BY <1>2, <2>2
  <2>5. \A i \in 1..Len(after) : i # Len(kept) + 1 => i \in 1..Len(kept)
    BY <2>3
  <2>6. Len(kept) + 1 \in 1..Len(after) /\ Len(kept) + 1 \notin 1..Len(kept)
    BY <2>3
  <2> QED BY <1>1, <2>1, <2>2, <2>3, <2>4, <2>5, <2>6
<1> QED BY <1>3, <1>4

LEMMA LastPart ==
  ASSUME NEW S, NEW q \in Seq(S), NEW off \in Nat, off <= Len(q),
         NEW after, after = SubSeq(q, off + 1, Len(q))
  PROVE  /\ after \in Seq(S) /\ Len(after) = Len(q) - off
         /\ \A i \in 1..Len(after) : i + off \in 1..Len(q) /\ after[i] = q[i + off]
OBVIOUS

\* Pruning keeps the last entries, and a map that is not too full.
LEMMA PrunedFacts ==
  ASSUME NEW kept \in Seq(Entry)
  PROVE  /\ Pruned(kept) \in Seq(Entry)
         /\ Len(kept) <= MAX_SKIPPED_KEYS => Pruned(kept) = kept
         /\ Len(kept) > MAX_SKIPPED_KEYS => Len(Pruned(kept)) = MAX_SKIPPED_KEYS
         /\ \E off \in Nat : \A i \in 1..Len(Pruned(kept)) :
              i + off \in 1..Len(kept) /\ Pruned(kept)[i] = kept[i + off]
<1>0. Len(kept) \in Nat /\ MAX_SKIPPED_KEYS \in Nat
  BY RatchetAssumption
<1>1. CASE Len(kept) <= MAX_SKIPPED_KEYS
  <2>1. Pruned(kept) = kept
    BY <1>0, <1>1 DEF Pruned
  <2>2. \A i \in 1..Len(kept) : i + 0 \in 1..Len(kept) /\ kept[i] = kept[i + 0]
    OBVIOUS
  <2> QED BY <1>0, <1>1, <2>1, <2>2
<1>2. CASE Len(kept) > MAX_SKIPPED_KEYS
  <2>1. PICK off : off = Len(kept) - MAX_SKIPPED_KEYS
    OBVIOUS
  <2>2. off \in Nat /\ off + 1 \in 1..(Len(kept) + 1) /\ off + MAX_SKIPPED_KEYS = Len(kept)
    BY <1>0, <1>2, <2>1
  <2>3. Pruned(kept) = SubSeq(kept, off + 1, Len(kept))
    BY <1>2, <2>1 DEF Pruned, pruneSkippedKeys
  <2>4. PICK after : after = SubSeq(kept, off + 1, Len(kept))
    OBVIOUS
  <2>5. /\ after \in Seq(Entry) /\ Len(after) = MAX_SKIPPED_KEYS
        /\ \A i \in 1..Len(after) : i + off \in 1..Len(kept) /\ after[i] = kept[i + off]
    <3>1. Len(kept) - off = MAX_SKIPPED_KEYS /\ off <= Len(kept) /\ off \in Nat
      BY <1>0, <2>1, <2>2
    <3>2. /\ after \in Seq(Entry) /\ Len(after) = Len(kept) - off
          /\ \A i \in 1..Len(after) : i + off \in 1..Len(kept) /\ after[i] = kept[i + off]
      BY ONLY <2>4, <3>1, LastPart
    <3> QED BY ONLY <3>1, <3>2
  <2>6. Pruned(kept) = after
    BY <2>3, <2>4
  <2>7. ~(Len(kept) <= MAX_SKIPPED_KEYS)
    BY <1>0, <1>2
  <2> QED BY <2>2, <2>5, <2>6, <2>7
<1> QED BY <1>0, <1>1, <1>2

LEMMA TwoParts ==
  ASSUME NEW S, NEW low \in Seq(S), NEW high \in Seq(S), NEW after, after = low \o high
  PROVE  /\ after \in Seq(S) /\ Len(after) = Len(low) + Len(high)
         /\ \A i \in 1..Len(low) : after[i] = low[i]
         /\ \A i \in 1..Len(high) : after[Len(low) + i] = high[i]
OBVIOUS

\* The entry of an id is taken out, the others stay in order.
LEMMA WithoutFacts ==
  ASSUME NEW kept \in Seq(Entry), NEW id, id \in Ids(kept)
  PROVE  /\ Without(kept, id) \in Seq(Entry)
         /\ Len(Without(kept, id)) = Len(kept) - 1
         /\ \A i \in 1..Len(Without(kept, id)) :
              LET j == IF i < Place(kept, id) THEN i ELSE i + 1
              IN  j \in 1..Len(kept) /\ j # Place(kept, id) /\ Without(kept, id)[i] = kept[j]
         /\ \A j \in 1..Len(kept) : j # Place(kept, id) =>
              \E i \in 1..Len(Without(kept, id)) : Without(kept, id)[i] = kept[j]
<1>1. PICK j \in 1..Len(kept) : j = Place(kept, id)
  BY PlaceOfId
<1>2. PICK after : after = SubSeq(kept, 1, j - 1) \o SubSeq(kept, j + 1, Len(kept))
  OBVIOUS
<1>3. Without(kept, id) = after
  BY <1>1, <1>2 DEF Without, RemoveAt
<1>4. Len(kept) \in Nat /\ j \in Nat /\ 1 <= j /\ j <= Len(kept)
  OBVIOUS
<1>5. PICK low : low = SubSeq(kept, 1, j - 1)
  OBVIOUS
<1>6. PICK high : high = SubSeq(kept, j + 1, Len(kept))
  OBVIOUS
<1>7. low \in Seq(Entry) /\ Len(low) = j - 1 /\ \A i \in 1..(j - 1) : low[i] = kept[i]
  BY <1>4, <1>5
<1>8. /\ high \in Seq(Entry) /\ Len(high) = Len(kept) - j
      /\ \A i \in 1..(Len(kept) - j) : high[i] = kept[i + j]
  BY <1>4, <1>6
<1>a. after = low \o high
  BY <1>2, <1>5, <1>6
<1>b. /\ after \in Seq(Entry) /\ Len(after) = Len(low) + Len(high)
      /\ \A i \in 1..Len(low) : after[i] = low[i]
      /\ \A i \in 1..Len(high) : after[Len(low) + i] = high[i]
  <2>1. low \in Seq(Entry) /\ high \in Seq(Entry)
    BY <1>7, <1>8
  <2> QED BY ONLY <1>a, <2>1, TwoParts
<1>9. after \in Seq(Entry) /\ Len(after) = Len(kept) - 1
  BY <1>4, <1>7, <1>8, <1>b
<1>10. \A i \in 1..(j - 1) : after[i] = kept[i] /\ i \in 1..Len(after)
  BY <1>4, <1>7, <1>9, <1>b
<1>11. ASSUME NEW i \in j..(Len(kept) - 1)
       PROVE  after[i] = kept[i + 1] /\ i \in 1..Len(after)
  <2>1. i - (j - 1) \in 1..(Len(kept) - j) /\ i - (j - 1) + j = i + 1
    BY <1>4
  <2>2. after[i] = high[i - (j - 1)]
    <3>1. Len(low) + (i - (j - 1)) = i
      BY <1>4, <1>7
    <3> QED BY <1>8, <1>b, <2>1, <3>1
  <2> QED BY <1>4, <1>8, <1>9, <2>1, <2>2
<1>12. ASSUME NEW i \in 1..Len(after)
       PROVE  LET k == IF i < j THEN i ELSE i + 1
              IN  k \in 1..Len(kept) /\ k # j /\ after[i] = kept[k]
  <2>1. CASE i < j
    BY <1>4, <1>9, <1>10, <2>1
  <2>2. CASE ~(i < j)
    <3>1. i \in j..(Len(kept) - 1)
      BY <1>4, <1>9, <2>2
    <3> QED BY <1>4, <1>11, <2>2, <3>1
  <2> QED BY <2>1, <2>2
<1>13. ASSUME NEW k \in 1..Len(kept), k # j
       PROVE  \E i \in 1..Len(after) : after[i] = kept[k]
  <2>1. CASE k < j
    <3>1. k \in 1..(j - 1)
      BY <1>4, <2>1
    <3> QED BY <1>10, <3>1
  <2>2. CASE k > j
    <3>1. k - 1 \in j..(Len(kept) - 1) /\ (k - 1) + 1 = k
      BY <1>4, <2>2
    <3> QED BY <1>11, <3>1
  <2> QED BY <1>4, <1>13, <2>1, <2>2
<1> QED BY <1>1, <1>3, <1>9, <1>12, <1>13
-----------------------------------------------------------------------------
\* What a receiver with state s can no longer make: a key is behind when its
\* chain is an older one, or the current one and further on.
Behind(s, k) ==
  /\ Len(k.root) < Len(s.RK)
  /\ s.CKr # Absent /\ s.CKr.root = k.root => k.step < s.CKr.step
Spent(s, keys) ==
  /\ keys \subseteq ChainKey
  /\ \A k \in keys : Behind(s, k)
  /\ \A i \in 1..Len(s.MKSKIPPED) : s.MKSKIPPED[i].mk \notin keys /\ Behind(s, s.MKSKIPPED[i].mk)
  /\ \A i, j \in 1..Len(s.MKSKIPPED) : s.MKSKIPPED[i].mk = s.MKSKIPPED[j].mk => i = j
  /\ s.CKr # Absent => Len(s.CKr.root) < Len(s.RK)

\* The map after a skip: old entries, and the new one, at one place.
OneMore(after, kept, id, mk) ==
  \E off \in Nat, new \in Nat : \A i \in 1..Len(after) :
    \/ i + off = new /\ after[i] = [id |-> id, mk |-> mk]
    \/ i + off # new /\ i + off \in 1..Len(kept) /\ after[i] = kept[i + off]

LEMMA KeptAfterSkip ==
  ASSUME NEW kept \in Seq(Entry), NEW id \in Remote \X Nat, NEW mk \in ChainKey,
         NEW after, after = Pruned(Put(kept, id, mk))
  PROVE  /\ after \in Seq(Entry) /\ OneMore(after, kept, id, mk)
         /\ Len(kept) >= MAX_SKIPPED_KEYS => Len(after) >= MAX_SKIPPED_KEYS
         /\ Len(after) >= MAX_SKIPPED_KEYS \/ Ids(after) = Ids(kept) \cup {id}
         /\ Len(after) <= MAX_SKIPPED_KEYS
<1>1. PICK put : put = Put(kept, id, mk)
  OBVIOUS
<1>2. /\ put \in Seq(Entry) /\ Len(kept) <= Len(put) /\ Len(put) <= Len(kept) + 1
      /\ Len(put) \in Nat /\ Len(kept) \in Nat /\ MAX_SKIPPED_KEYS \in Nat
  <2>1. put \in Seq(Entry) /\ Len(kept) <= Len(put) /\ Len(put) <= Len(kept) + 1
    BY <1>1, PutFacts
  <2>2. Len(put) \in Nat /\ Len(kept) \in Nat
    BY <2>1
  <2> QED BY <2>1, <2>2, RatchetAssumption
<1>3. PICK new \in 1..Len(put) :
        /\ put[new] = [id |-> id, mk |-> mk]
        /\ new \in 1..Len(kept) => kept[new].id = id
        /\ \A i \in 1..Len(put) : i # new => i \in 1..Len(kept) /\ put[i] = kept[i]
  BY <1>1, PutFacts
<1>4. /\ after \in Seq(Entry)
      /\ Len(put) <= MAX_SKIPPED_KEYS => after = put
      /\ Len(put) > MAX_SKIPPED_KEYS => Len(after) = MAX_SKIPPED_KEYS
  BY <1>1, <1>2, PrunedFacts
<1>5. PICK off \in Nat : \A i \in 1..Len(after) : i + off \in 1..Len(put) /\ after[i] = put[i + off]
  BY <1>1, <1>2, PrunedFacts
<1>6. \A i \in 1..Len(after) :
        \/ i + off = new /\ after[i] = [id |-> id, mk |-> mk]
        \/ i + off # new /\ i + off \in 1..Len(kept) /\ after[i] = kept[i + off]
  BY <1>3, <1>5
<1>7. Len(after) \in Nat
  BY <1>4
<1>8. /\ Len(kept) >= MAX_SKIPPED_KEYS => Len(after) >= MAX_SKIPPED_KEYS
      /\ Len(after) <= MAX_SKIPPED_KEYS
  BY <1>2, <1>4, <1>7
<1>9. ASSUME ~(Len(after) >= MAX_SKIPPED_KEYS)
      PROVE  Ids(after) = Ids(kept) \cup {id}
  <2>1. after = put
    BY <1>2, <1>4, <1>7, <1>9
  <2>2. \A x \in Ids(put) : x \in Ids(kept) \cup {id}
    BY <1>2, <1>3 DEF Ids
  <2>3. id \in Ids(put)
    BY <1>2, <1>3 DEF Ids
  <2>4. ASSUME NEW i \in 1..Len(kept) PROVE kept[i].id \in Ids(put)
    <3>1. CASE i = new
      BY <1>3, <2>3, <3>1
    <3>2. CASE i # new
      BY <1>2, <1>3, <3>2 DEF Ids
    <3> QED BY <3>1, <3>2
  <2>5. Ids(kept) \subseteq Ids(put)
    <3>1. DOMAIN kept = 1..Len(kept)
      OBVIOUS
    <3> QED BY <2>4, <3>1 DEF Ids
  <2> QED BY <2>1, <2>2, <2>3, <2>5
<1>10. OneMore(after, kept, id, mk)
  <2>1. new \in Nat
    BY <1>2
  <2> QED BY <1>6, <2>1 DEF OneMore
<1> QED BY <1>4, <1>8, <1>9, <1>10

LEMMA SkipOneFacts ==
  ASSUME NEW s \in SessionState, s.CKr # Absent, NEW t, t = SkipOne(s)
  PROVE  /\ t \in SessionState
         /\ t.DHs = s.DHs /\ t.DHr = s.DHr /\ t.RK = s.RK /\ t.CKs = s.CKs
         /\ t.Ns = s.Ns /\ t.PN = s.PN /\ t.Nr = s.Nr + 1
         /\ t.CKr = [root |-> s.CKr.root, step |-> s.CKr.step + 1]
         /\ t.MKSKIPPED = Pruned(Put(s.MKSKIPPED, <<s.DHr, s.Nr>>, s.CKr))
<1>1. /\ s.CKr \in ChainKey /\ <<s.DHr, s.Nr>> \in Remote \X Nat /\ s.MKSKIPPED \in Seq(Entry)
      /\ s.Nr \in Nat
  BY DEF SessionState
<1>2. PICK kept : kept = Pruned(Put(s.MKSKIPPED, <<s.DHr, s.Nr>>, s.CKr))
  OBVIOUS
<1>3. kept \in Seq(Entry)
  BY <1>1, <1>2, KeptAfterSkip
<1>n. PICK nr : nr = s.Nr + 1 /\ nr \in Nat
  BY <1>1
<1>4. PICK ck : ck = kdfCk(s.CKr)
  OBVIOUS
<1>5. ck \in ChainKey /\ ck = [root |-> s.CKr.root, step |-> s.CKr.step + 1]
  BY <1>1, <1>4 DEF kdfCk, ChainKey
<1>6. t = [s EXCEPT !.CKr = ck, !.Nr = nr, !.MKSKIPPED = kept]
  BY <1>2, <1>4, <1>n DEF SkipOne
<1>7. /\ t.DHs = s.DHs /\ t.DHr = s.DHr /\ t.RK = s.RK /\ t.CKs = s.CKs
      /\ t.Ns = s.Ns /\ t.PN = s.PN /\ t.Nr = s.Nr + 1 /\ t.CKr = ck /\ t.MKSKIPPED = kept
  BY <1>6, <1>n DEF SessionState
<1>8. t \in SessionState
  <2>1. [s EXCEPT !.CKr = ck] \in SessionState
    BY <1>5 DEF SessionState
  <2>2. [[s EXCEPT !.CKr = ck] EXCEPT !.Nr = nr] \in SessionState
    BY <1>n, <2>1 DEF SessionState
  <2>3. [[[s EXCEPT !.CKr = ck] EXCEPT !.Nr = nr] EXCEPT !.MKSKIPPED = kept] \in SessionState
    BY <1>3, <2>2 DEF SessionState
  <2>4. t = [[[s EXCEPT !.CKr = ck] EXCEPT !.Nr = nr] EXCEPT !.MKSKIPPED = kept]
    BY <1>6 DEF SessionState
  <2> QED BY <2>3, <2>4
<1> QED BY <1>2, <1>5, <1>7, <1>8

\* A skip keeps what is spent, and sets a key aside that was not.
LEMMA SkipOneSpent ==
  ASSUME NEW s \in SessionState, s.CKr # Absent, NEW t, t = SkipOne(s),
         NEW keys, Spent(s, keys)
  PROVE  Spent(t, keys)
<1>1. /\ t \in SessionState /\ t.RK = s.RK
      /\ t.CKr = [root |-> s.CKr.root, step |-> s.CKr.step + 1]
      /\ t.MKSKIPPED = Pruned(Put(s.MKSKIPPED, <<s.DHr, s.Nr>>, s.CKr))
  BY SkipOneFacts
<1>2. /\ s.CKr \in ChainKey /\ <<s.DHr, s.Nr>> \in Remote \X Nat /\ s.MKSKIPPED \in Seq(Entry)
      /\ s.CKr.step \in Nat
  BY DEF SessionState, ChainKey
<1>3. PICK after : after = t.MKSKIPPED
  OBVIOUS
<1>a. PICK id : id = <<s.DHr, s.Nr>>
  OBVIOUS
<1>b. PICK old : old = s.MKSKIPPED
  OBVIOUS
<1>d. PICK mk : mk = s.CKr
  OBVIOUS
<1>c. after = Pruned(Put(old, id, mk)) /\ old \in Seq(Entry) /\ id \in Remote \X Nat /\ mk \in ChainKey
  BY <1>1, <1>2, <1>3, <1>a, <1>b, <1>d
<1>4. PICK off \in Nat, new \in Nat : \A i \in 1..Len(after) :
        \/ i + off = new /\ after[i] = [id |-> id, mk |-> mk]
        \/ i + off # new /\ i + off \in 1..Len(old) /\ after[i] = old[i + off]
  <2>1. OneMore(after, old, id, mk)
    BY <1>c, KeptAfterSkip
  <2> QED BY <2>1 DEF OneMore
<1>5. \A k \in ChainKey : Behind(s, k) => Behind(t, k) /\ k # s.CKr
  BY <1>1, <1>2 DEF Behind, ChainKey
<1>6. Behind(t, s.CKr) /\ Len(s.CKr.root) < Len(s.RK)
  BY <1>1, <1>2 DEF Behind, Spent
<1>7. ASSUME NEW i \in 1..Len(old)
      PROVE  old[i].mk \in ChainKey /\ old[i].mk \notin keys /\ Behind(s, old[i].mk)
  <2>1. old[i] \in Entry
    BY <1>c
  <2>2. old[i].mk \in ChainKey
    BY <2>1 DEF Entry
  <2> QED BY <1>b, <2>2 DEF Spent
<1>8. ASSUME NEW i \in 1..Len(after)
      PROVE  after[i].mk \notin keys /\ Behind(t, after[i].mk)
  <2>1. CASE after[i] = [id |-> id, mk |-> mk]
    BY <1>2, <1>d, <1>5, <1>6, <2>1 DEF Spent
  <2>2. CASE i + off \in 1..Len(old) /\ after[i] = old[i + off]
    BY <1>5, <1>7, <2>2
  <2> QED BY <1>4, <2>1, <2>2
<1>9. ASSUME NEW i \in 1..Len(after), NEW j \in 1..Len(after), after[i].mk = after[j].mk
      PROVE  i = j
  <2>1. ASSUME NEW k \in 1..Len(after), k + off # new
        PROVE  after[k].mk # s.CKr
    BY <1>4, <1>5, <1>7, <1>d, <2>1
  <2>2. ASSUME NEW k \in 1..Len(after), k + off = new
        PROVE  after[k].mk = s.CKr
    BY <1>4, <1>d, <2>2
  <2>3. CASE i + off = new \/ j + off = new
    <3>1. i + off = new /\ j + off = new
      BY <1>9, <2>1, <2>2, <2>3
    <3> QED BY <3>1
  <2>4. CASE i + off # new /\ j + off # new
    <3>1. i + off = j + off
      <4>1. i + off \in 1..Len(old) /\ j + off \in 1..Len(old) /\ old[i + off].mk = old[j + off].mk
        BY <1>4, <1>9, <2>4
      <4>2. \A k, l \in 1..Len(old) : old[k].mk = old[l].mk => k = l
        BY <1>b DEF Spent
      <4> QED BY <4>1, <4>2
    <3> QED BY <3>1
  <2> QED BY <2>3, <2>4
<1>10. Len(t.CKr.root) < Len(t.RK)
  BY <1>1, <1>6
<1>11. keys \subseteq ChainKey /\ \A k \in keys : Behind(t, k)
  BY <1>5 DEF Spent
<1> QED BY <1>3, <1>8, <1>9, <1>10, <1>11 DEF Spent
-----------------------------------------------------------------------------
\* What i skips of a chain leave.
EntryAt(s, i) ==
  [id |-> <<s.DHr, s.Nr + i>>, mk |-> [root |-> s.CKr.root, step |-> s.CKr.step + i]]
Along(s, i, t) ==
  /\ t \in SessionState
  /\ t.DHs = s.DHs /\ t.DHr = s.DHr /\ t.RK = s.RK /\ t.CKs = s.CKs /\ t.Ns = s.Ns /\ t.PN = s.PN
  /\ t.Nr = s.Nr + i /\ t.CKr = [root |-> s.CKr.root, step |-> s.CKr.step + i]
  /\ \A keys : Spent(s, keys) => Spent(t, keys)
  /\ \A e \in 1..Len(t.MKSKIPPED) :
       \/ \E k \in 1..Len(s.MKSKIPPED) : t.MKSKIPPED[e] = s.MKSKIPPED[k]
       \/ \E k \in 0..(i - 1) : t.MKSKIPPED[e] = EntryAt(s, k)
  /\ \/ Len(t.MKSKIPPED) >= MAX_SKIPPED_KEYS
     \/ Ids(t.MKSKIPPED) = Ids(s.MKSKIPPED) \cup {<<s.DHr, s.Nr + k>> : k \in 0..(i - 1)}
  /\ Len(s.MKSKIPPED) >= MAX_SKIPPED_KEYS => Len(t.MKSKIPPED) >= MAX_SKIPPED_KEYS
  /\ Len(s.MKSKIPPED) <= MAX_SKIPPED_KEYS => Len(t.MKSKIPPED) <= MAX_SKIPPED_KEYS

LEMMA AlongStart ==
  ASSUME NEW s \in SessionState, s.CKr # Absent
  PROVE  Along(s, 0, s)
<1>1. s.CKr \in ChainKey /\ s.Nr \in Nat /\ s.CKr.step \in Nat
  BY DEF SessionState, ChainKey
<1>2. s.CKr = [root |-> s.CKr.root, step |-> s.CKr.step + 0] /\ s.Nr = s.Nr + 0
  BY <1>1 DEF ChainKey
<1>3. {<<s.DHr, s.Nr + k>> : k \in 0..(0 - 1)} = {}
  OBVIOUS
<1> QED BY <1>2, <1>3 DEF Along

LEMMA AlongStep ==
  ASSUME NEW s \in SessionState, s.CKr # Absent, NEW i \in Nat, NEW t, Along(s, i, t)
  PROVE  Along(s, i + 1, SkipOne(t))
<1>0. s.CKr \in ChainKey /\ s.Nr \in Nat /\ s.CKr.step \in Nat
  BY DEF SessionState, ChainKey
<1>1. t \in SessionState /\ t.CKr \in ChainKey /\ t.CKr # Absent
      /\ t.Nr = s.Nr + i /\ t.DHr = s.DHr
      /\ t.CKr = [root |-> s.CKr.root, step |-> s.CKr.step + i]
  BY <1>0, KeyIsThere DEF Along, ChainKey
<1>2. PICK u : u = SkipOne(t)
  OBVIOUS
<1>3. /\ u \in SessionState
      /\ u.DHs = t.DHs /\ u.DHr = t.DHr /\ u.RK = t.RK /\ u.CKs = t.CKs
      /\ u.Ns = t.Ns /\ u.PN = t.PN /\ u.Nr = t.Nr + 1
      /\ u.CKr = [root |-> t.CKr.root, step |-> t.CKr.step + 1]
      /\ u.MKSKIPPED = Pruned(Put(t.MKSKIPPED, <<t.DHr, t.Nr>>, t.CKr))
  BY <1>1, <1>2, SkipOneFacts
<1>4. u.Nr = s.Nr + (i + 1) /\ u.CKr = [root |-> s.CKr.root, step |-> s.CKr.step + (i + 1)]
  BY <1>0, <1>1, <1>3
<1>5. \A keys : Spent(s, keys) => Spent(u, keys)
  BY <1>1, <1>2, SkipOneSpent DEF Along
<1>6. PICK old, id, mk, after :
        old = t.MKSKIPPED /\ id = <<t.DHr, t.Nr>> /\ mk = t.CKr /\ after = u.MKSKIPPED
  OBVIOUS
<1>7. /\ after = Pruned(Put(old, id, mk)) /\ old \in Seq(Entry) /\ id \in Remote \X Nat
      /\ mk \in ChainKey /\ after \in Seq(Entry)
  BY <1>1, <1>3, <1>6 DEF SessionState
<1>8. /\ OneMore(after, old, id, mk)
      /\ Len(old) >= MAX_SKIPPED_KEYS => Len(after) >= MAX_SKIPPED_KEYS
      /\ Len(after) >= MAX_SKIPPED_KEYS \/ Ids(after) = Ids(old) \cup {id}
      /\ Len(after) <= MAX_SKIPPED_KEYS
  BY <1>7, KeptAfterSkip
<1>9. [id |-> id, mk |-> mk] = EntryAt(s, i) /\ id = <<s.DHr, s.Nr + i>>
  BY <1>1, <1>6 DEF EntryAt
<1>10. /\ i \in 0..((i + 1) - 1) /\ 0..(i - 1) \subseteq 0..((i + 1) - 1)
       /\ \A k \in 0..((i + 1) - 1) : k \in 0..(i - 1) \/ k = i
  OBVIOUS
<1>11. ASSUME NEW e \in 1..Len(after)
       PROVE  \/ \E k \in 1..Len(s.MKSKIPPED) : after[e] = s.MKSKIPPED[k]
              \/ \E k \in 0..((i + 1) - 1) : after[e] = EntryAt(s, k)
  <2>1. PICK off \in Nat, new \in Nat : \A l \in 1..Len(after) :
          \/ l + off = new /\ after[l] = [id |-> id, mk |-> mk]
          \/ l + off # new /\ l + off \in 1..Len(old) /\ after[l] = old[l + off]
    BY <1>8 DEF OneMore
  <2>2. CASE after[e] = [id |-> id, mk |-> mk]
    BY <1>9, <1>10, <2>2
  <2>3. ASSUME NEW l \in 1..Len(old), after[e] = old[l]
        PROVE  \/ \E k \in 1..Len(s.MKSKIPPED) : after[e] = s.MKSKIPPED[k]
               \/ \E k \in 0..((i + 1) - 1) : after[e] = EntryAt(s, k)
    BY <1>6, <1>10, <2>3 DEF Along
  <2> QED BY <2>1, <2>2, <2>3
<1>12. \/ Len(after) >= MAX_SKIPPED_KEYS
       \/ Ids(after) = Ids(s.MKSKIPPED) \cup {<<s.DHr, s.Nr + k>> : k \in 0..((i + 1) - 1)}
  <2>1. CASE Len(old) >= MAX_SKIPPED_KEYS
    BY <1>8, <2>1
  <2>2. CASE ~(Len(old) >= MAX_SKIPPED_KEYS)
    <3>1. Ids(old) = Ids(s.MKSKIPPED) \cup {<<s.DHr, s.Nr + k>> : k \in 0..(i - 1)}
      BY <1>6, <2>2 DEF Along
    <3>2. {<<s.DHr, s.Nr + k>> : k \in 0..((i + 1) - 1)}
            = {<<s.DHr, s.Nr + k>> : k \in 0..(i - 1)} \cup {id}
      BY <1>9, <1>10
    <3> QED BY <1>8, <3>1, <3>2
  <2> QED BY <2>1, <2>2
<1>13. u.DHs = s.DHs /\ u.DHr = s.DHr /\ u.RK = s.RK /\ u.CKs = s.CKs /\ u.Ns = s.Ns /\ u.PN = s.PN
  BY <1>3 DEF Along
<1>a. /\ Len(s.MKSKIPPED) >= MAX_SKIPPED_KEYS => Len(after) >= MAX_SKIPPED_KEYS
      /\ Len(after) <= MAX_SKIPPED_KEYS
  <2>1. Len(s.MKSKIPPED) >= MAX_SKIPPED_KEYS => Len(old) >= MAX_SKIPPED_KEYS
    BY <1>6 DEF Along
  <2> QED BY <1>8, <2>1
<1>14. Along(s, i + 1, u)
  BY <1>3, <1>4, <1>5, <1>6, <1>11, <1>12, <1>13, <1>a DEF Along
<1> QED BY <1>2, <1>14

-----------------------------------------------------------------------------
\* Of a set of numbers that is not empty one is the least.
LEMMA LeastOf ==
  ASSUME NEW set \in SUBSET Nat, set # {}
  PROVE  \E n \in set : \A k \in set : n <= k
<1>1. PICK n \in set : \A k \in set : ~(<<k, n>> \in OpToRel(<, Nat))
  BY NatLessThanWellFounded, WFMin
<1>2. \A k \in set : ~(k < n)
  BY <1>1 DEF OpToRel
<1> QED BY <1>2

\* The function skipMessageKeys is defined by is there, and goes Along.
Skipping(s, m, after) ==
  after = [i \in 0..m |-> IF i = 0 THEN s ELSE SkipOne(after[i - 1])]

LEMMA SkippingThere ==
  ASSUME NEW s, NEW m \in Nat
  PROVE  \E after : Skipping(s, m, after)
<1> DEFINE bad == {k \in Nat : ~\E after : Skipping(s, k, after)}
<1>1. SUFFICES ASSUME bad # {} PROVE FALSE
  OBVIOUS
<1>2. PICK n \in bad : \A k \in bad : n <= k
  BY <1>1, LeastOf
<1>3. CASE n = 0
  <2>1. PICK after : after = [i \in 0..0 |-> s]
    OBVIOUS
  <2>2. after = [i \in 0..0 |-> IF i = 0 THEN s ELSE SkipOne(after[i - 1])]
    BY <2>1
  <2> QED BY <1>2, <1>3, <2>2 DEF Skipping
<1>4. CASE n # 0
  <2>1. n - 1 \in Nat /\ n - 1 \notin bad
    BY <1>2, <1>4
  <2>2. PICK f : Skipping(s, n - 1, f)
    BY <2>1
  <2>3. PICK after : after = [i \in 0..n |-> IF i = n THEN SkipOne(f[n - 1]) ELSE f[i]]
    OBVIOUS
  <2>4. \A i \in 0..(n - 1) : f[i] = IF i = 0 THEN s ELSE SkipOne(f[i - 1])
    BY <2>2 DEF Skipping
  <2>5. \A i \in 0..(n - 1) : after[i] = f[i]
    BY <1>2, <2>3
  <2>6. after[n] = SkipOne(f[n - 1]) /\ after[n - 1] = f[n - 1]
    BY <1>2, <2>1, <2>3, <2>5
  <2>7. ASSUME NEW i \in 0..n
        PROVE  after[i] = IF i = 0 THEN s ELSE SkipOne(after[i - 1])
    <3>1. CASE i = n
      BY <1>4, <2>6, <3>1
    <3>2. CASE i # n
      <4>1. i \in 0..(n - 1) /\ (i # 0 => i - 1 \in 0..(n - 1))
        BY <1>2, <3>2
      <4> QED BY <2>4, <2>5, <4>1
    <3> QED BY <3>1, <3>2
  <2>8. after = [i \in 0..n |-> IF i = 0 THEN s ELSE SkipOne(after[i - 1])]
    BY <2>3, <2>7
  <2> QED BY <1>2, <2>8 DEF Skipping
<1> QED BY <1>3, <1>4

LEMMA SkippingGoesAlong ==
  ASSUME NEW s \in SessionState, s.CKr # Absent, NEW m \in Nat, NEW after, Skipping(s, m, after)
  PROVE  Along(s, m, after[m])
<1> DEFINE bad == {k \in 0..m : ~Along(s, k, after[k])}
<1>1. \A k \in 0..m : after[k] = IF k = 0 THEN s ELSE SkipOne(after[k - 1])
  BY DEF Skipping
<1>2. SUFFICES ASSUME bad # {} PROVE FALSE
  OBVIOUS
<1>3. PICK n \in bad : \A k \in bad : n <= k
  <2>1. bad \in SUBSET Nat
    OBVIOUS
  <2> HIDE DEF bad
  <2> QED BY <1>2, <2>1, LeastOf
<1>4. CASE n = 0
  BY <1>1, <1>3, <1>4, AlongStart
<1>5. CASE n # 0
  <2>1. n - 1 \in 0..m /\ n - 1 \in Nat /\ n - 1 \notin bad /\ (n - 1) + 1 = n
    BY <1>3, <1>5
  <2>2. Along(s, n - 1, after[n - 1])
    BY <2>1
  <2>3. Along(s, (n - 1) + 1, SkipOne(after[n - 1]))
    BY <2>1, <2>2, AlongStep
  <2>4. after[n] = SkipOne(after[n - 1])
    BY <1>1, <1>3, <1>5
  <2> QED BY <1>3, <2>1, <2>3, <2>4
<1> QED BY <1>4, <1>5

LEMMA SkipFacts ==
  ASSUME NEW s \in SessionState, NEW until \in Nat, NEW t, t = skipMessageKeys(s, until)
  PROVE  IF s.CKr = Absent \/ until <= s.Nr THEN t = s ELSE Along(s, until - s.Nr, t)
<1>1. CASE s.CKr = Absent \/ until <= s.Nr
  BY <1>1 DEF skipMessageKeys
<1>2. CASE ~(s.CKr = Absent \/ until <= s.Nr)
  <2>1. PICK m : m = until - s.Nr
    OBVIOUS
  <2>2. m \in Nat
    BY <1>2, <2>1 DEF SessionState
  <2>3. PICK after : after = CHOOSE f : f = [i \in 0..m |-> IF i = 0 THEN s ELSE SkipOne(f[i - 1])]
    OBVIOUS
  <2>4. t = after[m]
    BY <1>2, <2>1, <2>3 DEF skipMessageKeys
  <2>5. Skipping(s, m, after)
    <3>1. \E f : f = [i \in 0..m |-> IF i = 0 THEN s ELSE SkipOne(f[i - 1])]
      <4>1. PICK f : Skipping(s, m, f)
        BY <2>2, SkippingThere, Zenon
      <4> QED BY <4>1, Zenon DEF Skipping
    <3>2. after = [i \in 0..m |-> IF i = 0 THEN s ELSE SkipOne(after[i - 1])]
      BY <2>3, <3>1, Zenon
    <3> QED BY <3>2 DEF Skipping
  <2>6. Along(s, m, after[m])
    BY <1>2, <2>2, <2>5, SkippingGoesAlong
  <2> QED BY <1>2, <2>1, <2>4, <2>6
<1> QED BY <1>1, <1>2
-----------------------------------------------------------------------------
\* The other steps of a state: a new remote key, a chain key taken, a key that
\* was set aside taken.
IsTurned(s, dh, pair, t) ==
  /\ t \in SessionState
  /\ t.DHr = dh /\ t.DHs = pair /\ t.PN = s.Ns /\ t.Ns = 0 /\ t.Nr = 0
  /\ t.RK = Append(Append(s.RK, {s.DHs, dh}), {pair, dh})
  /\ t.CKr = [root |-> Append(s.RK, {s.DHs, dh}), step |-> 0]
  /\ t.CKs = [root |-> t.RK, step |-> 0]
  /\ t.MKSKIPPED = s.MKSKIPPED
  /\ Append(s.RK, {s.DHs, dh}) \in Seq(SUBSET KeyPair)

LEMMA TurnFacts ==
  ASSUME NEW s \in SessionState, NEW dh \in KeyPair, NEW pair \in KeyPair
  PROVE  IsTurned(s, dh, pair, DHRatchet(s, dh, pair))
<1>0. PICK t : t = DHRatchet(s, dh, pair)
  OBVIOUS
<1>1. PICK rk1 : rk1 = Append(s.RK, {s.DHs, dh})
  OBVIOUS
<1>2. PICK rk2 : rk2 = Append(rk1, {pair, dh})
  OBVIOUS
<1>3. {s.DHs, dh} \in SUBSET KeyPair /\ {pair, dh} \in SUBSET KeyPair /\ s.RK \in Seq(SUBSET KeyPair)
      /\ s.Ns \in Nat
  BY DEF SessionState
<1>4. rk1 \in Seq(SUBSET KeyPair)
  BY <1>1, <1>3
<1>5. rk2 \in Seq(SUBSET KeyPair)
  BY <1>2, <1>3, <1>4
<1>6. PICK receive, send : receive = [root |-> rk1, step |-> 0] /\ send = [root |-> rk2, step |-> 0]
  OBVIOUS
<1>7. receive \in ChainKey /\ send \in ChainKey
  BY <1>4, <1>5, <1>6 DEF ChainKey
<1>8. t = [s EXCEPT !.DHr = dh, !.CKr = receive, !.DHs = pair, !.RK = rk2,
                    !.CKs = send, !.PN = s.Ns, !.Ns = 0, !.Nr = 0]
  BY <1>0, <1>1, <1>2, <1>6 DEF DHRatchet, kdfRk, Agreed, Chain
<1>9. /\ t.DHr = dh /\ t.DHs = pair /\ t.PN = s.Ns /\ t.Ns = 0 /\ t.Nr = 0 /\ t.RK = rk2
      /\ t.CKr = receive /\ t.CKs = send /\ t.MKSKIPPED = s.MKSKIPPED
  BY <1>8 DEF SessionState
<1>10. t = [DHs |-> pair, DHr |-> dh, RK |-> rk2, CKs |-> send, CKr |-> receive,
            Ns |-> 0, Nr |-> 0, PN |-> s.Ns, MKSKIPPED |-> s.MKSKIPPED]
  BY <1>8 DEF SessionState
<1>11. t \in SessionState
  <2>1. s.MKSKIPPED \in Seq(Entry) /\ dh \in Remote
    BY DEF SessionState, Remote
  <2> QED BY <1>3, <1>5, <1>7, <1>10, <2>1 DEF SessionState
<1> QED BY <1>0, <1>1, <1>2, <1>4, <1>6, <1>9, <1>11 DEF IsTurned

LEMMA TurnSpent ==
  ASSUME NEW s \in SessionState, NEW dh \in KeyPair, NEW pair \in KeyPair,
         NEW t, t = DHRatchet(s, dh, pair), NEW keys, Spent(s, keys)
  PROVE  Spent(t, keys)
<1>1. PICK rk1 : rk1 = Append(s.RK, {s.DHs, dh})
  OBVIOUS
<1>2. t.RK = Append(rk1, {pair, dh}) /\ t.CKr = [root |-> rk1, step |-> 0] /\ t.MKSKIPPED = s.MKSKIPPED
      /\ rk1 \in Seq(SUBSET KeyPair)
  <2>1. /\ t.RK = Append(Append(s.RK, {s.DHs, dh}), {pair, dh})
        /\ t.CKr = [root |-> Append(s.RK, {s.DHs, dh}), step |-> 0]
        /\ t.MKSKIPPED = s.MKSKIPPED
        /\ Append(s.RK, {s.DHs, dh}) \in Seq(SUBSET KeyPair)
    <3>1. IsTurned(s, dh, pair, t)
      BY TurnFacts
    <3> QED BY <3>1 DEF IsTurned
  <2> QED BY <1>1, <2>1
<1>3. s.RK \in Seq(SUBSET KeyPair) /\ {s.DHs, dh} \in SUBSET KeyPair /\ {pair, dh} \in SUBSET KeyPair
      /\ s.MKSKIPPED \in Seq(Entry)
  BY DEF SessionState
<1>4. Len(rk1) = Len(s.RK) + 1 /\ Len(t.RK) = Len(s.RK) + 2 /\ Len(s.RK) \in Nat
  BY <1>1, <1>2, <1>3
<1>5. ASSUME NEW k \in ChainKey, Behind(s, k) PROVE Behind(t, k)
  <2>1. Len(k.root) \in Nat /\ Len(k.root) < Len(s.RK)
    BY <1>5 DEF ChainKey, Behind
  <2> QED BY <1>2, <1>4, <2>1 DEF Behind
<1>6. ASSUME NEW i \in 1..Len(s.MKSKIPPED)
      PROVE  s.MKSKIPPED[i].mk \in ChainKey
  <2>1. s.MKSKIPPED[i] \in Entry
    BY <1>3
  <2> QED BY <2>1 DEF Entry
<1> QED BY <1>2, <1>4, <1>5, <1>6 DEF Spent

LEMMA OpenedFacts ==
  ASSUME NEW s \in SessionState, s.CKr # Absent, NEW t, t = Opened(s)
  PROVE  /\ t \in SessionState
         /\ t.DHs = s.DHs /\ t.DHr = s.DHr /\ t.RK = s.RK /\ t.CKs = s.CKs
         /\ t.Ns = s.Ns /\ t.PN = s.PN /\ t.Nr = s.Nr + 1 /\ t.MKSKIPPED = s.MKSKIPPED
         /\ t.CKr = [root |-> s.CKr.root, step |-> s.CKr.step + 1]
<1>1. s.CKr \in ChainKey /\ s.Nr \in Nat
  BY DEF SessionState
<1>2. PICK ck, nr : ck = kdfCk(s.CKr) /\ nr = s.Nr + 1
  OBVIOUS
<1>3. ck \in ChainKey /\ ck = [root |-> s.CKr.root, step |-> s.CKr.step + 1] /\ nr \in Nat
  BY <1>1, <1>2 DEF kdfCk, ChainKey
<1>4. t = [s EXCEPT !.CKr = ck, !.Nr = nr]
  BY <1>2 DEF Opened
<1>5. t.DHs = s.DHs /\ t.DHr = s.DHr /\ t.RK = s.RK /\ t.CKs = s.CKs /\ t.Ns = s.Ns
      /\ t.PN = s.PN /\ t.Nr = nr /\ t.MKSKIPPED = s.MKSKIPPED /\ t.CKr = ck
  BY <1>4 DEF SessionState
<1>6. t \in SessionState
  <2>1. [s EXCEPT !.CKr = ck] \in SessionState
    BY <1>3 DEF SessionState
  <2>2. [[s EXCEPT !.CKr = ck] EXCEPT !.Nr = nr] \in SessionState
    BY <1>3, <2>1 DEF SessionState
  <2>3. t = [[s EXCEPT !.CKr = ck] EXCEPT !.Nr = nr]
    BY <1>4 DEF SessionState
  <2> QED BY <2>2, <2>3
<1> QED BY <1>2, <1>3, <1>5, <1>6

LEMMA OpenedSpent ==
  ASSUME NEW s \in SessionState, s.CKr # Absent, NEW t, t = Opened(s), NEW keys, Spent(s, keys)
  PROVE  s.CKr \notin keys /\ Spent(t, keys \cup {s.CKr})
<1>1. /\ t.RK = s.RK /\ t.MKSKIPPED = s.MKSKIPPED
      /\ t.CKr = [root |-> s.CKr.root, step |-> s.CKr.step + 1]
  BY OpenedFacts
<1>2. s.CKr \in ChainKey /\ s.CKr.step \in Nat /\ s.MKSKIPPED \in Seq(Entry)
  BY DEF SessionState, ChainKey
<1>3. ASSUME NEW k \in ChainKey, Behind(s, k) PROVE Behind(t, k) /\ k # s.CKr
  BY <1>1, <1>2, <1>3 DEF Behind, ChainKey
<1>4. Len(s.CKr.root) < Len(s.RK)
  BY DEF Spent
<1>5. Behind(t, s.CKr)
  BY <1>1, <1>2, <1>4 DEF Behind
<1>6. ASSUME NEW i \in 1..Len(s.MKSKIPPED)
      PROVE  s.MKSKIPPED[i].mk \in ChainKey
  <2>1. s.MKSKIPPED[i] \in Entry
    BY <1>2
  <2> QED BY <2>1 DEF Entry
<1>7. \A k \in keys \cup {s.CKr} : k \in ChainKey /\ Behind(t, k)
  BY <1>2, <1>3, <1>5 DEF Spent
<1>8. s.CKr \notin keys
  BY <1>3 DEF Spent
<1>9. ASSUME NEW i \in 1..Len(t.MKSKIPPED)
      PROVE  t.MKSKIPPED[i].mk \notin keys \cup {s.CKr} /\ Behind(t, t.MKSKIPPED[i].mk)
  BY <1>1, <1>3, <1>6 DEF Spent
<1>10. \A i, j \in 1..Len(t.MKSKIPPED) : t.MKSKIPPED[i].mk = t.MKSKIPPED[j].mk => i = j
  BY <1>1 DEF Spent
<1> QED BY <1>1, <1>4, <1>7, <1>8, <1>9, <1>10 DEF Spent

LEMMA UsedFacts ==
  ASSUME NEW s \in SessionState, NEW id, id \in Ids(s.MKSKIPPED),
         NEW t, t = [s EXCEPT !.MKSKIPPED = Used(s.MKSKIPPED, id)]
  PROVE  /\ t \in SessionState
         /\ t.DHs = s.DHs /\ t.DHr = s.DHr /\ t.RK = s.RK /\ t.CKs = s.CKs /\ t.CKr = s.CKr
         /\ t.Ns = s.Ns /\ t.PN = s.PN /\ t.Nr = s.Nr
         /\ t.MKSKIPPED = Without(s.MKSKIPPED, id)
<1>1. s.MKSKIPPED \in Seq(Entry)
  BY DEF SessionState
<1>2. PICK kept : kept = Without(s.MKSKIPPED, id)
  OBVIOUS
<1>3. kept \in Seq(Entry)
  BY <1>1, <1>2, WithoutFacts
<1>4. t = [s EXCEPT !.MKSKIPPED = kept]
  BY <1>2 DEF Used
<1> QED BY <1>2, <1>3, <1>4 DEF SessionState

LEMMA UsedSpent ==
  ASSUME NEW s \in SessionState, NEW id, id \in Ids(s.MKSKIPPED),
         NEW t, t = [s EXCEPT !.MKSKIPPED = Used(s.MKSKIPPED, id)],
         NEW key, key = KeyOf(s.MKSKIPPED, id), NEW keys, Spent(s, keys)
  PROVE  key \notin keys /\ Spent(t, keys \cup {key})
<1>1. t.RK = s.RK /\ t.CKr = s.CKr /\ t.MKSKIPPED = Without(s.MKSKIPPED, id)
  BY DEF Used, SessionState
<1>2. PICK old, after : old = s.MKSKIPPED /\ after = Without(s.MKSKIPPED, id)
  OBVIOUS
<1>3. old \in Seq(Entry) /\ id \in Ids(old) /\ after = Without(old, id)
  BY <1>2 DEF SessionState
<1>4. PICK j \in 1..Len(old) : j = Place(old, id)
  BY <1>3, PlaceOfId
<1>5. key = old[j].mk
  BY <1>2, <1>4 DEF KeyOf
<1>6. \A i \in 1..Len(after) :
        LET k == IF i < j THEN i ELSE i + 1
        IN  k \in 1..Len(old) /\ k # j /\ after[i] = old[k]
  BY <1>3, <1>4, WithoutFacts
<1>7. \A i \in 1..Len(old) : old[i].mk \notin keys /\ Behind(s, old[i].mk)
  BY <1>2 DEF Spent
<1>8. \A i, k \in 1..Len(old) : old[i].mk = old[k].mk => i = k
  BY <1>2 DEF Spent
<1>9. \A k : Behind(s, k) => Behind(t, k)
  BY <1>1 DEF Behind
<1>10. key \notin keys /\ Behind(t, key) /\ key \in ChainKey
  <2>1. old[j] \in Entry
    BY <1>3
  <2> QED BY <1>4, <1>5, <1>7, <1>9, <2>1 DEF Entry
<1>11. ASSUME NEW i \in 1..Len(after)
       PROVE  after[i].mk \notin keys \cup {key} /\ Behind(t, after[i].mk)
  <2>1. PICK k \in 1..Len(old) : k # j /\ after[i] = old[k]
    BY <1>6
  <2> QED BY <1>4, <1>5, <1>7, <1>8, <1>9, <2>1
<1>12. ASSUME NEW i \in 1..Len(after), NEW l \in 1..Len(after), after[i].mk = after[l].mk
       PROVE  i = l
  <2>1. PICK ki : ki = IF i < j THEN i ELSE i + 1
    OBVIOUS
  <2>2. PICK kl : kl = IF l < j THEN l ELSE l + 1
    OBVIOUS
  <2>3. ki = kl
    BY <1>6, <1>8, <1>12, <2>1, <2>2
  <2> QED BY <2>1, <2>2, <2>3
<1>13. \A k \in keys \cup {key} : k \in ChainKey /\ Behind(t, k)
  BY <1>9, <1>10 DEF Spent
<1>14. t.CKr # Absent => Len(t.CKr.root) < Len(t.RK)
  BY <1>1 DEF Spent
<1>15. t.MKSKIPPED = after
  BY <1>1, <1>2
<1> QED BY <1>10, <1>11, <1>12, <1>13, <1>14, <1>15 DEF Spent

LEMMA SpentLess ==
  ASSUME NEW s, NEW keys, NEW fewer \in SUBSET keys, Spent(s, keys)
  PROVE  Spent(s, fewer)
BY DEF Spent
-----------------------------------------------------------------------------
\* What is read, once.
RatchetTypes ==
  /\ state \in [Parties -> SessionState] /\ pairs \in [Parties -> Nat]
  /\ sent \subseteq Payload /\ read \subseteq sent
ReadKeys(p) == {m.mk : m \in {x \in read : x.from # p}}
ReadInv == RatchetTypes /\ twice = {} /\ \A p \in Parties : Spent(state[p], ReadKeys(p))

LEMMA PairFacts ==
  /\ BobPair \in KeyPair /\ <<alice, 0>> \in KeyPair
  /\ alice \in Parties /\ bob \in Parties /\ alice # bob
BY RatchetAssumption DEF BobPair, KeyPair, Parties

LEMMA InitStates ==
  /\ initAlice \in SessionState /\ initBob \in SessionState
  /\ initAlice.RK = <<{<<alice, 0>>, BobPair}>> /\ initAlice.CKr = Absent
  /\ initAlice.CKs = [root |-> initAlice.RK, step |-> 0] /\ initAlice.DHs = <<alice, 0>>
  /\ initAlice.DHr = BobPair /\ initAlice.MKSKIPPED = <<>> /\ initAlice.Nr = 0
  /\ initAlice.Ns = 0 /\ initAlice.PN = 0
  /\ initBob.RK = <<>> /\ initBob.CKr = Absent /\ initBob.CKs = Absent
  /\ initBob.DHs = BobPair /\ initBob.DHr = Absent /\ initBob.MKSKIPPED = <<>> /\ initBob.Nr = 0
  /\ initBob.Ns = 0 /\ initBob.PN = 0
<1>1. PICK rk : rk = <<{<<alice, 0>>, BobPair}>>
  OBVIOUS
<1>2. rk \in Seq(SUBSET KeyPair)
  BY <1>1, PairFacts
<1>3. kdfRk(<<>>, Agreed(<<alice, 0>>, BobPair)) = rk
  BY <1>1 DEF kdfRk, Agreed
<1>4. initAlice = [DHs |-> <<alice, 0>>, DHr |-> BobPair, RK |-> rk, CKs |-> [root |-> rk, step |-> 0],
                   CKr |-> Absent, Ns |-> 0, Nr |-> 0, PN |-> 0, MKSKIPPED |-> <<>>]
  BY <1>3 DEF initAlice, Chain
<1>5. [root |-> rk, step |-> 0] \in ChainKey
  BY <1>2 DEF ChainKey
<1>6. initAlice \in SessionState
  BY <1>2, <1>4, <1>5, PairFacts DEF SessionState, Remote
<1>7. initBob \in SessionState
  BY PairFacts DEF initBob, SessionState, Remote
<1> QED BY <1>1, <1>4, <1>6, <1>7 DEF initBob

LEMMA InitReadInv == RatchetInit => ReadInv
<1> SUFFICES ASSUME RatchetInit PROVE ReadInv
  OBVIOUS
<1>1. RatchetTypes
  BY InitStates DEF RatchetInit, RatchetTypes
<1>2. ASSUME NEW p \in Parties PROVE Spent(state[p], ReadKeys(p))
  <2>1. state[p] = initAlice \/ state[p] = initBob
    BY DEF RatchetInit
  <2>2. state[p].MKSKIPPED = <<>> /\ state[p].CKr = Absent
    BY <2>1, InitStates
  <2>3. ReadKeys(p) = {}
    BY DEF RatchetInit, ReadKeys
  <2> QED BY <2>2, <2>3 DEF Spent
<1> QED BY <1>1, <1>2 DEF ReadInv, RatchetInit

LEMMA LeavesTypes ==
  ASSUME RatchetTypes, NEW p \in Parties, NEW s \in SessionState, Leaves(p, s)
  PROVE  state' \in [Parties -> SessionState] /\ pairs' \in [Parties -> Nat]
<1>1. pairs[p] \in Nat /\ pairs[p] + 1 \in Nat
  BY DEF RatchetTypes
<1> QED BY <1>1 DEF Leaves, RatchetTypes

LEMMA SkipSpent ==
  ASSUME NEW s \in SessionState, NEW until \in Nat, NEW t, t = skipMessageKeys(s, until),
         NEW keys, Spent(s, keys)
  PROVE  t \in SessionState /\ Spent(t, keys)
<1>1. t = s \/ Along(s, until - s.Nr, t)
  BY SkipFacts
<1>2. CASE Along(s, until - s.Nr, t)
  BY <1>2 DEF Along
<1> QED BY <1>1, <1>2

\* The states a delivery on the chain goes through.
LEMMA RatchetedSpent ==
  ASSUME NEW s \in SessionState, NEW m \in Payload, NEW pair \in KeyPair,
         NEW keys, Spent(s, keys)
  PROVE  Ratcheted(s, m, pair) \in SessionState /\ Spent(Ratcheted(s, m, pair), keys)
<1>1. m.pn \in Nat /\ m.dh \in KeyPair
  BY DEF Payload
<1>2. CASE Changed(s, m)
  <2>1. PICK t : t = skipMessageKeys(s, m.pn)
    OBVIOUS
  <2>2. t \in SessionState /\ Spent(t, keys)
    BY <1>1, <2>1, SkipSpent
  <2>3. IsTurned(t, m.dh, pair, DHRatchet(t, m.dh, pair))
    BY <1>1, <2>2, TurnFacts
  <2>4. Spent(DHRatchet(t, m.dh, pair), keys)
    BY <1>1, <2>2, TurnSpent
  <2> QED BY <1>2, <2>1, <2>3, <2>4 DEF Ratcheted, IsTurned
<1>3. CASE ~Changed(s, m)
  BY <1>3 DEF Ratcheted
<1> QED BY <1>2, <1>3

LEMMA ReadKeysOfOthers ==
  ASSUME NEW m, NEW q, m.from = q, read' = read \/ read' = read \cup {m}
  PROVE  ReadKeys(q)' = ReadKeys(q)
BY DEF ReadKeys

\* A call that takes a key nothing was read with, and leaves it spent.
LEMMA AnswerKeeps ==
  ASSUME ReadInv, NEW p \in Parties, NEW m \in sent, m.from # p, NEW s \in SessionState,
         NEW key, key \notin ReadKeys(p), Spent(s, ReadKeys(p) \cup {key}),
         Leaves(p, s), Answers(m, key), sent' = sent
  PROVE  ReadInv'
<1>1. state' \in [Parties -> SessionState] /\ pairs' \in [Parties -> Nat]
  BY LeavesTypes DEF ReadInv
<1>2. m \in read => m.mk \in ReadKeys(p)
  BY DEF ReadKeys
<1>3. \/ key = m.mk /\ read' = read \cup {m} /\ twice' = twice
      \/ read' = read /\ twice' = twice
  BY <1>2 DEF Answers, Reads, Throws
<1>4. RatchetTypes'
  BY <1>1, <1>3 DEF RatchetTypes, ReadInv
<1>5. ReadKeys(p)' \subseteq ReadKeys(p) \cup {key}
  BY <1>3 DEF ReadKeys
<1>6. ASSUME NEW q \in Parties PROVE Spent(state'[q], ReadKeys(q)')
  <2>1. CASE q = p
    <3>1. state'[q] = s
      BY <2>1 DEF Leaves, ReadInv, RatchetTypes
    <3> QED BY <1>5, <2>1, <3>1, SpentLess
  <2>2. CASE q # p
    <3>1. m.from = q
      <4>1. m.from \in Parties
        BY DEF ReadInv, RatchetTypes, Payload
      <4> QED BY <2>2, <4>1 DEF Parties
    <3>2. ReadKeys(q)' = ReadKeys(q) /\ state'[q] = state[q]
      BY <1>3, <2>2, <3>1, ReadKeysOfOthers DEF Leaves, ReadInv, RatchetTypes
    <3> QED BY <3>2 DEF ReadInv
  <2> QED BY <2>1, <2>2
<1>7. (\A q \in Parties : Spent(state[q], ReadKeys(q)))'
  BY <1>6 DEF Spent, Behind
<1> QED BY <1>3, <1>4, <1>7 DEF ReadInv

\* A call that throws: what was spent stays so.
LEMMA ThrowKeeps ==
  ASSUME ReadInv, NEW p \in Parties, NEW s \in SessionState, Spent(s, ReadKeys(p)),
         Leaves(p, s), UNCHANGED <<read, twice, sent>>
  PROVE  ReadInv'
<1>1. state' \in [Parties -> SessionState] /\ pairs' \in [Parties -> Nat]
  BY LeavesTypes DEF ReadInv
<1>2. RatchetTypes'
  BY <1>1 DEF RatchetTypes, ReadInv
<1>3. ASSUME NEW q \in Parties PROVE Spent(state'[q], ReadKeys(q)')
  <2>1. ReadKeys(q)' = ReadKeys(q)
    BY DEF ReadKeys
  <2>2. (state'[q] = s /\ q = p) \/ state'[q] = state[q]
    BY DEF Leaves, ReadInv, RatchetTypes
  <2> QED BY <2>1, <2>2 DEF ReadInv
<1>4. (\A q \in Parties : Spent(state[q], ReadKeys(q)))'
  BY <1>3 DEF Spent, Behind
<1> QED BY <1>2, <1>4 DEF ReadInv

\* A call that encrypts m and leaves its party with t.
Encrypts(p, s, m, t) ==
  /\ state' = [state EXCEPT ![p] = t] /\ sent' = sent \cup {m}
  /\ s.CKs # Absent /\ t.CKs = [root |-> s.CKs.root, step |-> s.CKs.step + 1] /\ t.Ns = s.Ns + 1
  /\ t.DHs = s.DHs /\ t.DHr = s.DHr /\ t.RK = s.RK /\ t.CKr = s.CKr
  /\ t.Nr = s.Nr /\ t.PN = s.PN /\ t.MKSKIPPED = s.MKSKIPPED
  /\ m = [from |-> p, dh |-> s.DHs, pn |-> s.PN, n |-> s.Ns, mk |-> s.CKs]

LEMMA EncryptTypes ==
  ASSUME RatchetTypes, NEW p \in Parties, ratchetEncrypt(p)
  PROVE  RatchetTypes' /\ \E t \in SessionState, m \in Payload : Encrypts(p, state[p], m, t)
<1>1. PICK s : s = state[p]
  OBVIOUS
<1>2. s \in SessionState /\ s.CKs # Absent
  BY <1>1 DEF RatchetTypes, ratchetEncrypt
<1>3. s.CKs \in ChainKey /\ s.Ns \in Nat /\ s.PN \in Nat /\ s.DHs \in KeyPair
  BY <1>2 DEF SessionState
<1>4. PICK ck, n : ck = kdfCk(s.CKs) /\ n = s.Ns + 1
  OBVIOUS
<1>5. ck \in ChainKey /\ n \in Nat /\ ck = [root |-> s.CKs.root, step |-> s.CKs.step + 1]
  BY <1>3, <1>4 DEF kdfCk, ChainKey
<1>6. PICK t : t = [s EXCEPT !.CKs = ck, !.Ns = n]
  OBVIOUS
<1>7. state' = [state EXCEPT ![p] = t]
  <2>1. state' = [state EXCEPT ![p].CKs = ck, ![p].Ns = n]
    BY <1>1, <1>4 DEF ratchetEncrypt
  <2> QED BY <1>1, <1>6, <2>1 DEF RatchetTypes
<1>8. t \in SessionState
  <2>1. [s EXCEPT !.CKs = ck] \in SessionState
    BY <1>2, <1>5 DEF SessionState
  <2>2. [[s EXCEPT !.CKs = ck] EXCEPT !.Ns = n] \in SessionState
    BY <1>5, <2>1 DEF SessionState
  <2>3. t = [[s EXCEPT !.CKs = ck] EXCEPT !.Ns = n]
    BY <1>2, <1>6 DEF SessionState
  <2> QED BY <2>2, <2>3
<1>9. /\ t.CKs = ck /\ t.Ns = n /\ t.DHs = s.DHs /\ t.DHr = s.DHr /\ t.RK = s.RK /\ t.CKr = s.CKr
      /\ t.Nr = s.Nr /\ t.PN = s.PN /\ t.MKSKIPPED = s.MKSKIPPED
  BY <1>2, <1>6 DEF SessionState
<1>10. PICK m : m = [from |-> p, dh |-> s.DHs, pn |-> s.PN, n |-> s.Ns, mk |-> s.CKs]
  OBVIOUS
<1>11. m \in Payload /\ sent' = sent \cup {m}
  BY <1>1, <1>3, <1>10 DEF Payload, ratchetEncrypt
<1>12. RatchetTypes'
  BY <1>7, <1>8, <1>11 DEF RatchetTypes, ratchetEncrypt
<1>13. Encrypts(p, s, m, t)
  BY <1>2, <1>4, <1>5, <1>7, <1>9, <1>10, <1>11 DEF Encrypts
<1> QED BY <1>1, <1>8, <1>11, <1>12, <1>13

LEMMA SpentSame ==
  ASSUME NEW s, NEW t, t.RK = s.RK, t.CKr = s.CKr, t.MKSKIPPED = s.MKSKIPPED,
         NEW keys, Spent(s, keys)
  PROVE  Spent(t, keys)
BY DEF Spent, Behind

LEMMA ReadStep == ReadInv /\ [RatchetNext]_ratchetVars => ReadInv'
<1> SUFFICES ASSUME ReadInv, [RatchetNext]_ratchetVars PROVE ReadInv'
  OBVIOUS
<1>0. RatchetTypes
  BY DEF ReadInv
<1>1. ASSUME NEW p \in Parties, ratchetEncrypt(p) PROVE ReadInv'
  <2>1. RatchetTypes'
        /\ \A q \in Parties : /\ state'[q].RK = state[q].RK /\ state'[q].CKr = state[q].CKr
                              /\ state'[q].MKSKIPPED = state[q].MKSKIPPED
    <3>1. RatchetTypes' /\ \E t \in SessionState, m \in Payload : Encrypts(p, state[p], m, t)
      BY <1>0, <1>1, EncryptTypes
    <3> QED BY <1>0, <3>1 DEF Encrypts, RatchetTypes
  <2>2. UNCHANGED <<read, twice>>
    BY <1>1 DEF ratchetEncrypt
  <2>3. \A q \in Parties : Spent(state'[q], ReadKeys(q))
    BY <2>1, SpentSame DEF ReadInv
  <2>4. (\A q \in Parties : Spent(state[q], ReadKeys(q)))'
    BY <2>2, <2>3 DEF Spent, Behind, ReadKeys
  <2> QED BY <2>1, <2>2, <2>4 DEF ReadInv
<1>2. ASSUME NEW p \in Parties, NEW m \in sent, ratchetDecrypt(p, m) PROVE ReadInv'
  <2>0. sent' = sent /\ m.from # p /\ m \in Payload /\ Fresh(p) \in KeyPair /\ state[p] \in SessionState
    BY <1>0, <1>2 DEF ratchetDecrypt, RatchetTypes, Fresh, KeyPair
  <2>1. PICK s : s = state[p]
    OBVIOUS
  <2>2. s \in SessionState /\ Spent(s, ReadKeys(p))
    BY <2>0, <2>1 DEF ReadInv
  <2>3. CASE DecryptSkipped(p, m)
    <3>1. PICK id : id = <<m.dh, m.n>>
      OBVIOUS
    <3>2. PICK t, key : t = [s EXCEPT !.MKSKIPPED = Used(s.MKSKIPPED, id)] /\ key = KeyOf(s.MKSKIPPED, id)
      OBVIOUS
    <3>3. id \in Ids(s.MKSKIPPED) /\ Leaves(p, t) /\ Answers(m, key)
      BY <2>1, <2>3, <3>1, <3>2 DEF DecryptSkipped
    <3>4. key \notin ReadKeys(p) /\ Spent(t, ReadKeys(p) \cup {key})
      BY <2>2, <3>2, <3>3, UsedSpent
    <3>5. t \in SessionState
      BY <2>2, <3>2, <3>3, UsedFacts
    <3> QED BY <2>0, <3>3, <3>4, <3>5, AnswerKeeps
  <2>4. CASE DecryptChain(p, m)
    <3>1. PICK ratcheted : ratcheted = Ratcheted(s, m, Fresh(p))
      OBVIOUS
    <3>2. ratcheted \in SessionState /\ Spent(ratcheted, ReadKeys(p))
      BY <2>0, <2>2, <3>1, RatchetedSpent
    <3>3. PICK skipped : skipped = skipMessageKeys(ratcheted, m.n)
      OBVIOUS
    <3>4. skipped \in SessionState /\ Spent(skipped, ReadKeys(p))
      <4>1. m.n \in Nat
        BY <2>0 DEF Payload
      <4> QED BY <3>2, <3>3, <4>1, SkipSpent
    <3>5. CASE ~MaySkip(ratcheted, m.n) \/ skipped.CKr = Absent
      <4>1. Leaves(p, ratcheted) /\ UNCHANGED <<read, twice>>
        BY <2>1, <2>4, <3>1, <3>3, <3>5 DEF DecryptChain, Throws
      <4> QED BY <2>0, <3>2, <4>1, ThrowKeeps
    <3>6. CASE ~(~MaySkip(ratcheted, m.n) \/ skipped.CKr = Absent)
      <4>1. PICK t : t = Opened(skipped)
        OBVIOUS
      <4>2. Leaves(p, t) /\ Answers(m, skipped.CKr)
        BY <2>1, <2>4, <3>1, <3>3, <3>6, <4>1 DEF DecryptChain
      <4>3. skipped.CKr \notin ReadKeys(p) /\ Spent(t, ReadKeys(p) \cup {skipped.CKr})
        BY <3>4, <3>6, <4>1, OpenedSpent
      <4>4. t \in SessionState
        BY <3>4, <3>6, <4>1, OpenedFacts
      <4> QED BY <2>0, <4>2, <4>3, <4>4, AnswerKeeps
    <3> QED BY <3>5, <3>6
  <2>5. CASE DecryptTooFar(p, m)
    <3>1. UNCHANGED <<state, pairs, read, twice, sent>>
      BY <2>0, <2>5 DEF DecryptTooFar, Throws
    <3> QED BY <3>1 DEF ReadInv, RatchetTypes, Spent, Behind, ReadKeys
  <2> QED BY <1>2, <2>3, <2>4, <2>5 DEF ratchetDecrypt
<1>3. CASE UNCHANGED ratchetVars
  BY <1>3 DEF ratchetVars, ReadInv, RatchetTypes, Spent, Behind, ReadKeys
<1> QED BY <1>1, <1>2, <1>3 DEF RatchetNext

LEMMA SpecReadInv == RatchetSpec => []ReadInv
BY InitReadInv, ReadStep, PTL DEF RatchetSpec

\* A message opens at most once, whatever is replayed, and what opened it is
\* gone from the state of the receiver: the key that was set aside, and the
\* chain up to it (ratchetDecrypt, kdfCk).
THEOREM OpensOnce == RatchetSpec => []ReadOnce
<1>1. ReadInv => ReadOnce
  <2> SUFFICES ASSUME ReadInv PROVE ReadOnce
    OBVIOUS
  <2>1. ASSUME NEW m \in read, NEW p \in Parties \ {m.from}
        PROVE  /\ \A e \in Range(state[p].MKSKIPPED) : e.mk # m.mk
               /\ state[p].CKr # Absent /\ state[p].CKr.root = m.mk.root
                    => state[p].CKr.step > m.mk.step
    <3>1. PICK s : s = state[p]
      OBVIOUS
    <3>2. m.mk \in ReadKeys(p) /\ Spent(s, ReadKeys(p)) /\ s \in SessionState
      BY <3>1 DEF ReadKeys, ReadInv, RatchetTypes
    <3>3. m.mk \in ChainKey /\ Behind(s, m.mk)
      BY <3>2 DEF Spent
    <3>4. ASSUME NEW e \in Range(s.MKSKIPPED) PROVE e.mk # m.mk
      <4>1. PICK i \in DOMAIN s.MKSKIPPED : e = s.MKSKIPPED[i]
        BY DEF Range
      <4>2. DOMAIN s.MKSKIPPED = 1..Len(s.MKSKIPPED)
        BY <3>2 DEF SessionState
      <4> QED BY <3>2, <4>1, <4>2 DEF Spent
    <3>5. s.CKr # Absent => s.CKr \in ChainKey
      BY <3>2 DEF SessionState
    <3> QED BY <3>1, <3>3, <3>4, <3>5 DEF Behind, ChainKey
  <2> QED BY <2>1 DEF ReadOnce, ReadInv
<1> QED BY <1>1, SpecReadInv, PTL
-----------------------------------------------------------------------------
\* A chain counts its messages, and the sending one is that of the root key.
Shape(s) ==
  /\ s.CKs # Absent => s.CKs = [root |-> s.RK, step |-> s.Ns]
  /\ s.CKr # Absent => s.CKr.step = s.Nr /\ s.DHr # Absent

\* What skipping does to a state, for what both sides know of each other.
SkippedKey(s, n) == [id |-> <<s.DHr, n>>, mk |-> [root |-> s.CKr.root, step |-> n]]
SameSender(s, t) ==
  t.DHs = s.DHs /\ t.RK = s.RK /\ t.CKs = s.CKs /\ t.Ns = s.Ns /\ t.PN = s.PN
SkipsTo(s, until, t) ==
  /\ t \in SessionState /\ Shape(t) /\ SameSender(s, t) /\ t.DHr = s.DHr
  /\ s.CKr = Absent => t = s
  /\ s.CKr # Absent => /\ t.CKr # Absent /\ t.CKr.root = s.CKr.root
                       /\ t.Nr = IF until <= s.Nr THEN s.Nr ELSE until
  /\ \A e \in 1..Len(t.MKSKIPPED) :
       \/ \E k \in 1..Len(s.MKSKIPPED) : t.MKSKIPPED[e] = s.MKSKIPPED[k]
       \/ s.CKr # Absent /\ \E n \in s.Nr..(until - 1) : t.MKSKIPPED[e] = SkippedKey(s, n)
  /\ Len(t.MKSKIPPED) >= MAX_SKIPPED_KEYS \/ Ids(t.MKSKIPPED) = Ids(s.MKSKIPPED) \cup Skips(s, until)
  /\ Len(s.MKSKIPPED) >= MAX_SKIPPED_KEYS => Len(t.MKSKIPPED) >= MAX_SKIPPED_KEYS
  /\ Len(s.MKSKIPPED) <= MAX_SKIPPED_KEYS => Len(t.MKSKIPPED) <= MAX_SKIPPED_KEYS

LEMMA SkippingTo ==
  ASSUME NEW s \in SessionState, Shape(s), NEW until \in Nat
  PROVE  SkipsTo(s, until, skipMessageKeys(s, until))
<1>0. PICK t : t = skipMessageKeys(s, until)
  OBVIOUS
<1>1. IF s.CKr = Absent \/ until <= s.Nr THEN t = s ELSE Along(s, until - s.Nr, t)
  BY <1>0, SkipFacts
<1>2. s.Nr \in Nat /\ s.MKSKIPPED \in Seq(Entry)
  BY DEF SessionState
<1>3. CASE s.CKr = Absent \/ until <= s.Nr
  <2>1. Skips(s, until) = {}
    BY <1>2, <1>3 DEF Skips
  <2>2. t = s
    BY <1>1, <1>3
  <2> QED BY <1>0, <1>3, <2>1, <2>2 DEF SkipsTo, SameSender
<1>4. CASE s.CKr # Absent /\ ~(until <= s.Nr)
  <2>1. PICK i : i = until - s.Nr
    OBVIOUS
  <2>2. i \in Nat /\ s.Nr + i = until
    BY <1>2, <1>4, <2>1
  <2>3. Along(s, i, t)
    BY <1>1, <1>4, <2>1
  <2>4. /\ t \in SessionState /\ SameSender(s, t) /\ t.DHr = s.DHr
        /\ t.Nr = s.Nr + i /\ t.CKr = [root |-> s.CKr.root, step |-> s.CKr.step + i]
    BY <2>3 DEF Along, SameSender
  <2>5. s.CKr.step = s.Nr /\ s.DHr # Absent /\ s.CKr \in ChainKey
    BY <1>4 DEF Shape, SessionState
  <2>6. t.CKr \in ChainKey /\ t.CKr.root = s.CKr.root /\ t.CKr.step = until /\ t.Nr = until
    BY <1>2, <2>2, <2>4, <2>5 DEF ChainKey
  <2>7. t.CKr # Absent
    BY <2>6, KeyIsThere
  <2>8. Shape(t)
    BY <2>4, <2>5, <2>6 DEF Shape, SameSender
  <2>9. \A k \in 0..(i - 1) : s.Nr + k \in s.Nr..(until - 1) /\ EntryAt(s, k) = SkippedKey(s, s.Nr + k)
    BY <1>2, <2>2, <2>5 DEF EntryAt, SkippedKey
  <2>10. \A e \in 1..Len(t.MKSKIPPED) :
           \/ \E k \in 1..Len(s.MKSKIPPED) : t.MKSKIPPED[e] = s.MKSKIPPED[k]
           \/ \E n \in s.Nr..(until - 1) : t.MKSKIPPED[e] = SkippedKey(s, n)
    BY <2>3, <2>9 DEF Along
  <2>11. {<<s.DHr, s.Nr + k>> : k \in 0..(i - 1)} = Skips(s, until)
    <3>1. \A n \in s.Nr..(until - 1) : n - s.Nr \in 0..(i - 1) /\ s.Nr + (n - s.Nr) = n
      BY <1>2, <2>1, <2>2
    <3> QED BY <1>4, <2>9, <3>1 DEF Skips
  <2>12. /\ Len(t.MKSKIPPED) >= MAX_SKIPPED_KEYS
              \/ Ids(t.MKSKIPPED) = Ids(s.MKSKIPPED) \cup Skips(s, until)
         /\ Len(s.MKSKIPPED) >= MAX_SKIPPED_KEYS => Len(t.MKSKIPPED) >= MAX_SKIPPED_KEYS
         /\ Len(s.MKSKIPPED) <= MAX_SKIPPED_KEYS => Len(t.MKSKIPPED) <= MAX_SKIPPED_KEYS
    BY <2>3, <2>11 DEF Along
  <2> QED BY <1>0, <1>4, <2>4, <2>6, <2>7, <2>8, <2>10, <2>12 DEF SkipsTo
<1> QED BY <1>3, <1>4

LEMMA TurnShape ==
  ASSUME NEW s \in SessionState, NEW dh \in KeyPair, NEW pair, NEW t, IsTurned(s, dh, pair, t)
  PROVE  Shape(t) /\ t.CKr # Absent /\ t.CKs # Absent
<1>1. dh # Absent
  <2>1. dh = <<dh[1], dh[2]>>
    BY DEF KeyPair
  <2> QED BY <2>1 DEF Absent
<1>2. t.CKr # Absent /\ t.CKs # Absent
  <2>1. s.RK \in Seq(SUBSET KeyPair) /\ t.RK \in Seq(SUBSET KeyPair)
    BY DEF IsTurned, SessionState
  <2>2. t.CKr \in ChainKey /\ t.CKs \in ChainKey
    BY <2>1 DEF IsTurned, ChainKey
  <2> QED BY <2>2, KeyIsThere
<1>3. t.CKs = [root |-> t.RK, step |-> 0] /\ t.Ns = 0 /\ t.Nr = 0 /\ t.DHr = dh
  BY DEF IsTurned
<1>4. t.CKr.step = 0
  BY DEF IsTurned
<1>5. t.CKs = [root |-> t.RK, step |-> t.Ns]
  BY <1>3
<1> QED BY <1>1, <1>2, <1>3, <1>4, <1>5 DEF Shape

\* The states of a delivery on the chain.
RatchetsTo(s, m, pair, r) ==
  IF Changed(s, m)
    THEN \E t \in SessionState : SkipsTo(s, m.pn, t) /\ IsTurned(t, m.dh, pair, r)
    ELSE r = s
LEMMA RatchetingTo ==
  ASSUME NEW s \in SessionState, Shape(s), NEW m \in Payload, NEW pair \in KeyPair
  PROVE  /\ Ratcheted(s, m, pair) \in SessionState /\ Shape(Ratcheted(s, m, pair))
         /\ RatchetsTo(s, m, pair, Ratcheted(s, m, pair))
<1>1. m.pn \in Nat /\ m.dh \in KeyPair
  BY DEF Payload
<1>2. CASE Changed(s, m)
  <2>1. PICK t : t = skipMessageKeys(s, m.pn)
    OBVIOUS
  <2>2. SkipsTo(s, m.pn, t)
    BY <1>1, <2>1, SkippingTo
  <2>3. t \in SessionState
    BY <2>2 DEF SkipsTo
  <2>4. PICK r : r = DHRatchet(t, m.dh, pair)
    OBVIOUS
  <2>5. IsTurned(t, m.dh, pair, r)
    BY <1>1, <2>3, <2>4, TurnFacts
  <2>6. Ratcheted(s, m, pair) = r
    BY <1>2, <2>1, <2>4 DEF Ratcheted
  <2>7. r \in SessionState /\ Shape(r)
    BY <1>1, <2>3, <2>5, TurnShape DEF IsTurned
  <2> QED BY <1>2, <2>2, <2>3, <2>5, <2>6, <2>7 DEF RatchetsTo
<1>3. CASE ~Changed(s, m)
  BY <1>3 DEF Ratcheted, RatchetsTo
<1> QED BY <1>2, <1>3
-----------------------------------------------------------------------------
\* What was sent is sealed with the sending chain of a key pair generated for it.
Generated(x) == {x} \X (0..(pairs[x] - 1))
SealedOnChain(m, s) ==
  m.dh = s.DHs => s.CKs # Absent /\ m.mk.root = s.RK /\ m.n < s.Ns /\ m.pn = s.PN
HearsOf(x, s) ==
  \A y \in Parties \ {x} :
    /\ s.DHr \in {Absent} \cup Generated(y)
    /\ \A i \in 1..Len(s.MKSKIPPED) : s.MKSKIPPED[i].id[1] \in Generated(y)
WellSent ==
  /\ \A x \in Parties : Shape(state[x]) /\ state[x].DHs \in Generated(x) /\ HearsOf(x, state[x])
  /\ \A m \in sent :
       m.dh \in Generated(m.from) /\ m.mk.step = m.n /\ SealedOnChain(m, state[m.from])
  /\ \A m, o \in sent : m.dh = o.dh /\ m.n = o.n => m = o

\* A message of an earlier chain, or earlier in the chain, came, waits for its
\* key to be taken, or lost it to the limit.
Settled(m, held, came, gone) ==
  m \in came \/ <<m.dh, m.n>> \in held \/ <<m.dh, m.n>> \in gone

\* What receiver Y holds of the messages `msgs` of sender X.
Good(X, Y, held, msgs, came, gone) ==
  /\ \A m \in msgs : m.dh = Y.DHr =>
       /\ Y.CKr # Absent /\ m.mk.root = Y.CKr.root
       /\ m.n < Y.Nr => Settled(m, held, came, gone)
       /\ Y.DHr # X.DHs => m.n < X.PN
  /\ \A m \in msgs : m.dh # Y.DHr /\ m.dh # X.DHs => Settled(m, held, came, gone)
  /\ \A i \in 1..Len(Y.MKSKIPPED) :
       /\ \A m \in msgs : Y.MKSKIPPED[i].id = <<m.dh, m.n>> => Y.MKSKIPPED[i].mk = m.mk
       /\ Y.MKSKIPPED[i].id[1] = Y.DHr => Y.MKSKIPPED[i].id[2] < Y.Nr
       /\ Y.MKSKIPPED[i].id[1] = X.DHs => Y.DHr = X.DHs
  /\ Y.DHr = X.DHs /\ Y.CKr # Absent => Y.Nr <= X.Ns

\* X has turned last: Y has not heard of its key pair.
Ahead(X, Y) ==
  /\ X.RK = Append(Y.RK, {X.DHs, Y.DHs}) /\ X.DHr = Y.DHs /\ X.CKs # Absent
  /\ Y.DHr # X.DHs
  /\ Y.CKs # Absent => X.CKr # Absent /\ X.CKr.root = Y.RK

From(x) == {m \in sent : m.from = x}
LateTogether ==
  /\ \A r \in refused : r.why = "far"
  /\ Ahead(state[alice], state[bob]) \/ Ahead(state[bob], state[alice])
  /\ \A x, y \in Parties : x # y =>
       Good(state[x], state[y], Ids(state[y].MKSKIPPED), From(x), Arrived, pruned)
LateInv == ReadInv /\ replays \in Nat /\ WellSent /\ (Intact => LateTogether)
-----------------------------------------------------------------------------
\* How the parts of LateInv carry over a step.
LEMMA GoodMore ==
  ASSUME NEW X, NEW Y, NEW held, NEW msgs, NEW came, NEW gone, Good(X, Y, held, msgs, came, gone),
         NEW held2, NEW came2, NEW gone2,
         \A m \in msgs : Settled(m, held, came, gone) => Settled(m, held2, came2, gone2)
  PROVE  Good(X, Y, held2, msgs, came2, gone2)
BY DEF Good

\* The receiver takes one of the keys it set aside, or the sender sends.
LEMMA GoodFewer ==
  ASSUME NEW X, NEW Y, NEW held, NEW msgs, NEW came, NEW gone, Good(X, Y, held, msgs, came, gone),
         NEW Y2, Y2.DHr = Y.DHr, Y2.CKr = Y.CKr, Y2.Nr = Y.Nr,
         \A i \in 1..Len(Y2.MKSKIPPED) :
           \E k \in 1..Len(Y.MKSKIPPED) : Y2.MKSKIPPED[i] = Y.MKSKIPPED[k],
         NEW X2, X2.DHs = X.DHs, X2.PN = X.PN, X2.Ns = X.Ns
  PROVE  Good(X2, Y2, held, msgs, came, gone)
<1>1. \A m \in msgs : m.dh = Y2.DHr =>
        /\ Y2.CKr # Absent /\ m.mk.root = Y2.CKr.root
        /\ m.n < Y2.Nr => Settled(m, held, came, gone)
        /\ Y2.DHr # X2.DHs => m.n < X2.PN
  BY DEF Good
<1>2. \A m \in msgs : m.dh # Y2.DHr /\ m.dh # X2.DHs => Settled(m, held, came, gone)
  BY DEF Good
<1>3. \A i \in 1..Len(Y2.MKSKIPPED) :
        /\ \A m \in msgs : Y2.MKSKIPPED[i].id = <<m.dh, m.n>> => Y2.MKSKIPPED[i].mk = m.mk
        /\ Y2.MKSKIPPED[i].id[1] = Y2.DHr => Y2.MKSKIPPED[i].id[2] < Y2.Nr
        /\ Y2.MKSKIPPED[i].id[1] = X2.DHs => Y2.DHr = X2.DHs
  <2> TAKE i \in 1..Len(Y2.MKSKIPPED)
  <2>1. PICK k \in 1..Len(Y.MKSKIPPED) : Y2.MKSKIPPED[i] = Y.MKSKIPPED[k]
    OBVIOUS
  <2> QED BY <2>1 DEF Good
<1>4. Y2.DHr = X2.DHs /\ Y2.CKr # Absent => Y2.Nr <= X2.Ns
  BY DEF Good
<1> QED BY <1>1, <1>2, <1>3, <1>4 DEF Good

LEMMA GoodEncrypt ==
  ASSUME NEW X \in SessionState, NEW Y \in SessionState, Shape(X),
         NEW held, NEW msgs, NEW came, NEW gone, Good(X, Y, held, msgs, came, gone),
         X.CKs # Absent, Ahead(X, Y) \/ Ahead(Y, X),
         NEW m, m.dh = X.DHs, m.n = X.Ns, m.mk = X.CKs,
         NEW X2, X2.DHs = X.DHs, X2.PN = X.PN, X2.Ns = X.Ns + 1
  PROVE  Good(X2, Y, held, msgs \cup {m}, came, gone)
<1>1. X.Ns \in Nat /\ Y.Nr \in Nat
  BY DEF SessionState
<1>2. Y.DHr = X.DHs => Y.CKr # Absent /\ m.mk.root = Y.CKr.root /\ ~(m.n < Y.Nr)
  <2> SUFFICES ASSUME Y.DHr = X.DHs PROVE Y.CKr # Absent /\ m.mk.root = Y.CKr.root /\ ~(m.n < Y.Nr)
    OBVIOUS
  <2>1. Ahead(Y, X)
    BY DEF Ahead
  <2>2. Y.CKr # Absent /\ Y.CKr.root = X.RK
    BY <2>1 DEF Ahead
  <2>3. m.mk.root = X.RK
    BY DEF Shape
  <2> QED BY <1>1, <2>2, <2>3 DEF Good
<1>3. ASSUME NEW i \in 1..Len(Y.MKSKIPPED) PROVE Y.MKSKIPPED[i].id # <<m.dh, m.n>>
  <2>1. Y.MKSKIPPED[i].id = <<m.dh, m.n>> => Y.MKSKIPPED[i].id[1] = X.DHs /\ Y.MKSKIPPED[i].id[2] = X.Ns
    OBVIOUS
  <2>2. /\ Y.MKSKIPPED[i].id[1] = Y.DHr => Y.MKSKIPPED[i].id[2] < Y.Nr
        /\ Y.MKSKIPPED[i].id[1] = X.DHs => Y.DHr = X.DHs
    BY DEF Good
  <2> QED BY <1>2, <2>1, <2>2
<1>4. \A o \in msgs \cup {m} : o.dh = Y.DHr =>
        /\ Y.CKr # Absent /\ o.mk.root = Y.CKr.root
        /\ o.n < Y.Nr => Settled(o, held, came, gone)
        /\ Y.DHr # X2.DHs => o.n < X2.PN
  BY <1>2 DEF Good
<1>5. \A o \in msgs \cup {m} : o.dh # Y.DHr /\ o.dh # X2.DHs => Settled(o, held, came, gone)
  BY DEF Good
<1>6. \A i \in 1..Len(Y.MKSKIPPED) :
        /\ \A o \in msgs \cup {m} : Y.MKSKIPPED[i].id = <<o.dh, o.n>> => Y.MKSKIPPED[i].mk = o.mk
        /\ Y.MKSKIPPED[i].id[1] = Y.DHr => Y.MKSKIPPED[i].id[2] < Y.Nr
        /\ Y.MKSKIPPED[i].id[1] = X2.DHs => Y.DHr = X2.DHs
  BY <1>3 DEF Good
<1>7. Y.DHr = X2.DHs /\ Y.CKr # Absent => Y.Nr <= X2.Ns
  BY <1>1 DEF Good
<1> QED BY <1>4, <1>5, <1>6, <1>7 DEF Good

\* The sender turns: it owes nothing under its new key pair yet, and what it
\* sent under the last one is bounded by PN.
LEMMA GoodSenderTurns ==
  ASSUME NEW X \in SessionState, NEW Y, NEW held, NEW msgs, NEW came, NEW gone,
         Good(X, Y, held, msgs, came, gone), Y.DHr = X.DHs,
         \A m \in msgs : SealedOnChain(m, X),
         NEW X2, X2.PN = X.Ns, X2.DHs # Y.DHr,
         \A i \in 1..Len(Y.MKSKIPPED) : Y.MKSKIPPED[i].id[1] # X2.DHs
  PROVE  Good(X2, Y, held, msgs, came, gone)
BY DEF Good, SealedOnChain

\* What skipping leaves of the messages of the chain it skips in.
LEMMA SkipSettles ==
  ASSUME NEW Y \in SessionState, Y.CKr # Absent, NEW until \in Nat, NEW m \in Payload,
         m.dh = Y.DHr, m.n < until, NEW held, NEW came, NEW gone,
         m.n < Y.Nr => Settled(m, held, came, gone)
  PROVE  Settled(m, held \cup Skips(Y, until), came, gone)
<1>1. m.n \in Nat /\ Y.Nr \in Nat
  BY DEF Payload, SessionState
<1>2. CASE m.n < Y.Nr
  BY <1>2 DEF Settled
<1>3. CASE ~(m.n < Y.Nr)
  <2>1. m.n \in Y.Nr..(until - 1)
    BY <1>1, <1>3
  <2>2. <<Y.DHr, m.n>> \in Skips(Y, until)
    BY <2>1 DEF Skips
  <2> QED BY <2>2 DEF Settled
<1> QED BY <1>2, <1>3

\* The keys skipping sets aside are those of the messages.
KeptOrSkipped(Y, until, msgs, e) ==
  /\ \A m \in msgs : e.id = <<m.dh, m.n>> => e.mk = m.mk
  /\ \/ \E k \in 1..Len(Y.MKSKIPPED) : e = Y.MKSKIPPED[k]
     \/ e.id[1] = Y.DHr /\ e.id[2] \in Y.Nr..(until - 1)
LEMMA SkipKeys ==
  ASSUME NEW X, NEW Y \in SessionState, Shape(Y), NEW until \in Nat, NEW t, SkipsTo(Y, until, t),
         NEW held, NEW msgs \in SUBSET Payload, NEW came, NEW gone,
         Good(X, Y, held, msgs, came, gone), \A m \in msgs : m.mk.step = m.n,
         NEW i \in 1..Len(t.MKSKIPPED)
  PROVE  KeptOrSkipped(Y, until, msgs, t.MKSKIPPED[i])
<1>1. PICK e : e = t.MKSKIPPED[i]
  OBVIOUS
<1>2. CASE \E k \in 1..Len(Y.MKSKIPPED) : e = Y.MKSKIPPED[k]
  <2>1. \A m \in msgs : e.id = <<m.dh, m.n>> => e.mk = m.mk
    BY <1>2 DEF Good
  <2> QED BY <1>1, <1>2, <2>1 DEF KeptOrSkipped
<1>3. CASE Y.CKr # Absent /\ \E n \in Y.Nr..(until - 1) : e = SkippedKey(Y, n)
  <2>1. PICK n \in Y.Nr..(until - 1) : e = SkippedKey(Y, n)
    BY <1>3
  <2>2. e.id = <<Y.DHr, n>> /\ e.mk = [root |-> Y.CKr.root, step |-> n]
    BY <2>1 DEF SkippedKey
  <2>3. ASSUME NEW m \in msgs, e.id = <<m.dh, m.n>> PROVE e.mk = m.mk
    <3>1. m.dh = Y.DHr /\ m.n = n
      BY <2>2, <2>3
    <3>2. m.mk.root = Y.CKr.root /\ m.mk.step = n /\ m.mk \in ChainKey
      BY <3>1 DEF Good, Payload
    <3>3. m.mk = [root |-> m.mk.root, step |-> m.mk.step]
      BY <3>2 DEF ChainKey
    <3> QED BY <2>2, <3>2, <3>3
  <2>4. e.id[1] = Y.DHr /\ e.id[2] = n
    BY <2>2
  <2> QED BY <1>1, <2>3, <2>4 DEF KeptOrSkipped
<1>4. \/ \E k \in 1..Len(Y.MKSKIPPED) : e = Y.MKSKIPPED[k]
      \/ Y.CKr # Absent /\ \E n \in Y.Nr..(until - 1) : e = SkippedKey(Y, n)
  BY <1>1 DEF SkipsTo
<1> QED BY <1>2, <1>3, <1>4

\* The receiver opens m with the chain: it skips to it and takes the key.
LEMMA GoodOpened ==
  ASSUME NEW X \in SessionState, NEW Y \in SessionState, Shape(Y),
         NEW msgs \in SUBSET Payload, \A m \in msgs : m.mk.step = m.n /\ SealedOnChain(m, X),
         \A m, o \in msgs : m.dh = o.dh /\ m.n = o.n => m = o,
         NEW held, NEW came, NEW gone, Good(X, Y, held, msgs, came, gone),
         NEW m \in msgs, m.dh = Y.DHr, ~(m.n < Y.Nr),
         NEW t, SkipsTo(Y, m.n, t),
         NEW o, o.DHr = t.DHr, o.Nr = t.Nr + 1, o.MKSKIPPED = t.MKSKIPPED,
         o.CKr # Absent, o.CKr.root = t.CKr.root
  PROVE  t.CKr = m.mk /\ Good(X, o, held \cup Skips(Y, m.n), msgs, came \cup {m}, gone)
<1>1. Y.CKr # Absent /\ m.mk.root = Y.CKr.root /\ m.mk.step = m.n /\ m.mk \in ChainKey /\ m.n \in Nat
      /\ Y.Nr \in Nat /\ X.Ns \in Nat
  BY DEF Good, Payload, SessionState
<1>2. t.CKr # Absent /\ t.CKr.root = Y.CKr.root /\ t.Nr = m.n /\ t.DHr = Y.DHr /\ t \in SessionState
      /\ Shape(t)
  BY <1>1 DEF SkipsTo
<1>3. t.CKr = m.mk
  <2>1. t.CKr \in ChainKey /\ t.CKr.step = m.n
    BY <1>2 DEF Shape, SessionState
  <2>2. t.CKr = [root |-> t.CKr.root, step |-> t.CKr.step] /\ m.mk = [root |-> m.mk.root, step |-> m.mk.step]
    BY <1>1, <2>1 DEF ChainKey
  <2> QED BY <1>1, <1>2, <2>1, <2>2
<1>4. ASSUME NEW h, h = held \cup Skips(Y, m.n), NEW a, a = came \cup {m}
      PROVE  Good(X, o, h, msgs, a, gone)
  <2>1. ASSUME NEW l \in msgs, l.dh = o.DHr
        PROVE  /\ l.mk.root = o.CKr.root
               /\ l.n < o.Nr => Settled(l, h, a, gone)
               /\ o.DHr # X.DHs => l.n < X.PN
    <3>1. /\ l.dh = Y.DHr /\ l.mk.root = Y.CKr.root
          /\ l.n < Y.Nr => Settled(l, held, came, gone)
          /\ Y.DHr # X.DHs => l.n < X.PN
      BY <1>2, <2>1 DEF Good
    <3>2. l \in Payload /\ l.n \in Nat
      BY DEF Payload
    <3>3. ASSUME l.n < o.Nr PROVE Settled(l, h, a, gone)
      <4>1. CASE l.n < m.n
        <5>1. Settled(l, held \cup Skips(Y, m.n), came, gone)
          BY <1>1, <3>1, <3>2, <4>1, SkipSettles
        <5> QED BY <1>4, <5>1 DEF Settled
      <4>2. CASE l.n = m.n
        <5>1. l = m
          BY <3>1, <4>2
        <5> QED BY <1>4, <5>1 DEF Settled
      <4> QED BY <1>1, <1>2, <3>2, <3>3, <4>1, <4>2
    <3> QED BY <1>2, <3>1, <3>3
  <2>2. ASSUME NEW l \in msgs, l.dh # o.DHr, l.dh # X.DHs PROVE Settled(l, h, a, gone)
    <3>1. Settled(l, held, came, gone)
      BY <1>2, <2>2 DEF Good
    <3> QED BY <1>4, <3>1 DEF Settled
  <2>3. ASSUME NEW i \in 1..Len(o.MKSKIPPED)
        PROVE  /\ \A l \in msgs : o.MKSKIPPED[i].id = <<l.dh, l.n>> => o.MKSKIPPED[i].mk = l.mk
               /\ o.MKSKIPPED[i].id[1] = o.DHr => o.MKSKIPPED[i].id[2] < o.Nr
               /\ o.MKSKIPPED[i].id[1] = X.DHs => o.DHr = X.DHs
    <3>1. PICK e : e = t.MKSKIPPED[i] /\ e = o.MKSKIPPED[i]
      OBVIOUS
    <3>2. i \in 1..Len(t.MKSKIPPED)
      OBVIOUS
    <3>3. /\ \A l \in msgs : e.id = <<l.dh, l.n>> => e.mk = l.mk
          /\ \/ \E k \in 1..Len(Y.MKSKIPPED) : e = Y.MKSKIPPED[k]
             \/ e.id[1] = Y.DHr /\ e.id[2] \in Y.Nr..(m.n - 1)
      <4>1. KeptOrSkipped(Y, m.n, msgs, e)
        BY <1>1, <3>1, <3>2, SkipKeys
      <4> QED BY <4>1 DEF KeptOrSkipped
    <3>4. CASE \E k \in 1..Len(Y.MKSKIPPED) : e = Y.MKSKIPPED[k]
      <4>1. PICK k \in 1..Len(Y.MKSKIPPED) : e = Y.MKSKIPPED[k]
        BY <3>4
      <4>2. Y.MKSKIPPED[k] \in Entry
        BY DEF SessionState
      <4>3. e.id[2] \in Nat
        BY <4>1, <4>2 DEF Entry
      <4>4. (e.id[1] = Y.DHr => e.id[2] < Y.Nr) /\ (e.id[1] = X.DHs => Y.DHr = X.DHs)
        BY <4>1 DEF Good
      <4>5. e.id[1] = Y.DHr => e.id[2] < m.n + 1
        BY <1>1, <4>3, <4>4
      <4> QED BY <1>2, <3>1, <3>3, <4>4, <4>5
    <3>5. CASE e.id[1] = Y.DHr /\ e.id[2] \in Y.Nr..(m.n - 1)
      <4>1. e.id[2] < m.n + 1
        BY <1>1, <3>5
      <4> QED BY <1>2, <3>1, <3>3, <3>5, <4>1
    <3> QED BY <3>3, <3>4, <3>5
  <2>4. ASSUME o.DHr = X.DHs PROVE o.Nr <= X.Ns
    <3>1. m.n < X.Ns
      BY <1>2, <2>4 DEF SealedOnChain
    <3> QED BY <1>1, <1>2, <3>1
  <2> QED BY <2>1, <2>2, <2>3, <2>4 DEF Good
<1> QED BY <1>3, <1>4

\* The receiver turns to the key pair of the sender: it skips what the old
\* chain still owes, which PN counts.
LEMMA GoodTurned ==
  ASSUME NEW X \in SessionState, NEW Y \in SessionState, Shape(Y), X.RK = Append(Y.RK, {X.DHs, Y.DHs}),
         Y.DHr # X.DHs,
         NEW msgs \in SUBSET Payload, \A m \in msgs : m.mk.step = m.n /\ SealedOnChain(m, X),
         NEW held, NEW came, NEW gone, Good(X, Y, held, msgs, came, gone),
         NEW t, SkipsTo(Y, X.PN, t), NEW pair, NEW r, IsTurned(t, X.DHs, pair, r)
  PROVE  Good(X, r, held \cup Skips(Y, X.PN), msgs, came, gone)
<1>1. X.PN \in Nat /\ X.Ns \in Nat /\ Y.Nr \in Nat
  BY DEF SessionState
<1>2. /\ r.DHr = X.DHs /\ r.Nr = 0 /\ r.MKSKIPPED = t.MKSKIPPED
      /\ r.CKr = [root |-> Append(t.RK, {t.DHs, X.DHs}), step |-> 0] /\ t.RK = Y.RK /\ t.DHs = Y.DHs
      /\ r.CKr # Absent
  <2>1. X.DHs \in KeyPair /\ t \in SessionState
    BY DEF SkipsTo, SessionState
  <2>2. r.CKr # Absent
    BY <2>1, TurnShape
  <2> QED BY <2>2 DEF IsTurned, SkipsTo, SameSender
<1>3. r.CKr.root = X.RK
  <2>1. {Y.DHs, X.DHs} = {X.DHs, Y.DHs}
    OBVIOUS
  <2> QED BY <1>2, <2>1
<1>4. ASSUME NEW h, h = held \cup Skips(Y, X.PN) PROVE Good(X, r, h, msgs, came, gone)
  <2>1. ASSUME NEW l \in msgs, l.dh = r.DHr
        PROVE  r.CKr # Absent /\ l.mk.root = r.CKr.root /\ ~(l.n < r.Nr) /\ r.DHr = X.DHs
    <3>1. l.n \in Nat
      BY DEF Payload
    <3>2. l.mk.root = X.RK
      BY <1>2, <2>1 DEF SealedOnChain
    <3> QED BY <1>2, <1>3, <3>1, <3>2
  <2>2. ASSUME NEW l \in msgs, l.dh # r.DHr PROVE Settled(l, h, came, gone)
    <3>1. CASE l.dh = Y.DHr
      <4>1. Y.CKr # Absent /\ l.n < X.PN /\ (l.n < Y.Nr => Settled(l, held, came, gone))
        BY <3>1 DEF Good
      <4>2. l \in Payload
        OBVIOUS
      <4> QED BY <1>1, <1>4, <3>1, <4>1, <4>2, SkipSettles
    <3>2. CASE l.dh # Y.DHr
      <4>1. Settled(l, held, came, gone)
        BY <1>2, <2>2, <3>2 DEF Good
      <4> QED BY <1>4, <4>1 DEF Settled
    <3> QED BY <3>1, <3>2
  <2>3. ASSUME NEW i \in 1..Len(r.MKSKIPPED)
        PROVE  /\ \A l \in msgs : r.MKSKIPPED[i].id = <<l.dh, l.n>> => r.MKSKIPPED[i].mk = l.mk
               /\ r.MKSKIPPED[i].id[1] # X.DHs
    <3>1. PICK e : e = t.MKSKIPPED[i] /\ e = r.MKSKIPPED[i]
      BY <1>2
    <3>2. i \in 1..Len(t.MKSKIPPED)
      BY <1>2
    <3>3. /\ \A l \in msgs : e.id = <<l.dh, l.n>> => e.mk = l.mk
          /\ \/ \E k \in 1..Len(Y.MKSKIPPED) : e = Y.MKSKIPPED[k]
             \/ e.id[1] = Y.DHr /\ e.id[2] \in Y.Nr..(X.PN - 1)
      <4>1. KeptOrSkipped(Y, X.PN, msgs, e)
        BY <1>1, <3>1, <3>2, SkipKeys
      <4> QED BY <4>1 DEF KeptOrSkipped
    <3>4. e.id[1] # X.DHs
      BY <3>3 DEF Good
    <3> QED BY <3>1, <3>3, <3>4
  <2>4. r.Nr <= X.Ns
    BY <1>1, <1>2
  <2> QED BY <1>2, <2>1, <2>2, <2>3, <2>4 DEF Good
<1> QED BY <1>4
-----------------------------------------------------------------------------
\* What was sent stays sealed, whatever a call leaves its party with.
TakesUp(p, s) ==
  /\ s \in SessionState /\ Shape(s) /\ HearsOf(p, s)
  /\ s.DHs = Fresh(p) \/ SameSender(state[p], s)

LEMMA SkippedTakesUp ==
  ASSUME NEW p \in Parties, NEW r, TakesUp(p, r), NEW until \in Nat, NEW t, SkipsTo(r, until, t)
  PROVE  TakesUp(p, t)
<1>1. t \in SessionState /\ Shape(t) /\ SameSender(r, t) /\ t.DHr = r.DHr
  BY DEF SkipsTo
<1>2. t.DHs = Fresh(p) \/ SameSender(state[p], t)
  BY <1>1 DEF TakesUp, SameSender
<1>3. ASSUME NEW y \in Parties \ {p}, NEW i \in 1..Len(t.MKSKIPPED)
      PROVE  t.MKSKIPPED[i].id[1] \in Generated(y)
  <2>1. PICK e : e = t.MKSKIPPED[i]
    OBVIOUS
  <2>2. CASE \E k \in 1..Len(r.MKSKIPPED) : e = r.MKSKIPPED[k]
    BY <2>1, <2>2 DEF TakesUp, HearsOf
  <2>3. CASE r.CKr # Absent /\ \E n \in r.Nr..(until - 1) : e = SkippedKey(r, n)
    <3>1. e.id[1] = r.DHr /\ r.DHr # Absent
      BY <2>3 DEF SkippedKey, TakesUp, Shape
    <3> QED BY <2>1, <3>1 DEF TakesUp, HearsOf
  <2>4. \/ \E k \in 1..Len(r.MKSKIPPED) : e = r.MKSKIPPED[k]
        \/ r.CKr # Absent /\ \E n \in r.Nr..(until - 1) : e = SkippedKey(r, n)
    BY <2>1 DEF SkipsTo
  <2> QED BY <2>2, <2>3, <2>4
<1>4. HearsOf(p, t)
  BY <1>1, <1>3 DEF HearsOf, TakesUp
<1> QED BY <1>1, <1>2, <1>4 DEF TakesUp

LEMMA RatchetedTakesUp ==
  ASSUME RatchetTypes, WellSent, NEW p \in Parties, NEW m \in sent, m.from # p,
         NEW s, s = state[p], NEW r, r = Ratcheted(s, m, Fresh(p))
  PROVE  /\ TakesUp(p, r) /\ RatchetsTo(s, m, Fresh(p), r)
         /\ ~Changed(s, m) => r = s
<1>1. m \in Payload /\ s \in SessionState /\ Shape(s) /\ Fresh(p) \in KeyPair
  BY DEF RatchetTypes, WellSent, Fresh, KeyPair
<1>2. r \in SessionState /\ Shape(r) /\ RatchetsTo(s, m, Fresh(p), r)
  BY <1>1, RatchetingTo
<1>3. TakesUp(p, s)
  BY <1>1 DEF TakesUp, WellSent, SameSender
<1>4. CASE Changed(s, m)
  <2>1. PICK t \in SessionState : SkipsTo(s, m.pn, t) /\ IsTurned(t, m.dh, Fresh(p), r)
    BY <1>2, <1>4 DEF RatchetsTo
  <2>2. m.pn \in Nat /\ m.from \in Parties /\ m.dh \in Generated(m.from)
    BY <1>1 DEF Payload, WellSent
  <2>3. TakesUp(p, t)
    BY <1>3, <2>1, <2>2, SkippedTakesUp
  <2>4. r.DHr = m.dh /\ r.MKSKIPPED = t.MKSKIPPED /\ r.DHs = Fresh(p)
    BY <2>1 DEF IsTurned
  <2>5. \A y \in Parties \ {p} : y = m.from
    BY <2>2 DEF Parties
  <2>6. HearsOf(p, r)
    BY <2>2, <2>3, <2>4, <2>5 DEF HearsOf, TakesUp
  <2> QED BY <1>2, <1>4, <2>4, <2>6 DEF TakesUp
<1>5. CASE ~Changed(s, m)
  <2>1. r = s
    BY <1>2, <1>5 DEF RatchetsTo
  <2> QED BY <1>2, <1>3, <2>1
<1> QED BY <1>2, <1>4, <1>5

LEMMA OpenedTakesUp ==
  ASSUME NEW p \in Parties, NEW t, TakesUp(p, t), t.CKr # Absent, NEW o, o = Opened(t)
  PROVE  TakesUp(p, o)
<1>1. t \in SessionState /\ Shape(t) /\ HearsOf(p, t) /\ (t.DHs = Fresh(p) \/ SameSender(state[p], t))
  BY DEF TakesUp
<1>2. /\ o \in SessionState
      /\ o.DHs = t.DHs /\ o.DHr = t.DHr /\ o.RK = t.RK /\ o.CKs = t.CKs
      /\ o.Ns = t.Ns /\ o.PN = t.PN /\ o.Nr = t.Nr + 1 /\ o.MKSKIPPED = t.MKSKIPPED
      /\ o.CKr = [root |-> t.CKr.root, step |-> t.CKr.step + 1]
  BY <1>1, OpenedFacts
<1>3. Shape(o)
  BY <1>1, <1>2 DEF Shape
<1>4. HearsOf(p, o)
  BY <1>1, <1>2 DEF HearsOf
<1>5. o.DHs = Fresh(p) \/ SameSender(state[p], o)
  BY <1>1, <1>2 DEF SameSender
<1> QED BY <1>2, <1>3, <1>4, <1>5 DEF TakesUp

\* What is left when the key with an id is taken.
IsUsed(s, id, t) ==
  /\ t \in SessionState /\ SameSender(s, t) /\ t.DHr = s.DHr /\ t.CKr = s.CKr /\ t.Nr = s.Nr
  /\ \A i \in 1..Len(t.MKSKIPPED) :
       \E k \in 1..Len(s.MKSKIPPED) : t.MKSKIPPED[i] = s.MKSKIPPED[k]
  /\ Ids(s.MKSKIPPED) \subseteq Ids(t.MKSKIPPED) \cup {id}
  /\ Len(t.MKSKIPPED) <= Len(s.MKSKIPPED)

LEMMA UsedKeys ==
  ASSUME NEW s \in SessionState, NEW id, id \in Ids(s.MKSKIPPED),
         NEW t, t = [s EXCEPT !.MKSKIPPED = Used(s.MKSKIPPED, id)]
  PROVE  IsUsed(s, id, t)
<1>1. PICK old, after : old = s.MKSKIPPED /\ after = Without(s.MKSKIPPED, id)
  OBVIOUS
<1>2. /\ t \in SessionState /\ SameSender(s, t) /\ t.DHr = s.DHr /\ t.CKr = s.CKr /\ t.Nr = s.Nr
      /\ t.MKSKIPPED = after
  <2>1. t = [s EXCEPT !.MKSKIPPED = after]
    BY <1>1 DEF Used
  <2>2. /\ t.DHs = s.DHs /\ t.DHr = s.DHr /\ t.RK = s.RK /\ t.CKs = s.CKs /\ t.CKr = s.CKr
        /\ t.Ns = s.Ns /\ t.PN = s.PN /\ t.Nr = s.Nr /\ t.MKSKIPPED = after
    BY <2>1 DEF SessionState
  <2>3. t \in SessionState
    BY UsedFacts
  <2> QED BY <2>2, <2>3 DEF SameSender
<1>3. old \in Seq(Entry) /\ id \in Ids(old) /\ after = Without(old, id)
  BY <1>1 DEF SessionState
<1>4. PICK j \in 1..Len(old) : j = Place(old, id) /\ old[j].id = id
  BY <1>3, PlaceOfId
<1>5. /\ \A i \in 1..Len(after) :
           LET k == IF i < j THEN i ELSE i + 1
           IN  k \in 1..Len(old) /\ k # j /\ after[i] = old[k]
      /\ after \in Seq(Entry) /\ Len(after) = Len(old) - 1
  BY <1>3, <1>4, WithoutFacts
<1>6. \A i \in 1..Len(after) : \E k \in 1..Len(old) : after[i] = old[k]
  BY <1>5
<1>7. ASSUME NEW k \in 1..Len(old), k # j PROVE old[k].id \in Ids(after)
  <2>1. PICK i \in 1..Len(after) : after[i] = old[k]
    BY <1>3, <1>4, <1>7, WithoutFacts
  <2>2. DOMAIN after = 1..Len(after)
    BY <1>5
  <2> QED BY <2>1, <2>2 DEF Ids
<1>8. Ids(old) \subseteq Ids(after) \cup {id}
  <2>1. DOMAIN old = 1..Len(old)
    BY <1>3
  <2> QED BY <1>4, <1>7, <2>1 DEF Ids
<1>9. Len(t.MKSKIPPED) <= Len(s.MKSKIPPED)
  <2>1. Len(old) \in Nat
    BY <1>3
  <2> QED BY <1>1, <1>2, <1>5, <2>1
<1> QED BY <1>1, <1>2, <1>6, <1>8, <1>9 DEF IsUsed
LEMMA UsedTakesUp ==
  ASSUME RatchetTypes, WellSent, NEW p \in Parties, NEW s, s = state[p],
         NEW id, NEW t, IsUsed(s, id, t)
  PROVE  TakesUp(p, t)
<1>1. Shape(s) /\ HearsOf(p, s)
  BY DEF WellSent
<1>2. Shape(t)
  BY <1>1 DEF Shape, SameSender, IsUsed
<1>3. HearsOf(p, t)
  BY <1>1 DEF HearsOf, IsUsed
<1> QED BY <1>2, <1>3 DEF TakesUp, IsUsed

\* A call leaves p with s and sends nothing.
LEMMA WellSentLeaves ==
  ASSUME RatchetTypes, WellSent, NEW p \in Parties, NEW s, TakesUp(p, s), Leaves(p, s), sent' = sent
  PROVE  /\ WellSent'
         /\ \A y \in Parties \ {p} : state[y].DHr # Fresh(p)
              /\ \A i \in 1..Len(state[y].MKSKIPPED) : state[y].MKSKIPPED[i].id[1] # Fresh(p)
<1>1. /\ \A q \in Parties : pairs[q] \in Nat /\ pairs'[q] \in Nat /\ pairs'[q] >= pairs[q]
      /\ s.DHs = Fresh(p) => pairs'[p] = pairs[p] + 1
  BY DEF Leaves, RatchetTypes
<1>2. \A q \in Parties : state'[q] = IF q = p THEN s ELSE state[q]
  BY DEF Leaves, RatchetTypes
<1>3. \A q \in Parties : Generated(q) \subseteq Generated(q)'
  BY <1>1 DEF Generated
<1>4. Fresh(p) \notin Generated(p) /\ (s.DHs = Fresh(p) => Fresh(p) \in Generated(p)')
  BY <1>1 DEF Generated, Fresh
<1>5. Fresh(p) # Absent
  <2>1. Fresh(p) = <<p, pairs[p]>> /\ Len(Fresh(p)) = 2
    BY DEF Fresh
  <2> QED BY <2>1 DEF Absent
<1>6. ASSUME NEW x \in Parties
      PROVE  Shape(state'[x]) /\ state'[x].DHs \in Generated(x)'
  <2>1. CASE x = p
    <3>1. state'[x] = s
      BY <1>2, <2>1
    <3>2. SameSender(state[p], s) => s.DHs \in Generated(p)
      BY DEF SameSender, WellSent
    <3> QED BY <1>3, <1>4, <2>1, <3>1, <3>2 DEF TakesUp
  <2>2. CASE x # p
    BY <1>2, <1>3, <2>2 DEF WellSent
  <2> QED BY <2>1, <2>2
<1>7. ASSUME NEW x \in Parties, NEW y \in Parties \ {x}
      PROVE  /\ state'[x].DHr \in {Absent} \cup Generated(y)'
             /\ \A i \in 1..Len(state'[x].MKSKIPPED) : state'[x].MKSKIPPED[i].id[1] \in Generated(y)'
  <2>1. HearsOf(x, state'[x])
    BY <1>2 DEF TakesUp, WellSent
  <2> QED BY <1>3, <2>1 DEF HearsOf
<1>8. ASSUME NEW m \in sent
      PROVE  m.dh \in Generated(m.from)' /\ m.mk.step = m.n /\ SealedOnChain(m, state'[m.from])
  <2>1. m.dh \in Generated(m.from) /\ m.mk.step = m.n /\ SealedOnChain(m, state[m.from]) /\ m.from \in Parties
    BY DEF WellSent, RatchetTypes, Payload
  <2>2. m.dh \in Generated(m.from)'
    BY <1>3, <2>1
  <2>3. CASE m.from # p
    BY <1>2, <2>1, <2>2, <2>3
  <2>4. CASE m.from = p
    <3>1. state'[m.from] = s
      BY <1>2, <2>4
    <3>2. CASE s.DHs = Fresh(p)
      BY <1>4, <2>1, <2>2, <2>4, <3>1, <3>2 DEF SealedOnChain
    <3>3. CASE SameSender(state[p], s)
      BY <2>1, <2>2, <2>4, <3>1, <3>3 DEF SealedOnChain, SameSender
    <3> QED BY <3>2, <3>3 DEF TakesUp
  <2> QED BY <2>3, <2>4
<1>9. WellSent'
  <2>1. \A x \in Parties : HearsOf(x, state[x])'
    BY <1>7 DEF HearsOf
  <2>2. (\A m, o \in sent : m.dh = o.dh /\ m.n = o.n => m = o)'
    BY DEF WellSent
  <2>3. \A x \in Parties : Shape(state[x])' /\ (state[x].DHs \in Generated(x))'
    BY <1>6 DEF Shape
  <2>4. \A m \in sent' : (m.dh \in Generated(m.from))' /\ m.mk.step = m.n /\ SealedOnChain(m, state[m.from])'
    BY <1>8 DEF SealedOnChain
  <2> QED BY <2>1, <2>2, <2>3, <2>4 DEF WellSent
<1>10. ASSUME NEW y \in Parties \ {p}
       PROVE  /\ state[y].DHr # Fresh(p)
              /\ \A i \in 1..Len(state[y].MKSKIPPED) : state[y].MKSKIPPED[i].id[1] # Fresh(p)
  BY <1>4, <1>5 DEF WellSent, HearsOf
<1> QED BY <1>9, <1>10

LEMMA InitWellSent == RatchetInit => WellSent
<1> SUFFICES ASSUME RatchetInit PROVE WellSent
  OBVIOUS
<1>1. ASSUME NEW x \in Parties
      PROVE  Shape(state[x]) /\ state[x].DHs \in Generated(x) /\ HearsOf(x, state[x])
  <2>1. pairs[x] = 1 /\ sent = {} /\ 0..(1 - 1) = {0}
    BY DEF RatchetInit
  <2>2. Generated(alice) = {<<alice, 0>>} /\ Generated(bob) = {BobPair}
    BY PairFacts DEF Generated, BobPair, RatchetInit
  <2>3. CASE x = alice
    <3>1. state[x] = initAlice
      BY <2>3 DEF RatchetInit
    <3>2. \A y \in Parties \ {x} : y = bob
      BY <2>3 DEF Parties
    <3> QED BY <2>2, <2>3, <3>1, <3>2, InitStates DEF Shape, HearsOf
  <2>4. CASE x # alice
    <3>1. state[x] = initBob /\ x = bob
      BY <2>4 DEF RatchetInit, Parties
    <3> QED BY <2>2, <3>1, InitStates DEF Shape, HearsOf
  <2> QED BY <2>3, <2>4
<1> QED BY <1>1 DEF WellSent, RatchetInit
LEMMA EncryptWellSent ==
  ASSUME RatchetTypes, WellSent, NEW p \in Parties, NEW s, s = state[p],
         NEW t \in SessionState, NEW m \in Payload, Encrypts(p, s, m, t), pairs' = pairs
  PROVE  WellSent'
<1>1. /\ \A q \in Parties : state'[q] = IF q = p THEN t ELSE state[q]
      /\ sent' = sent \cup {m}
      /\ s.CKs # Absent /\ t.CKs = [root |-> s.CKs.root, step |-> s.CKs.step + 1] /\ t.Ns = s.Ns + 1
      /\ t.DHs = s.DHs /\ t.DHr = s.DHr /\ t.RK = s.RK /\ t.CKr = s.CKr
      /\ t.Nr = s.Nr /\ t.PN = s.PN /\ t.MKSKIPPED = s.MKSKIPPED
      /\ m.from = p /\ m.dh = s.DHs /\ m.pn = s.PN /\ m.n = s.Ns /\ m.mk = s.CKs
  BY DEF Encrypts, RatchetTypes
<1>2. Shape(s) /\ s.DHs \in Generated(p) /\ HearsOf(p, s) /\ s.Ns \in Nat
  BY DEF WellSent, RatchetTypes, SessionState
<1>3. s.CKs.root = s.RK /\ s.CKs.step = s.Ns
  BY <1>1, <1>2 DEF Shape
<1>4. t.CKs # Absent
  <2>1. t.CKs = Absent => t.CKs \notin ChainKey
    BY KeyIsThere
  <2>2. t.CKs \in ChainKey
    <3>1. s.CKs \in ChainKey
      BY <1>1 DEF RatchetTypes, SessionState
    <3> QED BY <1>1, <3>1 DEF ChainKey
  <2> QED BY <2>1, <2>2
<1>5. Shape(t) /\ HearsOf(p, t)
  <2>1. t.CKs = [root |-> t.RK, step |-> t.Ns]
    BY <1>1, <1>3
  <2> QED BY <1>1, <1>2, <2>1 DEF Shape, HearsOf
<1>6. \A x \in Parties : Shape(state'[x]) /\ state'[x].DHs \in Generated(x) /\ HearsOf(x, state'[x])
  BY <1>1, <1>2, <1>5 DEF WellSent
<1>7. ASSUME NEW o \in sent
      PROVE  /\ o.dh \in Generated(o.from) /\ o.mk.step = o.n /\ SealedOnChain(o, state'[o.from])
             /\ o.dh # m.dh \/ o.n # m.n
  <2>1. o.dh \in Generated(o.from) /\ o.mk.step = o.n /\ SealedOnChain(o, state[o.from])
        /\ o.from \in Parties /\ o.n \in Nat
    BY DEF WellSent, RatchetTypes, Payload
  <2>2. CASE o.from = p
    <3>1. o.dh = s.DHs => o.n < s.Ns /\ o.n # s.Ns /\ o.n < s.Ns + 1 /\ o.mk.root = s.RK /\ o.pn = s.PN
      BY <1>2, <2>1, <2>2 DEF SealedOnChain
    <3> QED BY <1>1, <1>4, <2>1, <2>2, <3>1 DEF SealedOnChain
  <2>3. CASE o.from # p
    <3>1. o.dh # m.dh
      BY <1>1, <1>2, <2>1, <2>3 DEF Generated
    <3> QED BY <1>1, <2>1, <2>3, <3>1
  <2> QED BY <2>2, <2>3
<1>8. m.dh \in Generated(m.from) /\ m.mk.step = m.n /\ SealedOnChain(m, state'[m.from])
  BY <1>1, <1>2, <1>3, <1>4 DEF SealedOnChain
<1>9. \A l, o \in sent' : l.dh = o.dh /\ l.n = o.n => l = o
  BY <1>1, <1>7 DEF WellSent
<1>10. \A x : Generated(x)' = Generated(x)
  BY DEF Generated
<1>11. \A o \in sent' : o.dh \in Generated(o.from)' /\ o.mk.step = o.n /\ SealedOnChain(o, state'[o.from])
  BY <1>1, <1>7, <1>8, <1>10
<1>12. \A x \in Parties : /\ Shape(state[x])' /\ (state[x].DHs \in Generated(x))'
                          /\ HearsOf(x, state[x])'
  BY <1>6, <1>10 DEF Shape, HearsOf
<1>13. (\A o \in sent : o.dh \in Generated(o.from) /\ o.mk.step = o.n /\ SealedOnChain(o, state[o.from]))'
  BY <1>11 DEF SealedOnChain
<1> QED BY <1>9, <1>12, <1>13 DEF WellSent

LEMMA EncryptTogether ==
  ASSUME RatchetTypes, WellSent, LateTogether, NEW p \in Parties, NEW s, s = state[p],
         NEW t \in SessionState, NEW m \in Payload, Encrypts(p, s, m, t),
         UNCHANGED <<read, refused, pruned>>
  PROVE  LateTogether'
<1>1. /\ \A q \in Parties : state'[q] = IF q = p THEN t ELSE state[q]
      /\ sent' = sent \cup {m}
      /\ s.CKs # Absent /\ t.CKs = [root |-> s.CKs.root, step |-> s.CKs.step + 1] /\ t.Ns = s.Ns + 1
      /\ t.DHs = s.DHs /\ t.DHr = s.DHr /\ t.RK = s.RK /\ t.CKr = s.CKr
      /\ t.Nr = s.Nr /\ t.PN = s.PN /\ t.MKSKIPPED = s.MKSKIPPED
      /\ m.from = p /\ m.dh = s.DHs /\ m.pn = s.PN /\ m.n = s.Ns /\ m.mk = s.CKs
  BY DEF Encrypts, RatchetTypes
<1>2. t.CKs # Absent
  <2>1. t.CKs \in ChainKey
    <3>1. s.CKs \in ChainKey
      BY <1>1 DEF RatchetTypes, SessionState
    <3> QED BY <1>1, <3>1 DEF ChainKey
  <2> QED BY <2>1, KeyIsThere
<1>3. alice \in Parties /\ bob \in Parties /\ alice # bob /\ Parties = {alice, bob}
  BY RatchetAssumption DEF Parties
<1>4. \A q : (Ahead(s, q) => Ahead(t, q)) /\ (Ahead(q, s) => Ahead(q, t))
  BY <1>1, <1>2 DEF Ahead
<1>5. Ahead(state'[alice], state'[bob]) \/ Ahead(state'[bob], state'[alice])
  BY <1>1, <1>3, <1>4 DEF LateTogether
<1>6. Arrived' = Arrived
  BY DEF Arrived
<1>7. ASSUME NEW x \in Parties, NEW y \in Parties, x # y
      PROVE  Good(state'[x], state'[y], Ids(state'[y].MKSKIPPED), From(x)', Arrived, pruned)
  <2>1. Good(state[x], state[y], Ids(state[y].MKSKIPPED), From(x), Arrived, pruned)
    BY <1>7 DEF LateTogether
  <2>2. CASE x = p
    <3>1. From(x)' = From(x) \cup {m}
      BY <1>1, <2>2 DEF From
    <3>2. state'[x] = t /\ state'[y] = state[y] /\ state[x] = s
      BY <1>1, <1>7, <2>2
    <3>3. s \in SessionState /\ state[y] \in SessionState /\ Shape(s)
      BY DEF RatchetTypes, WellSent
    <3>4. Ahead(s, state[y]) \/ Ahead(state[y], s)
      BY <1>3, <1>7, <2>2 DEF LateTogether
    <3>5. Good(t, state[y], Ids(state[y].MKSKIPPED), From(x) \cup {m}, Arrived, pruned)
      BY <1>1, <2>1, <3>2, <3>3, <3>4, GoodEncrypt
    <3> QED BY <3>1, <3>2, <3>5
  <2>3. CASE x # p
    <3>1. From(x)' = From(x) /\ y = p
      BY <1>1, <1>3, <1>7, <2>3 DEF From
    <3>2. state'[y] = t /\ state'[x] = state[x] /\ state[y] = s
      BY <1>1, <2>3, <3>1
    <3>3. Good(state[x], t, Ids(s.MKSKIPPED), From(x), Arrived, pruned)
      BY <1>1, <2>1, <3>2, GoodFewer
    <3> QED BY <1>1, <3>1, <3>2, <3>3
  <2> QED BY <2>2, <2>3
<1>8. (\A x, y \in Parties : x # y =>
         Good(state[x], state[y], Ids(state[y].MKSKIPPED), From(x), Arrived, pruned))'
  BY <1>6, <1>7
<1>9. (Ahead(state[alice], state[bob]) \/ Ahead(state[bob], state[alice]))'
  BY <1>5 DEF Ahead
<1>10. (\A r \in refused : r.why = "far")'
  BY DEF LateTogether
<1> QED BY <1>8, <1>9, <1>10 DEF LateTogether
-----------------------------------------------------------------------------
\* A delivery: to a receiver Y that has not settled m, of sender X.
Owes(Y, m) == IF Changed(Y, m) THEN Skips(Y, m.pn) ELSE {}

LEMMA AheadSame ==
  ASSUME NEW X, NEW Y, NEW Y2, SameSender(Y, Y2), Y2.DHr = Y.DHr,
         Y.CKr # Absent => Y2.CKr # Absent /\ Y2.CKr.root = Y.CKr.root
  PROVE  (Ahead(X, Y) => Ahead(X, Y2)) /\ (Ahead(Y, X) => Ahead(Y2, X))
BY DEF Ahead, SameSender

LEMMA KeptOrGivenUp ==
  ASSUME NEW ids, NEW s, Len(s.MKSKIPPED) < MAX_SKIPPED_KEYS => ids \subseteq Ids(s.MKSKIPPED)
  PROVE  ids \subseteq Ids(s.MKSKIPPED) \cup GivenUp(ids, s)
BY DEF GivenUp

\* How far the call has come when it turns to the chain of m, in state r.
Comes(X, Y, m, pair, held, msgs, came, gone, r) ==
  /\ m.dh = r.DHr /\ ~(m.n < r.Nr)
  /\ Good(X, r, held, msgs, came, gone)
  /\ Ahead(X, r) \/ Ahead(r, X)
  /\ Changed(Y, m) => X.DHr = Y.DHs /\ r.PN = Y.Ns /\ r.DHs = pair
  /\ ~Changed(Y, m) => r = Y

LEMMA RatchetedTogether ==
  ASSUME NEW X \in SessionState, NEW Y \in SessionState, Shape(Y), Ahead(X, Y) \/ Ahead(Y, X),
         NEW msgs \in SUBSET Payload, \A m \in msgs : m.mk.step = m.n /\ SealedOnChain(m, X),
         NEW held, NEW came, NEW gone, Good(X, Y, held, msgs, came, gone),
         NEW m \in msgs, ~Settled(m, held, came, gone),
         NEW pair, X.DHr # pair, NEW r, RatchetsTo(Y, m, pair, r)
  PROVE  Comes(X, Y, m, pair, held \cup Owes(Y, m), msgs, came, gone, r)
<1>1. m.n \in Nat /\ m \in Payload
  BY DEF Payload
<1>2. CASE Changed(Y, m)
  <2>1. PICK t \in SessionState : SkipsTo(Y, m.pn, t) /\ IsTurned(t, m.dh, pair, r)
    BY <1>2 DEF RatchetsTo
  <2>2. m.dh = X.DHs /\ Y.DHr # X.DHs
    BY <1>2 DEF Good, Changed
  <2>3. Ahead(X, Y)
    BY <2>2 DEF Ahead
  <2>4. X.RK = Append(Y.RK, {X.DHs, Y.DHs}) /\ X.DHr = Y.DHs /\ X.CKs # Absent
    BY <2>3 DEF Ahead
  <2>5. m.pn = X.PN
    BY <2>2 DEF SealedOnChain
  <2>6. Good(X, r, held \cup Skips(Y, X.PN), msgs, came, gone)
    <3>1. SkipsTo(Y, X.PN, t) /\ IsTurned(t, X.DHs, pair, r)
      BY <2>1, <2>2, <2>5
    <3> QED BY <2>2, <2>4, <3>1, GoodTurned
  <2>7. /\ r.DHr = m.dh /\ r.Nr = 0 /\ r.PN = t.Ns /\ r.DHs = pair
        /\ r.RK = Append(Append(t.RK, {t.DHs, m.dh}), {pair, m.dh})
        /\ r.CKr = [root |-> Append(t.RK, {t.DHs, m.dh}), step |-> 0]
        /\ r.CKr # Absent /\ r.CKs # Absent
    <3>1. m.dh \in KeyPair
      BY <1>1 DEF Payload
    <3>2. r.CKr # Absent /\ r.CKs # Absent
      BY <2>1, <3>1, TurnShape
    <3> QED BY <2>1, <3>2 DEF IsTurned
  <2>8. t.RK = Y.RK /\ t.DHs = Y.DHs /\ t.Ns = Y.Ns
    BY <2>1 DEF SkipsTo, SameSender
  <2>9. Ahead(r, X)
    <3>1. Append(t.RK, {t.DHs, m.dh}) = X.RK
      <4>1. {t.DHs, m.dh} = {X.DHs, Y.DHs}
        BY <2>2, <2>8
      <4> QED BY <2>4, <2>8, <4>1
    <3>2. r.RK = Append(X.RK, {r.DHs, X.DHs}) /\ r.CKr.root = X.RK
      <4>1. r.RK = Append(X.RK, {pair, m.dh}) /\ r.CKr.root = X.RK
        <5>1. PICK rk : rk = Append(t.RK, {t.DHs, m.dh})
          OBVIOUS
        <5>2. r.RK = Append(rk, {pair, m.dh}) /\ r.CKr = [root |-> rk, step |-> 0]
          BY <2>7, <5>1
        <5>3. rk = X.RK
          BY <3>1, <5>1
        <5> QED BY <5>2, <5>3
      <4>2. {pair, m.dh} = {r.DHs, X.DHs}
        BY <2>2, <2>7
      <4> QED BY <4>1, <4>2
    <3> QED BY <2>2, <2>7, <3>2 DEF Ahead
  <2> QED BY <1>1, <1>2, <2>2, <2>4, <2>5, <2>6, <2>7, <2>8, <2>9 DEF Owes, Comes
<1>3. CASE ~Changed(Y, m)
  <2>1. r = Y /\ m.dh = Y.DHr
    BY <1>3 DEF RatchetsTo, Changed
  <2>2. ~(m.n < Y.Nr)
    BY <2>1 DEF Good
  <2>3. Owes(Y, m) = {} /\ held \cup {} = held
    BY <1>3 DEF Owes
  <2> QED BY <1>3, <2>1, <2>2, <2>3 DEF Comes
<1> QED BY <1>2, <1>3

\* Where a call leaves both sides together.
LEMMA TogetherLeaves ==
  ASSUME RatchetTypes, NEW p \in Parties, NEW q \in Parties, p # q,
         NEW s, NEW a, NEW g, state' = [state EXCEPT ![p] = s], sent' = sent,
         Arrived' = a, pruned' = g, Arrived \subseteq a, pruned \subseteq g,
         \A r \in refused' : r.why = "far",
         Ahead(s, state[q]) \/ Ahead(state[q], s),
         Good(state[q], s, Ids(s.MKSKIPPED), From(q), a, g),
         Good(s, state[q], Ids(state[q].MKSKIPPED), From(p), Arrived, pruned)
  PROVE  LateTogether'
<1>1. state'[p] = s /\ state'[q] = state[q]
  BY DEF RatchetTypes
<1>2. alice \in Parties /\ bob \in Parties /\ alice # bob /\ Parties = {alice, bob}
  BY RatchetAssumption DEF Parties
<1>3. \A x : From(x)' = From(x)
  BY DEF From
<1>4. Good(s, state[q], Ids(state[q].MKSKIPPED), From(p), a, g)
  <2>1. \A m \in From(p) : Settled(m, Ids(state[q].MKSKIPPED), Arrived, pruned)
                             => Settled(m, Ids(state[q].MKSKIPPED), a, g)
    BY DEF Settled
  <2> QED BY <2>1, GoodMore
<1>5. \A x, y \in Parties : x # y =>
        Good(state'[x], state'[y], Ids(state'[y].MKSKIPPED), From(x)', a, g)
  <2> SUFFICES ASSUME NEW x \in Parties, NEW y \in Parties, x # y
               PROVE  Good(state'[x], state'[y], Ids(state'[y].MKSKIPPED), From(x)', a, g)
    OBVIOUS
  <2>1. (x = p /\ y = q) \/ (x = q /\ y = p)
    BY <1>2
  <2>2. CASE x = p /\ y = q
    BY <1>1, <1>3, <1>4, <2>2
  <2>3. CASE x = q /\ y = p
    BY <1>1, <1>3, <2>3
  <2> QED BY <2>1, <2>2, <2>3
<1>6. (\A x, y \in Parties : x # y =>
         Good(state[x], state[y], Ids(state[y].MKSKIPPED), From(x), Arrived, pruned))'
  BY <1>5
<1>7. Ahead(state'[alice], state'[bob]) \/ Ahead(state'[bob], state'[alice])
  BY <1>1, <1>2
<1>8. (Ahead(state[alice], state[bob]) \/ Ahead(state[bob], state[alice]))'
  BY <1>7
<1>9. (\A r \in refused : r.why = "far")'
  OBVIOUS
<1> QED BY <1>6, <1>8, <1>9 DEF LateTogether
LEMMA RatchetedKeeps ==
  ASSUME NEW Y \in SessionState, NEW m, NEW pair, NEW r \in SessionState, RatchetsTo(Y, m, pair, r)
  PROVE  Len(r.MKSKIPPED) < MAX_SKIPPED_KEYS => Ids(Y.MKSKIPPED) \cup Owes(Y, m) \subseteq Ids(r.MKSKIPPED)
<1>1. Len(r.MKSKIPPED) \in Nat /\ MAX_SKIPPED_KEYS \in Nat
  BY RatchetAssumption DEF SessionState
<1>2. CASE Changed(Y, m)
  <2>1. PICK t \in SessionState : SkipsTo(Y, m.pn, t) /\ IsTurned(t, m.dh, pair, r)
    BY <1>2 DEF RatchetsTo
  <2>2. r.MKSKIPPED = t.MKSKIPPED
    BY <2>1 DEF IsTurned
  <2>3. \/ Len(t.MKSKIPPED) >= MAX_SKIPPED_KEYS
        \/ Ids(t.MKSKIPPED) = Ids(Y.MKSKIPPED) \cup Skips(Y, m.pn)
    BY <2>1 DEF SkipsTo
  <2> QED BY <1>1, <1>2, <2>2, <2>3 DEF Owes
<1>3. CASE ~Changed(Y, m)
  BY <1>3 DEF RatchetsTo, Owes
<1> QED BY <1>2, <1>3

\* What the other side holds of what p sent, when p leaves its state r.
LEMMA SentStaysGood ==
  ASSUME NEW X, NEW Y \in SessionState, NEW m,
         NEW held, NEW msgs, NEW came, NEW gone, Good(Y, X, held, msgs, came, gone),
         \A o \in msgs : SealedOnChain(o, Y),
         NEW pair, X.DHr # pair, \A i \in 1..Len(X.MKSKIPPED) : X.MKSKIPPED[i].id[1] # pair,
         NEW r, Changed(Y, m) => X.DHr = Y.DHs /\ r.PN = Y.Ns /\ r.DHs = pair,
         ~Changed(Y, m) => r = Y
  PROVE  Good(r, X, held, msgs, came, gone)
<1>1. CASE Changed(Y, m)
  BY <1>1, GoodSenderTurns
<1>2. CASE ~Changed(Y, m)
  BY <1>2
<1> QED BY <1>1, <1>2

\* A first delivery to a session that is intact after it.
LEMMA DeliveryFacts ==
  ASSUME RatchetTypes, replays \in Nat, NEW p \in Parties, NEW m \in sent, ratchetDecrypt(p, m), Intact'
  PROVE  /\ Intact /\ m \notin Arrived /\ Arrived' = Arrived \cup {m} /\ pruned \subseteq pruned'
         /\ <<m.dh, m.n>> \notin pruned' /\ sent' = sent
<1>1. m \notin Arrived /\ replays' = replays /\ replays = 0
  BY DEF ratchetDecrypt, Intact
<1>2. /\ sent' = sent
      /\ \/ read' = read \cup {m} /\ refused' = refused
         \/ \E why : read' = read /\ refused' = refused \cup {[message |-> m, why |-> why]}
      /\ pruned \subseteq pruned'
  BY <1>1 DEF ratchetDecrypt, DecryptSkipped, DecryptChain, DecryptTooFar, Answers, Reads, Throws
<1>3. Arrived' = Arrived \cup {m}
  <2>1. CASE read' = read \cup {m} /\ refused' = refused
    BY <2>1 DEF Arrived
  <2>2. ASSUME NEW why, read' = read, refused' = refused \cup {[message |-> m, why |-> why]}
        PROVE  Arrived' = Arrived \cup {m}
    <3>1. PICK new : new = [message |-> m, why |-> why]
      OBVIOUS
    <3>2. new.message = m /\ refused' = refused \cup {new}
      BY <2>2, <3>1
    <3> QED BY <2>2, <3>2 DEF Arrived
  <2> QED BY <1>2, <2>1, <2>2
<1>4. <<m.dh, m.n>> \notin pruned'
  BY <1>3 DEF Intact
<1>5. Intact
  BY <1>1, <1>2, <1>3 DEF Intact
<1> QED BY <1>1, <1>2, <1>3, <1>4, <1>5

LEMMA BothSides ==
  ASSUME LateTogether, NEW p \in Parties, NEW q \in Parties, p # q
  PROVE  /\ Good(state[q], state[p], Ids(state[p].MKSKIPPED), From(q), Arrived, pruned)
         /\ Good(state[p], state[q], Ids(state[q].MKSKIPPED), From(p), Arrived, pruned)
         /\ Ahead(state[q], state[p]) \/ Ahead(state[p], state[q])
<1>1. (p = alice /\ q = bob) \/ (p = bob /\ q = alice)
  BY DEF Parties
<1>2. Ahead(state[q], state[p]) \/ Ahead(state[p], state[q])
  BY <1>1 DEF LateTogether
<1> QED BY <1>2 DEF LateTogether

LEMMA SkippedTogether ==
  ASSUME RatchetTypes, WellSent, LateTogether, NEW p \in Parties, NEW m \in sent, m.from # p,
         DecryptSkipped(p, m), Arrived' = Arrived \cup {m}, sent' = sent
  PROVE  LateTogether' /\ WellSent'
<1>1. PICK q \in Parties : q = m.from /\ p # q
  BY DEF RatchetTypes, Payload
<1>2. PICK Y, X : Y = state[p] /\ X = state[q]
  OBVIOUS
<1>3. /\ Y \in SessionState /\ Good(X, Y, Ids(Y.MKSKIPPED), From(q), Arrived, pruned)
      /\ Good(Y, X, Ids(X.MKSKIPPED), From(p), Arrived, pruned)
      /\ Ahead(X, Y) \/ Ahead(Y, X)
      /\ m \in From(q)
  <2>1. Y \in SessionState /\ m \in From(q)
    BY <1>1, <1>2 DEF RatchetTypes, From
  <2> QED BY <1>1, <1>2, <2>1, BothSides
<1>4. PICK id : id = <<m.dh, m.n>>
  OBVIOUS
<1>5. PICK t, key : t = [Y EXCEPT !.MKSKIPPED = Used(Y.MKSKIPPED, id)] /\ key = KeyOf(Y.MKSKIPPED, id)
  OBVIOUS
<1>6. id \in Ids(Y.MKSKIPPED) /\ Leaves(p, t) /\ Answers(m, key) /\ pruned' = pruned
  BY <1>2, <1>4, <1>5 DEF DecryptSkipped
<1>7. IsUsed(Y, id, t)
  BY <1>3, <1>5, <1>6, UsedKeys
<1>8. WellSent'
  <2>1. TakesUp(p, t)
    BY <1>2, <1>7, UsedTakesUp
  <2> QED BY <1>6, <2>1, WellSentLeaves
<1>9. key = m.mk
  <2>1. PICK kept : kept = Y.MKSKIPPED
    OBVIOUS
  <2>2. PICK j \in 1..Len(kept) : j = Place(kept, id) /\ kept[j].id = id
    <3>1. kept \in Seq(Entry)
      BY <1>3, <2>1 DEF SessionState
    <3> QED BY <1>6, <2>1, <3>1, PlaceOfId
  <2>3. key = kept[j].mk
    BY <1>5, <2>1, <2>2 DEF KeyOf
  <2> QED BY <1>3, <1>4, <2>1, <2>2, <2>3 DEF Good
<1>10. refused' = refused
  BY <1>6, <1>9 DEF Answers, Reads
<1>11. Good(X, t, Ids(t.MKSKIPPED), From(q), Arrived \cup {m}, pruned)
  <2>1. Good(X, t, Ids(Y.MKSKIPPED), From(q), Arrived, pruned)
    BY <1>3, <1>7, GoodFewer DEF IsUsed
  <2>2. ASSUME NEW o \in From(q), Settled(o, Ids(Y.MKSKIPPED), Arrived, pruned)
        PROVE  Settled(o, Ids(t.MKSKIPPED), Arrived \cup {m}, pruned)
    <3>1. CASE <<o.dh, o.n>> = id
      <4>1. o = m
        BY <1>4, <3>1 DEF WellSent, From
      <4> QED BY <4>1 DEF Settled
    <3>2. CASE <<o.dh, o.n>> # id
      BY <1>7, <2>2, <3>2 DEF Settled, IsUsed
    <3> QED BY <3>1, <3>2
  <2> QED BY <2>1, <2>2, GoodMore
<1>12. Good(t, X, Ids(X.MKSKIPPED), From(p), Arrived, pruned)
  <2>1. t.DHs = Y.DHs /\ t.PN = Y.PN /\ t.Ns = Y.Ns
    BY <1>7 DEF SameSender, IsUsed
  <2> QED BY <1>3, <2>1, GoodFewer
<1>13. Ahead(t, X) \/ Ahead(X, t)
  BY <1>3, <1>7, AheadSame DEF IsUsed
<1>14. LateTogether'
  <2>1. state' = [state EXCEPT ![p] = t] /\ \A r \in refused' : r.why = "far"
    BY <1>6, <1>10 DEF Leaves, LateTogether
  <2>2. PICK a : a = Arrived \cup {m}
    OBVIOUS
  <2>3. Arrived' = a /\ Arrived \subseteq a /\ Good(state[q], t, Ids(t.MKSKIPPED), From(q), a, pruned)
    BY <1>2, <1>11, <2>2
  <2>4. /\ Good(t, state[q], Ids(state[q].MKSKIPPED), From(p), Arrived, pruned)
        /\ Ahead(t, state[q]) \/ Ahead(state[q], t)
    BY <1>2, <1>12, <1>13
  <2> QED BY <1>1, <1>6, <2>1, <2>3, <2>4, TogetherLeaves
<1> QED BY <1>8, <1>14
\* The remote key changed, or not, and the message is the next of its chain or
\* further on: what both sides have when the call has come so far.
LEMMA ComesToChain ==
  ASSUME RatchetTypes, WellSent, LateTogether, NEW p \in Parties, NEW m \in sent, NEW q \in Parties,
         q = m.from, p # q, m \notin Arrived, <<m.dh, m.n>> \notin pruned,
         <<m.dh, m.n>> \notin Ids(state[p].MKSKIPPED),
         NEW s, TakesUp(p, s), Leaves(p, s), sent' = sent,
         NEW r, r = Ratcheted(state[p], m, Fresh(p))
  PROVE  /\ r \in SessionState /\ Shape(r) /\ m.dh = r.DHr /\ ~(m.n < r.Nr)
         /\ Good(state[q], r, SkippedBy(p, m), From(q), Arrived, pruned)
         /\ Good(r, state[q], Ids(state[q].MKSKIPPED), From(p), Arrived, pruned)
         /\ Ahead(state[q], r) \/ Ahead(r, state[q])
         /\ Len(r.MKSKIPPED) < MAX_SKIPPED_KEYS => SkippedBy(p, m) \subseteq Ids(r.MKSKIPPED)
<1>1. PICK Y, X, pair : Y = state[p] /\ X = state[q] /\ pair = Fresh(p)
  OBVIOUS
<1>2. /\ Y \in SessionState /\ X \in SessionState /\ Shape(Y)
      /\ Good(X, Y, Ids(Y.MKSKIPPED), From(q), Arrived, pruned)
      /\ Good(Y, X, Ids(X.MKSKIPPED), From(p), Arrived, pruned)
      /\ Ahead(X, Y) \/ Ahead(Y, X)
  <2>1. Y \in SessionState /\ X \in SessionState /\ Shape(Y)
    BY <1>1 DEF RatchetTypes, WellSent
  <2> QED BY <1>1, <2>1, BothSides
<1>3. /\ X.DHr # pair /\ \A i \in 1..Len(X.MKSKIPPED) : X.MKSKIPPED[i].id[1] # pair
  BY <1>1, WellSentLeaves
<1>4. TakesUp(p, r) /\ RatchetsTo(Y, m, pair, r)
  BY <1>1, RatchetedTakesUp
<1>5. r \in SessionState /\ Shape(r)
  BY <1>4 DEF TakesUp
<1>6. /\ m \in From(q) /\ From(q) \in SUBSET Payload /\ \A o \in From(p) : SealedOnChain(o, Y)
      /\ \A o \in From(q) : o.mk.step = o.n /\ SealedOnChain(o, X)
  BY <1>1 DEF From, RatchetTypes, WellSent
<1>7. ~Settled(m, Ids(Y.MKSKIPPED), Arrived, pruned)
  BY <1>1 DEF Settled
<1>8. SkippedBy(p, m) = Ids(Y.MKSKIPPED) \cup Owes(Y, m)
  BY <1>1 DEF SkippedBy, Owes
<1>9. Comes(X, Y, m, pair, Ids(Y.MKSKIPPED) \cup Owes(Y, m), From(q), Arrived, pruned, r)
  <2>1. PICK msgs, held : msgs = From(q) /\ held = Ids(Y.MKSKIPPED)
    OBVIOUS
  <2>2. /\ msgs \in SUBSET Payload /\ m \in msgs /\ \A o \in msgs : o.mk.step = o.n /\ SealedOnChain(o, X)
        /\ Good(X, Y, held, msgs, Arrived, pruned) /\ ~Settled(m, held, Arrived, pruned)
    BY <1>2, <1>6, <1>7, <2>1
  <2> QED BY <1>2, <1>3, <1>4, <2>1, <2>2, RatchetedTogether
<1>10. Good(r, X, Ids(X.MKSKIPPED), From(p), Arrived, pruned)
  BY <1>2, <1>3, <1>6, <1>9, SentStaysGood DEF Comes
<1>11. Len(r.MKSKIPPED) < MAX_SKIPPED_KEYS => SkippedBy(p, m) \subseteq Ids(r.MKSKIPPED)
  BY <1>2, <1>4, <1>5, <1>8, RatchetedKeeps
<1> QED BY <1>1, <1>5, <1>8, <1>9, <1>10, <1>11 DEF Comes
LEMMA ChainTogether ==
  ASSUME RatchetTypes, WellSent, LateTogether, NEW p \in Parties, NEW m \in sent, m.from # p,
         DecryptChain(p, m), m \notin Arrived, Arrived' = Arrived \cup {m},
         <<m.dh, m.n>> \notin pruned', pruned \subseteq pruned', sent' = sent
  PROVE  LateTogether'
<1>1. PICK q \in Parties : q = m.from /\ p # q
  BY DEF RatchetTypes, Payload
<1>2. PICK r : r = Ratcheted(state[p], m, Fresh(p))
  OBVIOUS
<1>3. PICK k : k = skipMessageKeys(r, m.n)
  OBVIOUS
<1>4. <<m.dh, m.n>> \notin Ids(state[p].MKSKIPPED) /\ <<m.dh, m.n>> \notin pruned /\ m.n \in Nat
  BY DEF DecryptChain, RatchetTypes, Payload
<1>5. TakesUp(p, r)
  BY <1>2, RatchetedTakesUp
<1>6. PICK a, g : a = Arrived \cup {m} /\ g = pruned'
  OBVIOUS
<1>7. CASE ~MaySkip(r, m.n) \/ k.CKr = Absent
  <2>1. Leaves(p, r) /\ Throws(m, "far") /\ pruned' = pruned \cup GivenUp(SkippedBy(p, m), r)
    BY <1>2, <1>3, <1>7 DEF DecryptChain
  <2>2. /\ Good(state[q], r, SkippedBy(p, m), From(q), Arrived, pruned)
        /\ Good(r, state[q], Ids(state[q].MKSKIPPED), From(p), Arrived, pruned)
        /\ Ahead(state[q], r) \/ Ahead(r, state[q])
        /\ Len(r.MKSKIPPED) < MAX_SKIPPED_KEYS => SkippedBy(p, m) \subseteq Ids(r.MKSKIPPED)
    BY <1>1, <1>2, <1>4, <1>5, <2>1, ComesToChain
  <2>3. SkippedBy(p, m) \subseteq Ids(r.MKSKIPPED) \cup GivenUp(SkippedBy(p, m), r)
    BY <2>2, KeptOrGivenUp
  <2>4. Good(state[q], r, Ids(r.MKSKIPPED), From(q), a, g)
    <3>1. \A o \in From(q) : Settled(o, SkippedBy(p, m), Arrived, pruned)
                               => Settled(o, Ids(r.MKSKIPPED), a, g)
      BY <1>6, <2>1, <2>3 DEF Settled
    <3> QED BY <2>2, <3>1, GoodMore
  <2>5. /\ state' = [state EXCEPT ![p] = r] /\ Arrived' = a /\ pruned' = g
        /\ Arrived \subseteq a /\ pruned \subseteq g
    BY <1>6, <2>1 DEF Leaves
  <2>6. \A e \in refused' : e.why = "far"
    <3>1. refused' = refused \cup {[message |-> m, why |-> "far"]} \/ refused' = refused
      BY <2>1 DEF Throws
    <3> QED BY <3>1 DEF LateTogether
  <2> QED BY <1>1, <2>2, <2>4, <2>5, <2>6, TogetherLeaves
<1>8. CASE ~(~MaySkip(r, m.n) \/ k.CKr = Absent)
  <2>1. PICK o : o = Opened(k)
    OBVIOUS
  <2>2. PICK all : all = SkippedBy(p, m) \cup Skips(r, m.n)
    OBVIOUS
  <2>3. Leaves(p, o) /\ Answers(m, k.CKr) /\ pruned' = pruned \cup GivenUp(all, k)
    BY <1>2, <1>3, <1>8, <2>1, <2>2 DEF DecryptChain
  <2>4. r \in SessionState /\ Shape(r)
    BY <1>5 DEF TakesUp
  <2>5. SkipsTo(r, m.n, k)
    BY <1>3, <1>4, <2>4, SkippingTo
  <2>6. TakesUp(p, o)
    <3>1. TakesUp(p, k)
      BY <1>4, <1>5, <2>5, SkippedTakesUp
    <3> QED BY <1>8, <2>1, <3>1, OpenedTakesUp
  <2>7. /\ m.dh = r.DHr /\ ~(m.n < r.Nr)
        /\ Good(state[q], r, SkippedBy(p, m), From(q), Arrived, pruned)
        /\ Good(r, state[q], Ids(state[q].MKSKIPPED), From(p), Arrived, pruned)
        /\ Ahead(state[q], r) \/ Ahead(r, state[q])
        /\ Len(r.MKSKIPPED) < MAX_SKIPPED_KEYS => SkippedBy(p, m) \subseteq Ids(r.MKSKIPPED)
    BY <1>1, <1>2, <1>4, <2>3, <2>6, ComesToChain
  <2>8. k \in SessionState /\ SameSender(r, k) /\ k.DHr = r.DHr
        /\ (r.CKr # Absent => k.CKr # Absent /\ k.CKr.root = r.CKr.root)
    BY <2>5 DEF SkipsTo
  <2>9. /\ o.DHs = k.DHs /\ o.DHr = k.DHr /\ o.RK = k.RK /\ o.CKs = k.CKs
        /\ o.Ns = k.Ns /\ o.PN = k.PN /\ o.Nr = k.Nr + 1 /\ o.MKSKIPPED = k.MKSKIPPED
        /\ o.CKr = [root |-> k.CKr.root, step |-> k.CKr.step + 1]
    BY <1>8, <2>1, <2>8, OpenedFacts
  <2>10. o.CKr # Absent /\ o.CKr.root = k.CKr.root
    <3>1. k.CKr \in ChainKey
      BY <1>8, <2>8 DEF SessionState
    <3>2. o.CKr \in ChainKey
      BY <2>9, <3>1 DEF ChainKey
    <3> QED BY <2>9, <3>2, KeyIsThere
  <2>11. k.CKr = m.mk /\ Good(state[q], o, all, From(q), a, pruned)
    <3>1. PICK X, msgs, held : X = state[q] /\ msgs = From(q) /\ held = SkippedBy(p, m)
      OBVIOUS
    <3>2. /\ X \in SessionState /\ msgs \in SUBSET Payload /\ m \in msgs
          /\ \A l \in msgs : l.mk.step = l.n /\ SealedOnChain(l, X)
          /\ \A l, n \in msgs : l.dh = n.dh /\ l.n = n.n => l = n
      BY <1>1, <3>1 DEF From, RatchetTypes, WellSent
    <3>3. Good(X, r, held, msgs, Arrived, pruned)
      BY <2>7, <3>1
    <3>4. k.CKr = m.mk /\ Good(X, o, held \cup Skips(r, m.n), msgs, Arrived \cup {m}, pruned)
      BY <2>4, <2>5, <2>7, <2>9, <2>10, <3>2, <3>3, GoodOpened
    <3> QED BY <1>6, <2>2, <3>1, <3>4
  <2>12. Good(o, state[q], Ids(state[q].MKSKIPPED), From(p), Arrived, pruned)
    <3>1. o.DHs = r.DHs /\ o.PN = r.PN /\ o.Ns = r.Ns
      BY <2>8, <2>9 DEF SameSender
    <3> QED BY <2>7, <3>1, GoodFewer
  <2>13. Ahead(state[q], o) \/ Ahead(o, state[q])
    <3>1. SameSender(r, o) /\ o.DHr = r.DHr
      BY <2>8, <2>9 DEF SameSender
    <3> QED BY <2>7, <2>8, <2>10, <3>1, AheadSame
  <2>14. all \subseteq Ids(k.MKSKIPPED) \cup GivenUp(all, k)
    <3>1. Len(k.MKSKIPPED) < MAX_SKIPPED_KEYS => all \subseteq Ids(k.MKSKIPPED)
      <4>1. Len(r.MKSKIPPED) \in Nat /\ Len(k.MKSKIPPED) \in Nat /\ MAX_SKIPPED_KEYS \in Nat
        BY <2>4, <2>8, RatchetAssumption DEF SessionState
      <4>2. /\ \/ Len(k.MKSKIPPED) >= MAX_SKIPPED_KEYS
               \/ Ids(k.MKSKIPPED) = Ids(r.MKSKIPPED) \cup Skips(r, m.n)
            /\ Len(r.MKSKIPPED) >= MAX_SKIPPED_KEYS => Len(k.MKSKIPPED) >= MAX_SKIPPED_KEYS
        BY <2>5 DEF SkipsTo
      <4> QED BY <2>2, <2>7, <4>1, <4>2
    <3> QED BY <3>1, KeptOrGivenUp
  <2>15. Good(state[q], o, Ids(o.MKSKIPPED), From(q), a, g)
    <3>1. \A l \in From(q) : Settled(l, all, a, pruned) => Settled(l, Ids(o.MKSKIPPED), a, g)
      BY <1>6, <2>3, <2>9, <2>14 DEF Settled
    <3> QED BY <2>11, <3>1, GoodMore
  <2>16. /\ state' = [state EXCEPT ![p] = o] /\ Arrived' = a /\ pruned' = g
         /\ Arrived \subseteq a /\ pruned \subseteq g
    BY <1>6, <2>3 DEF Leaves
  <2>17. \A e \in refused' : e.why = "far"
    <3>1. refused' = refused
      BY <2>3, <2>11 DEF Answers, Reads
    <3> QED BY <3>1 DEF LateTogether
  <2> QED BY <1>1, <2>12, <2>13, <2>15, <2>16, <2>17, TogetherLeaves
<1> QED BY <1>7, <1>8

\* The chain call in any state leaves what was sent sealed.
LEMMA ChainWellSent ==
  ASSUME RatchetTypes, WellSent, NEW p \in Parties, NEW m \in sent, m.from # p,
         DecryptChain(p, m), sent' = sent
  PROVE  WellSent'
<1>1. PICK r : r = Ratcheted(state[p], m, Fresh(p))
  OBVIOUS
<1>2. PICK k : k = skipMessageKeys(r, m.n)
  OBVIOUS
<1>3. TakesUp(p, r) /\ m.n \in Nat
  BY <1>1, RatchetedTakesUp DEF RatchetTypes, Payload
<1>4. CASE ~MaySkip(r, m.n) \/ k.CKr = Absent
  <2>1. Leaves(p, r)
    BY <1>1, <1>2, <1>4 DEF DecryptChain
  <2> QED BY <1>3, <2>1, WellSentLeaves
<1>5. CASE ~(~MaySkip(r, m.n) \/ k.CKr = Absent)
  <2>1. PICK o : o = Opened(k)
    OBVIOUS
  <2>2. Leaves(p, o)
    BY <1>1, <1>2, <1>5, <2>1 DEF DecryptChain
  <2>3. SkipsTo(r, m.n, k)
    BY <1>2, <1>3, SkippingTo DEF TakesUp
  <2>4. TakesUp(p, k)
    BY <1>3, <2>3, SkippedTakesUp
  <2>5. TakesUp(p, o)
    BY <1>5, <2>1, <2>4, OpenedTakesUp
  <2> QED BY <2>2, <2>5, WellSentLeaves
<1> QED BY <1>4, <1>5
LEMMA InitTogether == RatchetInit => LateTogether
<1> SUFFICES ASSUME RatchetInit PROVE LateTogether
  OBVIOUS
<1>1. PICK A, B : A = initAlice /\ B = initBob
  OBVIOUS
<1>2. state[alice] = A /\ state[bob] = B /\ Parties = {alice, bob} /\ alice # bob
  BY <1>1, PairFacts DEF RatchetInit, Parties
<1>3. /\ A.RK = <<{<<alice, 0>>, BobPair}>> /\ A.CKr = Absent /\ A.DHs = <<alice, 0>>
      /\ A.CKs = [root |-> A.RK, step |-> 0] /\ A \in SessionState
      /\ A.DHr = BobPair /\ A.MKSKIPPED = <<>> /\ A.Nr = 0
      /\ B.RK = <<>> /\ B.CKr = Absent /\ B.CKs = Absent
      /\ B.DHs = BobPair /\ B.DHr = Absent /\ B.MKSKIPPED = <<>> /\ B.Nr = 0
  BY <1>1, InitStates
<1>4. Ahead(A, B)
  <2>1. A.RK = Append(B.RK, {A.DHs, B.DHs})
    BY <1>3
  <2>2. A.CKs # Absent
    <3>1. A.CKs \in ChainKey
      <4>1. A.RK \in Seq(SUBSET KeyPair)
        BY <1>3 DEF SessionState
      <4> QED BY <1>3, <4>1 DEF ChainKey
    <3> QED BY <3>1, KeyIsThere
  <2>3. B.DHr # A.DHs
    <3>1. Len(<<alice, 0>>) = 2 /\ Len(<<>>) = 0
      OBVIOUS
    <3> QED BY <1>3, <3>1 DEF Absent
  <2> QED BY <1>3, <2>1, <2>2, <2>3 DEF Ahead
<1>5. ASSUME NEW x \in Parties, NEW y \in Parties, x # y
      PROVE  Good(state[x], state[y], Ids(state[y].MKSKIPPED), From(x), Arrived, pruned)
  <2>1. From(x) = {}
    BY DEF From, RatchetInit
  <2>2. state[y].MKSKIPPED = <<>> /\ state[y].CKr = Absent
    BY <1>2, <1>3
  <2> QED BY <2>1, <2>2 DEF Good
<1> QED BY <1>2, <1>4, <1>5 DEF LateTogether, RatchetInit

LEMMA LateStep == LateInv /\ [RatchetNext]_ratchetVars => LateInv'
<1> SUFFICES ASSUME LateInv, [RatchetNext]_ratchetVars PROVE LateInv'
  OBVIOUS
<1>0. ReadInv /\ RatchetTypes /\ replays \in Nat /\ WellSent /\ (Intact => LateTogether)
  BY DEF LateInv, ReadInv
<1>1. ReadInv'
  BY <1>0, ReadStep
<1>2. replays' \in Nat
  <2>1. replays' = replays \/ replays' = replays + 1
    <3>1. ASSUME NEW p \in Parties, ratchetEncrypt(p) PROVE replays' = replays
      BY <3>1 DEF ratchetEncrypt
    <3>2. ASSUME NEW p \in Parties, NEW m \in sent, ratchetDecrypt(p, m)
          PROVE  replays' = replays \/ replays' = replays + 1
      BY <3>2 DEF ratchetDecrypt
    <3>3. CASE UNCHANGED ratchetVars
      BY <3>3 DEF ratchetVars
    <3> QED BY <3>1, <3>2, <3>3 DEF RatchetNext
  <2> QED BY <1>0, <2>1
<1>3. ASSUME NEW p \in Parties, ratchetEncrypt(p) PROVE LateInv'
  <2>1. PICK s : s = state[p]
    OBVIOUS
  <2>2. PICK t \in SessionState, m \in Payload : Encrypts(p, s, m, t)
    BY <1>0, <1>3, <2>1, EncryptTypes
  <2>3. UNCHANGED <<pairs, read, refused, pruned, replays>>
    BY <1>3 DEF ratchetEncrypt
  <2>4. WellSent'
    BY <1>0, <2>1, <2>2, <2>3, EncryptWellSent
  <2>5. Intact' => Intact
    BY <2>3 DEF Intact, Arrived
  <2>6. Intact => LateTogether'
    BY <1>0, <2>1, <2>2, <2>3, EncryptTogether
  <2> QED BY <1>1, <1>2, <2>4, <2>5, <2>6 DEF LateInv
<1>4. ASSUME NEW p \in Parties, NEW m \in sent, ratchetDecrypt(p, m) PROVE LateInv'
  <2>1. m.from # p /\ sent' = sent /\ (DecryptSkipped(p, m) \/ DecryptChain(p, m) \/ DecryptTooFar(p, m))
    BY <1>4 DEF ratchetDecrypt
  <2>2. Intact' => /\ Intact /\ m \notin Arrived /\ Arrived' = Arrived \cup {m} /\ pruned \subseteq pruned'
                   /\ <<m.dh, m.n>> \notin pruned'
    BY <1>0, <1>4, DeliveryFacts
  <2>3. CASE DecryptSkipped(p, m)
    <3>1. WellSent'
      <4>1. PICK s, id : s = state[p] /\ id = <<m.dh, m.n>>
        OBVIOUS
      <4>2. PICK t : t = [s EXCEPT !.MKSKIPPED = Used(s.MKSKIPPED, id)]
        OBVIOUS
      <4>3. id \in Ids(s.MKSKIPPED) /\ Leaves(p, t) /\ s \in SessionState
        BY <1>0, <2>3, <4>1, <4>2 DEF DecryptSkipped, RatchetTypes
      <4>4. IsUsed(s, id, t)
        BY <4>2, <4>3, UsedKeys
      <4>5. TakesUp(p, t)
        BY <1>0, <4>1, <4>4, UsedTakesUp
      <4> QED BY <1>0, <2>1, <4>3, <4>5, WellSentLeaves
    <3>2. Intact' => LateTogether'
      BY <1>0, <2>1, <2>2, <2>3, SkippedTogether
    <3> QED BY <1>1, <1>2, <3>1, <3>2 DEF LateInv
  <2>4. CASE DecryptChain(p, m)
    <3>1. WellSent'
      BY <1>0, <2>1, <2>4, ChainWellSent
    <3>2. Intact' => LateTogether'
      BY <1>0, <2>1, <2>2, <2>4, ChainTogether
    <3> QED BY <1>1, <1>2, <3>1, <3>2 DEF LateInv
  <2>5. CASE DecryptTooFar(p, m)
    <3>1. UNCHANGED <<state, pairs, pruned, sent>> /\ Throws(m, "far")
      BY <2>1, <2>5 DEF DecryptTooFar
    <3>2. WellSent'
      BY <1>0, <3>1 DEF WellSent, Generated, HearsOf, Shape, SealedOnChain
    <3>3. Intact' => LateTogether'
      <4> SUFFICES ASSUME Intact' PROVE LateTogether'
        OBVIOUS
      <4>1. LateTogether /\ Arrived' = Arrived \cup {m}
        BY <1>0, <2>2
      <4>2. PICK q \in Parties : q = m.from /\ p # q
        BY <1>0, <2>1 DEF RatchetTypes, Payload
      <4>3. PICK s, a : s = state[p] /\ a = Arrived \cup {m}
        OBVIOUS
      <4>4. /\ Good(state[q], s, Ids(s.MKSKIPPED), From(q), Arrived, pruned)
            /\ Good(s, state[q], Ids(state[q].MKSKIPPED), From(p), Arrived, pruned)
            /\ Ahead(s, state[q]) \/ Ahead(state[q], s)
        BY <4>1, <4>2, <4>3, BothSides
      <4>5. Good(state[q], s, Ids(s.MKSKIPPED), From(q), a, pruned)
        <5>1. \A o \in From(q) : Settled(o, Ids(s.MKSKIPPED), Arrived, pruned)
                                   => Settled(o, Ids(s.MKSKIPPED), a, pruned)
          BY <4>3 DEF Settled
        <5> QED BY <4>4, <5>1, GoodMore
      <4>6. /\ state' = [state EXCEPT ![p] = s] /\ Arrived' = a /\ Arrived \subseteq a
            /\ \A r \in refused' : r.why = "far"
        BY <1>0, <3>1, <4>1, <4>3 DEF Throws, LateTogether, RatchetTypes
      <4> QED BY <1>0, <3>1, <4>2, <4>4, <4>5, <4>6, TogetherLeaves
    <3> QED BY <1>1, <1>2, <3>2, <3>3 DEF LateInv
  <2> QED BY <2>1, <2>3, <2>4, <2>5
<1>5. CASE UNCHANGED ratchetVars
  <2>1. UNCHANGED <<state, pairs, sent, read, refused, pruned, replays>>
    BY <1>5 DEF ratchetVars
  <2>2. WellSent'
    BY <1>0, <2>1 DEF WellSent, Generated, HearsOf, Shape, SealedOnChain
  <2>3. (Intact' => Intact) /\ (LateTogether => LateTogether')
    BY <2>1 DEF Intact, Arrived, LateTogether, From
  <2> QED BY <1>0, <1>1, <1>2, <2>2, <2>3 DEF LateInv
<1> QED BY <1>3, <1>4, <1>5 DEF RatchetNext

\* A message that comes late, or after others were lost, opens: as long as
\* nothing was replayed and no key was given up for the limit, a call throws
\* only for a message too far ahead (skipMessageKeys, MAX_SKIP), and the two
\* sides mix the same secrets into the root key in the same order, one at most
\* one secret ahead of the other.
THEOREM LateOnesOpen == RatchetSpec => []LateIsReadable
<1>1. RatchetInit => LateInv
  BY InitReadInv, InitWellSent, InitTogether DEF LateInv, RatchetInit
<1>2. LateInv => LateIsReadable
  <2> SUFFICES ASSUME LateInv, Intact PROVE LateIsReadable
    BY DEF LateIsReadable
  <2>1. LateTogether /\ RatchetTypes
    BY DEF LateInv, ReadInv
  <2>2. ASSUME NEW a \in Seq(SUBSET KeyPair), NEW secret \in SUBSET KeyPair, NEW b, b = Append(a, secret)
        PROVE  IsPrefix(a, b)
    <3>1. Len(a) <= Len(b) /\ \A i \in 1..Len(a) : a[i] = b[i]
      BY <2>2
    <3>2. SubSeq(b, 1, Len(a)) = a
      BY <2>2
    <3> QED BY <3>1, <3>2 DEF IsPrefix
  <2>3. ASSUME NEW p \in Parties, NEW q \in Parties, Ahead(state[p], state[q])
        PROVE  IsPrefix(state[q].RK, state[p].RK)
    <3>1. PICK a, secret, b : a = state[q].RK /\ secret = {state[p].DHs, state[q].DHs} /\ b = state[p].RK
      OBVIOUS
    <3>2. a \in Seq(SUBSET KeyPair) /\ secret \in SUBSET KeyPair
      BY <2>1, <3>1 DEF RatchetTypes, SessionState
    <3>3. b = Append(a, secret)
      BY <2>3, <3>1 DEF Ahead
    <3> QED BY <2>2, <3>1, <3>2, <3>3
  <2>4. alice \in Parties /\ bob \in Parties
    BY DEF Parties
  <2> QED BY <2>1, <2>3, <2>4 DEF LateIsReadable, LateTogether
<1> QED BY <1>1, <1>2, LateStep, PTL DEF RatchetSpec

\* The limits of the code and of the model: no call leaves more than
\* MAX_SKIPPED_KEYS keys set aside, however many messages it skips
\* (pruneSkippedKeys), with the types of the rest.
WithinLimits == replays \in 0..MaxReplays /\ \A p \in Parties : Len(state[p].MKSKIPPED) <= MAX_SKIPPED_KEYS

LEMMA LimitsLeave ==
  ASSUME RatchetTypes, WithinLimits, NEW p \in Parties, NEW s, Leaves(p, s),
         Len(s.MKSKIPPED) <= MAX_SKIPPED_KEYS, replays' \in 0..MaxReplays
  PROVE  WithinLimits'
<1>1. \A q \in Parties : state'[q] = IF q = p THEN s ELSE state[q]
  BY DEF Leaves, RatchetTypes
<1>2. \A q \in Parties : Len(state'[q].MKSKIPPED) <= MAX_SKIPPED_KEYS
  BY <1>1 DEF WithinLimits
<1> QED BY <1>2 DEF WithinLimits

LEMMA LimitsStep == LateInv /\ WithinLimits /\ [RatchetNext]_ratchetVars => WithinLimits'
<1> SUFFICES ASSUME LateInv, WithinLimits, [RatchetNext]_ratchetVars PROVE WithinLimits'
  OBVIOUS
<1>0. RatchetTypes /\ WellSent /\ replays \in Nat /\ replays \in 0..MaxReplays /\ MaxReplays \in Nat
  BY RatchetAssumption DEF LateInv, ReadInv, WithinLimits
<1>1. ASSUME NEW p \in Parties, ratchetEncrypt(p) PROVE WithinLimits'
  <2>1. PICK t \in SessionState, m \in Payload : Encrypts(p, state[p], m, t)
    BY <1>0, <1>1, EncryptTypes
  <2>2. \A q \in Parties : state'[q].MKSKIPPED = state[q].MKSKIPPED
    BY <1>0, <2>1 DEF Encrypts, RatchetTypes
  <2>3. replays' = replays
    BY <1>1 DEF ratchetEncrypt
  <2>4. \A q \in Parties : Len(state'[q].MKSKIPPED) <= MAX_SKIPPED_KEYS
    BY <2>2 DEF WithinLimits
  <2> QED BY <1>0, <2>3, <2>4 DEF WithinLimits
<1>2. ASSUME NEW p \in Parties, NEW m \in sent, ratchetDecrypt(p, m) PROVE WithinLimits'
  <2>1. replays' \in 0..MaxReplays
    BY <1>0, <1>2 DEF ratchetDecrypt
  <2>2. PICK s : s = state[p]
    OBVIOUS
  <2>3. s \in SessionState /\ Shape(s) /\ Len(s.MKSKIPPED) <= MAX_SKIPPED_KEYS /\ m.from # p
        /\ m \in Payload /\ m.pn \in Nat /\ m.n \in Nat
    BY <1>0, <1>2, <2>2 DEF RatchetTypes, WellSent, WithinLimits, ratchetDecrypt, Payload
  <2>4. CASE DecryptSkipped(p, m)
    <3>1. PICK id : id = <<m.dh, m.n>>
      OBVIOUS
    <3>2. PICK t : t = [s EXCEPT !.MKSKIPPED = Used(s.MKSKIPPED, id)]
      OBVIOUS
    <3>3. id \in Ids(s.MKSKIPPED) /\ Leaves(p, t)
      BY <2>2, <2>4, <3>1, <3>2 DEF DecryptSkipped
    <3>4. IsUsed(s, id, t)
      BY <2>3, <3>2, <3>3, UsedKeys
    <3>5. Len(t.MKSKIPPED) <= Len(s.MKSKIPPED) /\ Len(t.MKSKIPPED) \in Nat /\ Len(s.MKSKIPPED) \in Nat
      BY <2>3, <3>4 DEF IsUsed, SessionState
    <3>6. Len(t.MKSKIPPED) <= MAX_SKIPPED_KEYS
      BY <2>3, <3>5, RatchetAssumption
    <3> QED BY <1>0, <2>1, <3>3, <3>6, LimitsLeave
  <2>5. CASE DecryptChain(p, m)
    <3>1. PICK r : r = Ratcheted(s, m, Fresh(p))
      OBVIOUS
    <3>2. PICK k : k = skipMessageKeys(r, m.n)
      OBVIOUS
    <3>3. TakesUp(p, r) /\ RatchetsTo(s, m, Fresh(p), r)
      BY <1>0, <2>2, <2>3, <3>1, RatchetedTakesUp
    <3>4. Len(r.MKSKIPPED) <= MAX_SKIPPED_KEYS
      <4>1. CASE Changed(s, m)
        <5>1. PICK t \in SessionState : SkipsTo(s, m.pn, t) /\ IsTurned(t, m.dh, Fresh(p), r)
          BY <3>3, <4>1 DEF RatchetsTo
        <5> QED BY <2>3, <5>1 DEF SkipsTo, IsTurned
      <4>2. CASE ~Changed(s, m)
        BY <2>3, <3>3, <4>2 DEF RatchetsTo
      <4> QED BY <4>1, <4>2
    <3>5. SkipsTo(r, m.n, k)
      BY <2>3, <3>2, <3>3, SkippingTo DEF TakesUp
    <3>6. Len(k.MKSKIPPED) <= MAX_SKIPPED_KEYS /\ k \in SessionState
      BY <3>4, <3>5 DEF SkipsTo
    <3>7. CASE ~MaySkip(r, m.n) \/ k.CKr = Absent
      <4>1. Leaves(p, r)
        BY <2>2, <2>5, <3>1, <3>2, <3>7 DEF DecryptChain
      <4> QED BY <1>0, <2>1, <3>4, <4>1, LimitsLeave
    <3>8. CASE ~(~MaySkip(r, m.n) \/ k.CKr = Absent)
      <4>1. PICK o : o = Opened(k)
        OBVIOUS
      <4>2. Leaves(p, o)
        BY <2>2, <2>5, <3>1, <3>2, <3>8, <4>1 DEF DecryptChain
      <4>3. o.MKSKIPPED = k.MKSKIPPED
        BY <3>6, <3>8, <4>1, OpenedFacts
      <4> QED BY <1>0, <2>1, <3>6, <4>2, <4>3, LimitsLeave
    <3> QED BY <3>7, <3>8
  <2>6. CASE DecryptTooFar(p, m)
    BY <2>1, <2>6 DEF DecryptTooFar, WithinLimits
  <2> QED BY <1>2, <2>4, <2>5, <2>6 DEF ratchetDecrypt
<1>3. CASE UNCHANGED ratchetVars
  BY <1>3 DEF ratchetVars, WithinLimits
<1> QED BY <1>1, <1>2, <1>3 DEF RatchetNext

\* The type invariant of the ratchet, with its limit on the keys set aside.
THEOREM RatchetTypeCorrect == RatchetSpec => []RatchetTypeOK
<1>1. RatchetInit => LateInv /\ WithinLimits
  <2> SUFFICES ASSUME RatchetInit PROVE LateInv /\ WithinLimits
    OBVIOUS
  <2>1. LateInv
    BY InitReadInv, InitWellSent, InitTogether DEF LateInv, RatchetInit
  <2>2. \A p \in Parties : Len(state[p].MKSKIPPED) = 0
    BY InitStates DEF RatchetInit
  <2>3. replays = 0 /\ MaxReplays \in Nat /\ MAX_SKIPPED_KEYS \in Nat
    BY RatchetAssumption DEF RatchetInit
  <2>4. WithinLimits
    BY <2>2, <2>3 DEF WithinLimits
  <2> QED BY <2>1, <2>4
<1>2. LateInv /\ WithinLimits => RatchetTypeOK
  <2> SUFFICES ASSUME LateInv, WithinLimits PROVE RatchetTypeOK
    OBVIOUS
  <2>1. RatchetTypes /\ twice = {}
    BY DEF LateInv, ReadInv
  <2>2. ASSUME NEW p \in Parties
        PROVE  /\ state[p].Ns \in Nat /\ state[p].Nr \in Nat /\ state[p].PN \in Nat
               /\ KeySteps(state[p].CKs) /\ KeySteps(state[p].CKr)
               /\ Len(state[p].MKSKIPPED) <= MAX_SKIPPED_KEYS
    <3>1. \A ck \in {Absent} \cup ChainKey : KeySteps(ck)
      BY DEF KeySteps, ChainKey, KeyPair
    <3>2. state[p] \in SessionState
      BY <2>1 DEF RatchetTypes
    <3> QED BY <3>1, <3>2 DEF SessionState, WithinLimits
  <2> QED BY <2>1, <2>2 DEF RatchetTypeOK, RatchetTypes, WithinLimits
<1>3. LateInv /\ WithinLimits /\ [RatchetNext]_ratchetVars => LateInv' /\ WithinLimits'
  BY LateStep, LimitsStep
<1> QED BY <1>1, <1>2, <1>3, PTL DEF RatchetSpec
=============================================================================
