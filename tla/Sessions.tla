------------------------------- MODULE Sessions -------------------------------
(***************************************************************************)
(* How the web client decides to encrypt to a peer's devices, and under    *)
(* what: the pinned device set (lib/identityTrust.ts), the send with its   *)
(* one retry (lib/crypto.ts), and the two implementations behind           *)
(* SessionCrypto (lib/session.ts): the sealed box, and the Signal sessions *)
(* of lib/signalClient.ts, lib/signalSession.ts and lib/x3dh.ts.           *)
(*                                                                         *)
(* Sends overlap: every await of one lets another run.  The peer links,    *)
(* relinks and revokes devices meanwhile.  The peer's devices stand for    *)
(* all the devices of a send; a user's own siblings are pinned and keyed   *)
(* the same way.                                                           *)
(***************************************************************************)
EXTENDS Integers

CONSTANTS
  Devices,         \* ids of the peer's devices
  Sends,           \* sends of this client (sendEncryptedMessage)
  Phases,          \* {"sealed", "signal"}: what defaultSession may be
  MaxChanges,      \* bound: changes of the peer's device set
  MaxBundles       \* bound: prekey bundles handed out

ASSUME SessionsAssumption ==
  /\ Phases \subseteq {"sealed", "signal"}
  /\ MaxChanges \in Nat /\ MaxBundles \in Nat

None == <<>>           \* null
Nobody == {}           \* no snapshot: a live set is never empty

VARIABLES
  phase,           \* the SessionCrypto in use
  reported,        \* device set the server reports: device -> identity key, 0 when absent
  changes,         \* changes of it so far, which also number the identity keys
  oneTime,         \* one-time prekeys left on the server, per device
  pin,             \* trusted snapshot: a set of <<device, key>>, or Nobody
  sessions,        \* Signal session of each device, or None
  bundles,         \* bundles handed out, which number the sessions
  call,            \* the sends in progress
  posted,          \* envelopes that left the client
  used             \* every ratchet step taken: <<session, number, send>>

vars == <<phase, reported, changes, oneTime, pin, sessions, bundles,
          call, posted, used>>

Live == {<<d, reported[d]>> : d \in {d \in Devices : reported[d] # 0}}
DevicesOf(set) == {e[1] : e \in set}
KeyIn(set, d) == (CHOOSE e \in set : e[1] = d)[2]

NoCall == [pc |-> "idle", devices |-> {}, task |-> [d \in Devices |-> "none"],
           made |-> {}, tries |-> 0]

Init ==
  /\ phase \in Phases
  /\ reported \in [Devices -> {0, 1}] /\ \E d \in Devices : reported[d] = 1
  /\ changes = 1
  /\ oneTime \in [Devices -> {0, 1}]
  /\ pin = Nobody
  /\ sessions = [d \in Devices |-> None]
  /\ bundles = 0
  /\ call = [s \in Sends |-> NoCall]
  /\ posted = {} /\ used = {}

------------------------------------------------------------------------------
(* The peer.                                                               *)

(* The peer links a device, relinks it under a new identity key, or        *)
(* revokes it; a relinked device publishes fresh prekeys.                  *)
Change(d) ==
  /\ changes <= MaxChanges
  /\ changes' = changes + 1
  /\ \E k \in {0, changes + 1} :
       /\ reported' = [reported EXCEPT ![d] = k]
       /\ oneTime' = [oneTime EXCEPT ![d] = IF k = 0 THEN 0 ELSE 1]
  /\ UNCHANGED <<phase, pin, sessions, bundles, call, posted, used>>

------------------------------------------------------------------------------
(* Trust.                                                                  *)

(* Devices whose entry differs between the pin and the live set.           *)
ChangedDevices(trusted, live) ==
  {d \in DevicesOf(live) : <<d, KeyIn(live, d)>> \notin trusted}
    \cup (DevicesOf(trusted) \ DevicesOf(live))

Trusts(trusted, live) == trusted = Nobody \/ trusted = live

(* The pin moves on first contact only.                                    *)
\* mutant: a changed set becomes the pin, as on first contact
Repinned(trusted, live) == pin' = live
Pinned(trusted, live) == pin' = IF trusted = Nobody THEN live ELSE trusted

(* Sessions of the devices that changed are torn down.                     *)
resetSessions(changed) ==
  sessions' = [d \in Devices |-> IF d \in changed THEN None ELSE sessions[d]]

------------------------------------------------------------------------------
(* One attempt of a send.                                                  *)

(* fetchConversationDevices, and buildEnvelopes up to its first await: the *)
(* set is checked as soon as it is here.                                   *)
FetchDevices(s) ==
  /\ call[s].pc \in {"idle", "retry"}
  /\ Live # {}
  /\ call' = [call EXCEPT ![s].pc = "fetched", ![s].devices = Live, ![s].tries = @ + 1]
  /\ UNCHANGED <<phase, reported, changes, oneTime, pin, sessions, bundles, posted, used>>

Trusted(s) ==
  LET live == call[s].devices IN
  /\ call[s].pc = "fetched"
  /\ Trusts(pin, live)
  /\ Pinned(pin, live)
  /\ call' = [call EXCEPT
       ![s].pc = "building", ![s].made = {},
       ![s].task = [d \in Devices |-> IF d \in DevicesOf(live) THEN "ensure" ELSE "none"]]
  /\ UNCHANGED <<phase, reported, changes, oneTime, sessions, bundles, posted, used>>

Refused(s) ==
  LET live == call[s].devices IN
  /\ call[s].pc = "fetched"
  /\ ~Trusts(pin, live)
  /\ Pinned(pin, live)
  /\ resetSessions(ChangedDevices(pin, live))
  /\ call' = [call EXCEPT ![s].pc = "refused"]
  /\ UNCHANGED <<phase, reported, changes, oneTime, bundles, posted, used>>

Make(s, d, envelope) ==
  call' = [call EXCEPT ![s].made = @ \cup {envelope}, ![s].task[d] = "made"]

(* sealedBoxEncrypt: a key pair of its own for every envelope, under the   *)
(* identity key that was checked.                                          *)
Seal(s, d) ==
  /\ phase = "sealed"
  /\ call[s].task[d] = "ensure"
  /\ Make(s, d, [device |-> d, key |-> KeyIn(call[s].devices, d), session |-> 0,
                 number |-> 0, header |-> None])
  /\ UNCHANGED <<phase, reported, changes, oneTime, pin, sessions, bundles, posted, used>>

(* ensureSession: an existing session is used, whatever it was made for.   *)
HasSession(s, d) ==
  /\ phase = "signal"
  /\ call[s].task[d] = "ensure" /\ sessions[d] # None
  /\ call' = [call EXCEPT ![s].task[d] = "step"]
  /\ UNCHANGED <<phase, reported, changes, oneTime, pin, sessions, bundles, posted, used>>

AskBundle(s, d) ==
  /\ phase = "signal"
  /\ call[s].task[d] = "ensure" /\ sessions[d] = None
  /\ call' = [call EXCEPT ![s].task[d] = "bundle"]
  /\ UNCHANGED <<phase, reported, changes, oneTime, pin, sessions, bundles, posted, used>>

(* The secret of X3DH, as the set of agreements that went into it, from    *)
(* the initiator's side and from the responder's: the signed prekey's      *)
(* pair is <<device, key>>'s, the ephemeral one the session's.             *)
initiateSession(d, key, sid, prekey) ==
  {<<"identity", "signedPreKey", d, key>>, <<"ephemeral", sid, "identity", d, key>>,
   <<"ephemeral", sid, "signedPreKey", d, key>>}
    \cup (IF prekey = None THEN {} ELSE {<<"ephemeral", sid, "oneTimePreKey", prekey>>})

completeSession(d, key, header) ==
  {<<"identity", "signedPreKey", d, key>>, <<"ephemeral", header.ephemeral, "identity", d, key>>,
   <<"ephemeral", header.ephemeral, "signedPreKey", d, key>>}
    \cup (IF header.oneTime = None THEN {}
          ELSE {<<"ephemeral", header.ephemeral, "oneTimePreKey", header.oneTime>>})

(* The one-time prekey a bundle comes with, when the server has one left.  *)
PreKey(d) == IF oneTime[d] = 0 THEN None ELSE <<d, reported[d]>>

InitialHeader(sid, prekey) == [ephemeral |-> sid, oneTime |-> prekey]

(* The bundle is there: the session made from it replaces one that another *)
(* send has made meanwhile.                                                *)
establishSession(s, d) ==
  LET sid == bundles + 1
      key == reported[d]
  IN /\ call[s].task[d] = "bundle"
     /\ reported[d] # 0 /\ bundles < MaxBundles
     /\ bundles' = sid
     /\ oneTime' = [oneTime EXCEPT ![d] = 0]
     /\ sessions' = [sessions EXCEPT ![d] =
          [sid |-> sid, key |-> key, number |-> 0,
           secret |-> initiateSession(d, key, sid, PreKey(d)),
           pending |-> InitialHeader(sid, PreKey(d))]]
     /\ call' = [call EXCEPT ![s].task[d] = "step"]
     /\ UNCHANGED <<phase, reported, changes, pin, posted, used>>

(* The bundle of a device that is gone is an error, and so is a step       *)
(* without a session; the tasks of the other devices go on.                *)
Fails(s, d) ==
  /\ \/ call[s].task[d] = "bundle" /\ reported[d] = 0
     \/ call[s].task[d] = "step" /\ sessions[d] = None
  /\ call' = [call EXCEPT ![s].task[d] = "failed"]
  /\ UNCHANGED <<phase, reported, changes, oneTime, pin, sessions, bundles, posted, used>>

\* mutant: the chain is not stored back
Unmoved(d) == [sessions[d] EXCEPT !.pending = None]

Advanced(d) == [sessions[d] EXCEPT !.number = @ + 1, !.pending = None]

(* ratchetEncryptStep: one step of the chain, and the header with it once. *)
ratchetEncryptStep(s, d) ==
  /\ call[s].task[d] = "step" /\ sessions[d] # None
  /\ sessions' = [sessions EXCEPT ![d] = Advanced(d)]
  /\ used' = used \cup {<<sessions[d].sid, sessions[d].number, s, call[s].tries>>}
  /\ Make(s, d, [device |-> d, key |-> sessions[d].key, session |-> sessions[d].sid,
                 number |-> sessions[d].number, header |-> sessions[d].pending])
  /\ UNCHANGED <<phase, reported, changes, oneTime, pin, bundles, posted>>

(* Promise.all: every envelope is there, or one task failed.               *)
Built(s) == {d \in Devices : call[s].task[d] = "made"} = DevicesOf(call[s].devices)

(* POST /messages: the server takes the envelopes when they are for just   *)
(* the devices there are now, and answers device_set_mismatch otherwise.   *)
Post(s) ==
  /\ call[s].pc = "building" /\ Built(s)
  /\ DevicesOf(call[s].devices) = DevicesOf(Live)
  /\ posted' = posted \cup call[s].made
  /\ call' = [call EXCEPT ![s].pc = "sent"]
  /\ UNCHANGED <<phase, reported, changes, oneTime, pin, sessions, bundles, used>>

Mismatch(s) ==
  /\ call[s].pc = "building" /\ Built(s)
  /\ DevicesOf(call[s].devices) # DevicesOf(Live)
  /\ posted' = posted \cup call[s].made
  /\ call' = [call EXCEPT ![s].pc = IF call[s].tries = 1 THEN "retry" ELSE "failed"]
  /\ UNCHANGED <<phase, reported, changes, oneTime, pin, sessions, bundles, used>>

GiveUp(s) ==
  /\ call[s].pc = "building"
  /\ \E d \in Devices : call[s].task[d] = "failed"
  /\ call' = [call EXCEPT ![s].pc = "failed"]
  /\ UNCHANGED <<phase, reported, changes, oneTime, pin, sessions, bundles, posted, used>>

Task(s, d) ==
  Seal(s, d) \/ HasSession(s, d) \/ AskBundle(s, d) \/ establishSession(s, d)
    \/ Fails(s, d) \/ ratchetEncryptStep(s, d)

Next ==
  \/ \E d \in Devices : Change(d)
  \/ \E s \in Sends : FetchDevices(s) \/ Trusted(s) \/ Refused(s) \/ Post(s)
                        \/ Mismatch(s) \/ GiveUp(s)
  \/ \E s \in Sends, d \in Devices : Task(s, d)

Spec == Init /\ [][Next]_vars
------------------------------------------------------------------------------
TypeOK ==
  /\ reported \in [Devices -> 0..(MaxChanges + 1)]
  /\ pin \in SUBSET (Devices \X Nat)
  /\ \A s \in Sends : call[s].tries \in 0..2
  /\ bundles \in 0..MaxBundles

(* The sealed box goes to trusted keys only: every envelope that left, of  *)
(* overlapping sends, retries and changes of the set, was for a device and *)
(* a key in the snapshot of the first contact.                             *)
SealedToPinned ==
  phase = "sealed" => \A e \in posted : <<e.device, e.key>> \in pin

(* "Every message to every device gets its own forward-secret key": no     *)
(* step of a chain serves two messages, though sends overlap and sessions  *)
(* are replaced and torn down between the check and the step.              *)
OneKeyOneMessage ==
  \A u, v \in used : u[1] = v[1] /\ u[2] = v[2] => u = v

(* Whatever the receiver gets of a session, the first step of that session *)
(* and no other carries the header, and completing the header gives the    *)
(* secret the sender derived.                                              *)
FirstCarriesHeader ==
  LET out == posted \cup UNION {call[s].made : s \in Sends} IN
  \A e \in out :
    e.session # 0 =>
      /\ e.header # None <=> e.number = 0
      /\ e.header # None =>
           \A d \in Devices :
             sessions[d] # None /\ sessions[d].sid = e.session =>
               completeSession(d, e.key, e.header) = sessions[d].secret

(* Every message of a session has a key of its own, which the receiver can *)
(* derive (encryptForDevice, createSession).                               *)
KeysLineUp == OneKeyOneMessage /\ FirstCarriesHeader

==============================================================================
