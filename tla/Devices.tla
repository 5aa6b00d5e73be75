------------------------------ MODULE Devices ------------------------------
(***************************************************************************)
(* The devices of one account: sign-in, linking, revocation and log-out    *)
(* everywhere (routes/auth.ts, routes/devices.ts), their sockets on the    *)
(* gateway instances (middleware/socketAuth.ts, deviceRevocation.ts), and  *)
(* the keys they publish for strangers to claim: one-time prekeys with the *)
(* low signal and its latch, and MLS key packages (routes/users.ts,        *)
(* prekeyLowSignal.ts, mlsKeyPackages.ts, deviceGc.ts).                    *)
(*                                                                         *)
(* A device is its identity key: (user, key) is unique in table devices.   *)
(* Each slot of an instance runs one request, split at its database calls; *)
(* it may stop at any of them.  Signatures, limits on request rates, audit *)
(* rows and device names are left out; signatures are taken as valid.      *)
(***************************************************************************)
EXTENDS Integers, FiniteSets

CONSTANTS
  Devices, Instances,
  Asks,            \* the requests: id, kind, by, device, pool, keys
  Scenarios,       \* [linked, online, asks]: devices at first, devices that open
                   \* sockets, number of each request
  Slots, HomeOf,   \* request handlers, and the instance each runs on
  Nobody,          \* the owner of an empty slot, and of a spent nonce
  Cap, Threshold,  \* OTP_CAP, PREKEY_LOW_THRESHOLD
  MaxFaults        \* bound on crashes, failed calls and lost announcements

ASSUME BoundsAreNaturals == {Cap, Threshold, MaxFaults} \subseteq Nat
ASSUME HomesAreInstances == HomeOf \in [Slots -> Instances]

Pools == {"otp", "mls"}
Kinds == {"signin", "link", "revoke", "logout", "upload", "claim"}
ASSUME AsksAreRequests ==
  \A r \in Asks :
    /\ r.kind \in Kinds /\ r.by \in Devices \cup {Nobody} /\ r.device \in Devices
    /\ r.pool \in Pools /\ r.keys \subseteq Nat /\ IsFiniteSet(r.keys)
ASSUME ScenariosOfAsks ==
  \A sc \in Scenarios :
    sc.online \subseteq Devices /\ DOMAIN sc.asks \subseteq Asks /\ sc.asks \in [DOMAIN sc.asks -> Nat]
ASSUME NobodyIsNoAsk == Nobody \notin Asks

Keys == UNION {r.keys : r \in Asks}
Items == Devices \X Pools \X Keys
Pcs == {"idle", "find", "write", "count", "revoke", "wipe", "release", "announce", "sign",
        "insert", "recount", "rearm", "signed", "lock", "take", "signal"}
Handler == [pc : Pcs, ask : Asks \cup {Nobody}, seen : {"none", "active", "revoked"},
            targets : SUBSET Devices, item : SUBSET Items, n : Int]
Idle == [pc |-> "idle", ask |-> Nobody, seen |-> "none", targets |-> {}, item |-> {}, n |-> 0]

VARIABLES
  online,     \* the devices that open sockets in this behaviour
  left,       \* how often clients will still make each request
  rows,       \* table devices
  signed,     \* devices with a signed prekey
  fresh,      \* one-time prekeys and key packages nobody has claimed
  used,       \* those consumed
  locked,     \* those a claim's transaction holds FOR UPDATE
  latch,      \* devices whose low signal is latched (Redis)
  nonce,      \* per instance: the request whose challenge was issued last
  socket,     \* [Devices \X Instances -> {"off", "checked", "on"}]
  revokedMidSession, \* the set each instance checks events against
  flight,     \* announcements device_revoked:* on their way to an instance
  handler,
  faults,
  given,      \* history: items handed out, and items handed out twice
  twice,
  told,       \* history: devices told they run low since they last did not
  drained,    \* history: devices a claim left short since then
  disturbed,  \* history: devices whose claims overlapped other work on its keys
  cut         \* history: devices whose revocation was not announced everywhere

store == <<signed, fresh, used, locked, latch>>
gate == <<socket, revokedMidSession, flight>>
history == <<given, twice, told, drained, disturbed, cut>>
vars == <<online, left, rows, store, nonce, gate, handler, faults, history>>

----------------------------------------------------------------------------
Active == {d \in Devices : rows[d] = "active"}
Ask(s) == handler[s].ask
Dev(s) == Ask(s).device
Here(s) == HomeOf[s]
At(s, pc, kinds) == handler[s].pc = pc /\ Ask(s).kind \in kinds
Goto(s, pc) == handler' = [handler EXCEPT ![s].pc = pc]
Return(s) == handler' = [handler EXCEPT ![s] = Idle]

Of(items, d, pool) == {i \in items : i[1] = d /\ i[2] = pool}
Stock(d, pool) == Cardinality(Of(fresh, d, pool))

\* The candidate of a claim: not consumed, not locked by another claim.  The
\* oldest goes first; the keys of one batch are equally old.
SharedCandidates(d, pool) == Of(fresh, d, pool)  \* mutant: a plain SELECT
Candidates(d, pool) == Of(fresh, d, pool) \ locked

\* ON CONFLICT DO NOTHING on (device, type, id), or on the package's hash.
NewItems(items) == items \ used

LeavesOne(total) == total > 1

Low(n) == n < Threshold

\* How a slot's request touches the keys of a device.
Touches(s, d) ==
  \/ handler[s].pc # "idle" /\ Ask(s).kind \in {"upload", "claim"} /\ Dev(s) = d
  \/ d \in handler[s].targets
Crowd(d, s) == {t \in Slots \ {s} : Touches(t, d)}

----------------------------------------------------------------------------
Init ==
  /\ \E sc \in Scenarios :
       /\ left = sc.asks
       /\ online = sc.online
       /\ rows = [d \in Devices |-> IF d \in sc.linked THEN "active" ELSE "none"]
       /\ socket = [p \in Devices \X Instances |-> "off"]
  /\ signed = {} /\ fresh = {} /\ used = {} /\ locked = {} /\ latch = {}
  /\ nonce = [i \in Instances |-> Nobody]
  /\ revokedMidSession = [i \in Instances |-> {}]
  /\ flight = {}
  /\ handler = [s \in Slots |-> Idle]
  /\ faults = 0
  /\ given = {} /\ twice = {} /\ told = {} /\ drained = {} /\ disturbed = {}
  /\ cut = {}

\* requireAuth: the token's device is there and not revoked.  POST /auth/verify
\* is the one request without it, and strangers claim with tokens of their own.
Authorised(r) == IF r.kind \in {"signin", "claim"} THEN TRUE ELSE rows[r.by] = "active"

Start(s, r) ==
  /\ handler[s].pc = "idle"
  /\ left[r] > 0
  /\ Authorised(r)
  /\ left' = [left EXCEPT ![r] = @ - 1]
  /\ handler' = [handler EXCEPT ![s] = [Idle EXCEPT !.pc = "find", !.ask = r]]
  /\ disturbed' = IF r.kind \in {"upload", "claim"}
                    THEN disturbed \cup {d \in {r.device} : \E t \in Crowd(d, s) : Ask(t).kind # r.kind}
                    ELSE disturbed

\* Sign-in and linking answer a challenge; the nonce is spent by being read.
Answered(s, r) == r.kind \notin {"signin", "link"} \/ nonce[Here(s)] = r
Spent(s, r) == IF r.kind \in {"signin", "link"} THEN [nonce EXCEPT ![Here(s)] = Nobody] ELSE nonce

Begin(s, r) ==
  /\ Start(s, r)
  /\ Answered(s, r)
  /\ nonce' = Spent(s, r)
  /\ UNCHANGED <<online, rows, store, gate, faults, given, twice, told, drained, cut>>

\* A challenge replaces the one before it; it expires after some minutes.
Challenge(i, r) ==
  /\ r.kind \in {"signin", "link"} /\ left[r] > 0 /\ Authorised(r)
  /\ nonce' = [nonce EXCEPT ![i] = r]
  /\ UNCHANGED <<online, left, rows, store, gate, handler, faults, history>>
Expire(i) ==
  /\ nonce[i] # Nobody
  /\ nonce' = [nonce EXCEPT ![i] = Nobody]
  /\ UNCHANGED <<online, left, rows, store, gate, handler, faults, history>>

----------------------------------------------------------------------------
\* POST /auth/verify and POST /devices/link/verify.
FindDevice(s) ==
  /\ At(s, "find", {"signin", "link"})
  /\ IF rows[Dev(s)] = IF Ask(s).kind = "link" THEN "active" ELSE "revoked"
       THEN Return(s)
       ELSE handler' = [handler EXCEPT ![s].pc = "write", ![s].seen = rows[Dev(s)]]
  /\ UNCHANGED <<online, left, rows, store, nonce, gate, faults, history>>

\* An insert of a key that was registered meanwhile fails on the unique index;
\* a link re-activates the row it found revoked; a sign-in stamps lastSeenAt.
WriteDevice(s) ==
  /\ At(s, "write", {"signin", "link"})
  /\ rows' = CASE handler[s].seen = "none" /\ rows[Dev(s)] = "none" -> [rows EXCEPT ![Dev(s)] = "active"]
               [] handler[s].seen = "revoked" -> [rows EXCEPT ![Dev(s)] = "active"]
               [] OTHER -> rows
  /\ Return(s)
  /\ UNCHANGED <<online, left, store, nonce, gate, faults, history>>

----------------------------------------------------------------------------
\* DELETE /devices/:id: an already revoked device is only confirmed.
FindTarget(s) ==
  /\ At(s, "find", {"revoke"})
  /\ IF rows[Dev(s)] = "active" THEN Goto(s, "count") ELSE Return(s)
  /\ UNCHANGED <<online, left, rows, store, nonce, gate, faults, history>>

CountActive(s) ==
  /\ At(s, "count", {"revoke"})
  /\ IF LeavesOne(Cardinality(Active))
       THEN handler' = [handler EXCEPT ![s].pc = "revoke", ![s].targets = {Dev(s)}]
       ELSE Return(s)
  /\ UNCHANGED <<online, left, rows, store, nonce, gate, faults, history>>

\* POST /devices/logout-everywhere: every device but the caller's.
FindOthers(s) ==
  /\ At(s, "find", {"logout"})
  /\ LET others == Active \ {Ask(s).by} IN
       IF others = {} THEN Return(s)
       ELSE handler' = [handler EXCEPT ![s].pc = "revoke", ![s].targets = others]
  /\ UNCHANGED <<online, left, rows, store, nonce, gate, faults, history>>

\* revokeDeviceRow, for one target after the other.
Target(s) == CHOOSE d \in handler[s].targets : TRUE

MarkRevoked(s) ==
  /\ handler[s].pc = "revoke"
  /\ rows' = [rows EXCEPT ![Target(s)] = "revoked"]
  /\ disturbed' = IF Crowd(Target(s), s) # {} THEN disturbed \cup {Target(s)} ELSE disturbed
  /\ Goto(s, "wipe")
  /\ UNCHANGED <<online, left, store, nonce, gate, faults, given, twice, told, drained, cut>>

\* The DELETE waits for claims that hold rows; key packages are kept.
WipePrekeys(s) ==
  LET d == Target(s) IN
  /\ handler[s].pc = "wipe"
  /\ Of(locked, d, "otp") = {}
  /\ signed' = signed \ {d}
  /\ fresh' = fresh \ Of(fresh, d, "otp")
  /\ used' = used \ Of(used, d, "otp")
  /\ given' = given \ Of(given, d, "otp")
  /\ told' = told \ {d} /\ drained' = drained \ {d}
  /\ Goto(s, "release")
  /\ UNCHANGED <<online, left, rows, locked, latch, nonce, gate, faults, twice, disturbed, cut>>

ReleaseLatch(s) ==
  /\ handler[s].pc = "release"
  /\ latch' = latch \ {Target(s)}
  /\ Goto(s, "announce")
  /\ UNCHANGED <<online, left, rows, signed, fresh, used, locked, nonce, gate, faults, history>>

\* markDeviceRevoked here, and a message to every instance, this one included.
Announce(s) ==
  LET d == Target(s) IN
  /\ handler[s].pc = "announce"
  /\ revokedMidSession' = [revokedMidSession EXCEPT ![Here(s)] = @ \cup {d}]
  /\ \/ flight' = flight \cup (Instances \X {d}) /\ UNCHANGED <<faults, cut>>
     \/ /\ faults < MaxFaults  \* publish fails and is caught
        /\ faults' = faults + 1 /\ cut' = cut \cup {d} /\ UNCHANGED flight
  /\ handler' = [handler EXCEPT ![s] =
                   IF handler[s].targets = {d} THEN Idle
                   ELSE [handler[s] EXCEPT !.pc = "revoke", !.targets = handler[s].targets \ {d}]]
  /\ UNCHANGED <<online, left, rows, store, nonce, socket, given, twice, told, drained, disturbed>>

\* startDeviceRevocationListener: marks, and disconnects the sockets found in
\* the registry of connections.
DisconnectedOnly(i, d) == revokedMidSession  \* mutant: the listener marks nothing
Marked(i, d) == [revokedMidSession EXCEPT ![i] = @ \cup {d}]
HearRevoked(i, d) ==
  /\ <<i, d>> \in flight
  /\ flight' = flight \ {<<i, d>>}
  /\ revokedMidSession' = Marked(i, d)
  /\ socket' = IF socket[<<d, i>>] = "on" THEN [socket EXCEPT ![<<d, i>>] = "off"] ELSE socket
  /\ UNCHANGED <<online, left, rows, store, nonce, handler, faults, history>>

----------------------------------------------------------------------------
\* socketAuthMiddleware, then the connection handler registers the socket.
CheckSocket(d, i) ==
  /\ d \in online /\ socket[<<d, i>>] = "off"
  /\ rows[d] = "active"
  /\ socket' = [socket EXCEPT ![<<d, i>>] = "checked"]
  /\ UNCHANGED <<online, left, rows, store, nonce, revokedMidSession, flight, handler, faults, history>>

RegisterSocket(d, i) ==
  /\ socket[<<d, i>>] = "checked"
  /\ socket' = [socket EXCEPT ![<<d, i>>] = "on"]
  /\ UNCHANGED <<online, left, rows, store, nonce, revokedMidSession, flight, handler, faults, history>>

\* socket.use: an event of a device in the set closes the socket instead.
Refused(d, i) == d \in revokedMidSession[i]
Event(d, i) ==
  /\ socket[<<d, i>>] \in {"checked", "on"}
  /\ Refused(d, i)
  /\ socket' = [socket EXCEPT ![<<d, i>>] = "off"]
  /\ UNCHANGED <<online, left, rows, store, nonce, revokedMidSession, flight, handler, faults, history>>

----------------------------------------------------------------------------
\* POST /devices/:id/prekeys and /mls-key-packages.
FindOwner(s) ==
  /\ At(s, "find", {"upload"})
  /\ IF rows[Dev(s)] = "active" THEN Goto(s, "count") ELSE Return(s)
  /\ UNCHANGED <<online, left, rows, store, nonce, gate, faults, history>>

\* The batch is cut to what the cap leaves, from its beginning.
Trimmed(keys, n) == {k \in keys : Cardinality({j \in keys : j < k}) < n}

CountStock(s) ==
  /\ At(s, "count", {"upload"})
  /\ LET room == Cap - Stock(Dev(s), Ask(s).pool) IN
       IF room <= 0 THEN Return(s)
       ELSE handler' = [handler EXCEPT
              ![s].pc = IF Ask(s).pool = "otp" THEN "sign" ELSE "insert",
              ![s].item = {<<Dev(s), Ask(s).pool, k>> : k \in Trimmed(Ask(s).keys, room)}]
  /\ UNCHANGED <<online, left, rows, store, nonce, gate, faults, history>>

UpsertSigned(s) ==
  /\ At(s, "sign", {"upload"})
  /\ signed' = signed \cup {Dev(s)}
  /\ Goto(s, "insert")
  /\ UNCHANGED <<online, left, rows, fresh, used, locked, latch, nonce, gate, faults, history>>

Insert(s) ==
  /\ At(s, "insert", {"upload"})
  /\ fresh' = fresh \cup NewItems(handler[s].item)
  /\ used' = used \ fresh'
  /\ IF Ask(s).pool = "otp"
       THEN /\ Goto(s, "recount")
            /\ LET healthy == ~Low(Cardinality(Of(fresh', Dev(s), "otp"))) IN
               /\ told' = IF healthy THEN told \ {Dev(s)} ELSE told
               /\ drained' = IF healthy THEN drained \ {Dev(s)} ELSE drained
       ELSE Return(s) /\ UNCHANGED <<told, drained>>
  /\ UNCHANGED <<online, left, rows, signed, locked, latch, nonce, gate, faults, given, twice, disturbed, cut>>

\* The latch opens when the count taken after the insert is healthy again.
Recount(s) ==
  /\ At(s, "recount", {"upload"})
  /\ IF Low(Stock(Dev(s), "otp")) THEN Return(s) ELSE Goto(s, "rearm")
  /\ UNCHANGED <<online, left, rows, store, nonce, gate, faults, history>>

KeepLatch(s) ==  \* mutant: the latch stays
  /\ At(s, "rearm", {"upload", "claim"}) /\ Return(s)
  /\ UNCHANGED <<online, left, rows, store, nonce, gate, faults, history>>
Rearm(s) ==
  /\ At(s, "rearm", {"upload", "claim"})
  /\ latch' = latch \ {Dev(s)}
  /\ Return(s)
  /\ UNCHANGED <<online, left, rows, signed, fresh, used, locked, nonce, gate, faults, history>>

----------------------------------------------------------------------------
\* GET key-bundle and GET mls-key-package: the device first, a prekey bundle
\* needs the signed prekey, then the claim in a transaction.
FindBundle(s) ==
  /\ At(s, "find", {"claim"})
  /\ IF rows[Dev(s)] # "active" THEN Return(s)
     ELSE Goto(s, IF Ask(s).pool = "otp" THEN "signed" ELSE "lock")
  /\ UNCHANGED <<online, left, rows, store, nonce, gate, faults, history>>

ReadSigned(s) ==
  /\ At(s, "signed", {"claim"})
  /\ IF Dev(s) \in signed THEN Goto(s, "lock") ELSE Return(s)
  /\ UNCHANGED <<online, left, rows, store, nonce, gate, faults, history>>

\* FOR UPDATE SKIP LOCKED; without a candidate the answer has no one-time key.
LockCandidate(s) ==
  /\ At(s, "lock", {"claim"})
  /\ IF Candidates(Dev(s), Ask(s).pool) = {}
       THEN Return(s) /\ UNCHANGED <<locked, disturbed>>
       ELSE \E i \in Candidates(Dev(s), Ask(s).pool) :
              /\ locked' = locked \cup {i}
              /\ handler' = [handler EXCEPT ![s].pc = "take", ![s].item = {i},
                                            ![s].n = Stock(Dev(s), Ask(s).pool) - 1]
              /\ disturbed' = IF Of(locked, Dev(s), Ask(s).pool) = {} THEN disturbed
                              ELSE disturbed \cup {Dev(s)}
  /\ UNCHANGED <<online, left, rows, signed, fresh, used, latch, nonce, gate, faults, given, twice, told, drained, cut>>

\* The count was taken in the transaction and does not see the claims of others
\* that have not committed.
CommitClaim(s) ==
  LET item == handler[s].item IN
  /\ At(s, "take", {"claim"})
  /\ locked' = locked \ item
  /\ fresh' = fresh \ item
  /\ used' = used \cup item
  /\ twice' = twice \cup (item \cap given)
  /\ given' = given \cup item
  /\ IF Ask(s).pool = "mls" THEN Return(s) /\ UNCHANGED drained
     ELSE /\ Goto(s, IF Low(handler[s].n) THEN "signal" ELSE "rearm")
          /\ drained' = IF Low(Cardinality(Of(fresh', Dev(s), "otp"))) THEN drained \cup {Dev(s)} ELSE drained
  /\ UNCHANGED <<online, left, rows, signed, latch, nonce, gate, faults, told, disturbed, cut>>

\* signalPrekeysLowIfNeeded: whoever sets the latch tells the device.
Signal(s) ==
  /\ At(s, "signal", {"claim"})
  /\ told' = IF Dev(s) \in latch THEN told ELSE told \cup {Dev(s)}
  /\ latch' = latch \cup {Dev(s)}
  /\ Return(s)
  /\ UNCHANGED <<online, left, rows, signed, fresh, used, locked, nonce, gate, faults, given, twice, drained, disturbed, cut>>

----------------------------------------------------------------------------
\* runPrekeyGcPass and runMlsKeyPackageGcPass: keys long consumed, and keys long
\* unclaimed, of uploads that are all over.
Uploading(k) ==
  \E r \in DOMAIN left :
    r.kind = "upload" /\ k \in r.keys /\ (left[r] > 0 \/ \E s \in Slots : Ask(s) = r)
Collect(i) ==
  /\ i \in (fresh \cup used) \ locked
  /\ ~Uploading(i[3])
  /\ fresh' = fresh \ {i} /\ used' = used \ {i}
  /\ disturbed' = IF i \in fresh THEN disturbed \cup {i[1]} ELSE disturbed
  /\ UNCHANGED <<online, left, rows, signed, locked, latch, nonce, gate, handler, faults, given, twice, told, drained, cut>>

\* A handler stops: its transaction is rolled back.  What it had not announced
\* of a revocation is never announced: a second request only confirms it.
Unannounced(s) == {d \in handler[s].targets : rows[d] = "revoked" /\ handler[s].pc # "idle"}
Fail(s) ==
  /\ handler[s].pc # "idle"
  /\ faults < MaxFaults /\ faults' = faults + 1
  /\ Return(s)
  /\ locked' = IF At(s, "take", {"claim"}) THEN locked \ handler[s].item ELSE locked
  /\ cut' = cut \cup Unannounced(s)
  /\ disturbed' = disturbed \cup {d \in Devices : Touches(s, d)}
  /\ UNCHANGED <<online, left, rows, signed, fresh, used, latch, nonce, gate, given, twice, told, drained>>

\* An instance starts again: sockets, nonces and the set of revoked devices were
\* its process's, and so were the announcements on their way to it.
Restart(i) ==
  /\ \A s \in Slots : Here(s) = i => handler[s].pc = "idle"
  /\ faults < MaxFaults /\ faults' = faults + 1
  /\ nonce' = [nonce EXCEPT ![i] = Nobody]
  /\ socket' = [p \in DOMAIN socket |-> IF p[2] = i THEN "off" ELSE socket[p]]
  /\ revokedMidSession' = [revokedMidSession EXCEPT ![i] = {}]
  /\ flight' = {f \in flight : f[1] # i}
  /\ UNCHANGED <<online, left, rows, store, handler, history>>

----------------------------------------------------------------------------
Run(s) ==
  \/ FindDevice(s) \/ WriteDevice(s) \/ FindTarget(s) \/ CountActive(s) \/ FindOthers(s)
  \/ MarkRevoked(s) \/ WipePrekeys(s) \/ ReleaseLatch(s) \/ Announce(s)
  \/ FindOwner(s) \/ CountStock(s) \/ UpsertSigned(s) \/ Insert(s) \/ Recount(s) \/ Rearm(s)
  \/ FindBundle(s) \/ ReadSigned(s) \/ LockCandidate(s) \/ CommitClaim(s) \/ Signal(s)
  \/ Fail(s)

Next ==
  \/ \E s \in Slots, r \in DOMAIN left : Begin(s, r)
  \/ \E i \in Instances, r \in DOMAIN left : Challenge(i, r)
  \/ \E i \in Instances : Expire(i) \/ Restart(i)
  \/ \E s \in Slots : Run(s)
  \/ \E d \in Devices, i \in Instances :
       HearRevoked(i, d) \/ CheckSocket(d, i) \/ RegisterSocket(d, i) \/ Event(d, i)
  \/ \E i \in fresh \cup used : Collect(i)

Spec == Init /\ [][Next]_vars

----------------------------------------------------------------------------
TypeOK ==
  /\ DOMAIN left \subseteq Asks /\ left \in [DOMAIN left -> Nat]
  /\ handler \in [Slots -> Handler]
  /\ rows \in [Devices -> {"none", "active", "revoked"}]
  /\ signed \cup latch \cup told \cup drained \cup disturbed \cup cut \subseteq Devices
  /\ fresh \cup used \cup given \subseteq Items /\ IsFiniteSet(fresh) /\ fresh \cap used = {} /\ locked \subseteq fresh
  /\ nonce \in [Instances -> Asks \cup {Nobody}]
  /\ socket \in [Devices \X Instances -> {"off", "checked", "on"}]
  /\ revokedMidSession \in [Instances -> SUBSET Devices]
  /\ flight \subseteq Instances \X Devices
  /\ faults \in 0..MaxFaults

\* No key package and, until the device's prekeys are deleted by a revocation,
\* no one-time prekey is handed out twice, whatever claims race and whatever
\* batches are sent again.
HandedOutOnce == twice = {}

\* Once a revocation is carried out and announced, no socket of the device can
\* get an event through on any instance, not even one that passed the
\* handshake before and is registered after it.
RevokedIsSilent ==
  \A d \in Devices, i \in Instances :
    (/\ rows[d] = "revoked" /\ d \notin cut
     /\ <<i, d>> \notin flight /\ \A s \in Slots : d \notin handler[s].targets)
      => socket[<<d, i>>] = "off" \/ Refused(d, i)

\* A device whose one-time prekeys were claimed down to less than the threshold
\* has been told so when the claims are over, unless its claims overlapped one
\* another's transactions, an upload or a revocation.
LowIsSignalled ==
  \A d \in drained \ disturbed :
    (/\ Low(Stock(d, "otp"))
     /\ \A s \in Slots : handler[s].pc # "idle" => Dev(s) # d)
      => d \in told
=============================================================================
