------------------------------ MODULE Presence ------------------------------
(***************************************************************************)
(* Presence of one user: what the gateway instances (index.ts) keep in     *)
(* Redis about the user's sockets and devices (services/presence.ts), the  *)
(* watchdog that closes silent sockets (services/heartbeat.ts), and the    *)
(* announcement that the user went offline, held back for a grace time.    *)
(*                                                                         *)
(* Each socket has up to three handlers that run side by side: the one of  *)
(* its connection, of a heartbeat, and of its end.  They are split at the  *)
(* Redis calls that others can come between.  The three sets a socket is   *)
(* registered in (by user, by device, by device alone) are written and     *)
(* removed together and stand here as one.  The keys of single devices are *)
(* left out: they expire, and nothing reads them.                          *)
(***************************************************************************)
EXTENDS Integers, FiniteSets

CONSTANTS
  Sockets, Devices, Instances,
  Layouts,    \* the device and the instance of each socket, in each behaviour
  Before,     \* the sockets the clients opened before a socket
  MaxFaults   \* bound on crashes and on sockets the server closes

ASSUME FaultsAreNatural == MaxFaults \in Nat
ASSUME LayoutsOfSockets == Layouts \subseteq [Sockets -> [device : Devices, home : Instances]]

VARIABLES
  layout,
  conn,      \* the connection of each socket
  silent,    \* the sockets whose client stopped sending heartbeats
  registry,  \* Redis: the sockets in presence:device_sockets:* and the like
  hash,      \* Redis: the devices in presence:user:{userId}; it has no expiry
  opening,   \* the handler of a connection: where it is, what it has seen
  beating,   \* the handler of a heartbeat
  ending,    \* the handler of a disconnect or of a timeout
  timers,    \* sockets whose watchdog runs
  grace,     \* instances with a pending offline broadcast
  heard,     \* what co-members were told last
  faults,
  unheard,   \* history: sockets that ended before their handler listened
  deserted,  \* history: devices whose sockets ended without their handler
  crossed    \* history: devices with a heartbeat under way as a socket ended

handlers == <<opening, beating, ending>>
history == <<unheard, deserted, crossed>>
vars == <<layout, conn, silent, registry, hash, handlers, timers, grace, heard, faults, history>>

Open(k) == conn[k] = "open"
DeviceOf(k) == layout[k].device
HomeOf(k) == layout[k].home
Of(d) == {k \in Sockets : DeviceOf(k) = d}
Listening(k) == opening[k].pc = "ready"   \* socket.on('disconnect') is set
Opening(pc) == [pc |-> pc, cancelled |-> FALSE, first |-> FALSE]
Ending(pc, last, timeout) == [pc |-> pc, last |-> last, timeout |-> timeout]

----------------------------------------------------------------------------
Init ==
  /\ layout \in Layouts
  /\ conn = [k \in Sockets |-> "none"]
  /\ silent = {} /\ registry = {} /\ hash = {} /\ timers = {} /\ grace = {}
  /\ opening = [k \in Sockets |-> Opening("idle")]
  /\ beating = [k \in Sockets |-> "idle"]
  /\ ending = [k \in Sockets |-> Ending("idle", FALSE, FALSE)]
  /\ heard = "nothing"
  /\ faults = 0
  /\ unheard = {} /\ deserted = {} /\ crossed = {}

----------------------------------------------------------------------------
\* io.on('connection').  It goes on after the connection has ended.
Connect(k) ==
  /\ conn[k] = "none" /\ \A j \in Before[k] : conn[j] # "none"
  /\ conn' = [conn EXCEPT ![k] = "open"]
  /\ timers' = timers \cup {k}
  /\ opening' = [opening EXCEPT ![k].pc = "register"]
  /\ UNCHANGED <<layout, silent, registry, hash, beating, ending, grace, heard, faults, history>>

Register(k) ==
  /\ opening[k].pc = "register"
  /\ registry' = registry \cup {k}
  /\ opening' = [opening EXCEPT ![k].pc = "sweep"]
  /\ UNCHANGED <<layout, conn, silent, hash, beating, ending, timers, grace, heard, faults, history>>

\* cleanupStaleSockets: those no instance of the cluster knows any more.
Swept(kept) == {k \in registry : Open(k) \/ k \in kept}
SweepOnConnect(k) ==
  /\ opening[k].pc = "sweep"
  /\ registry' = Swept({k})
  /\ opening' = [opening EXCEPT ![k].pc = "cancel"]
  /\ UNCHANGED <<layout, conn, silent, hash, beating, ending, timers, grace, heard, faults, history>>

\* The pending broadcasts are those of this process.
CancelBroadcast(k) ==
  /\ opening[k].pc = "cancel"
  /\ opening' = [opening EXCEPT ![k].pc = "look", ![k].cancelled = HomeOf(k) \in grace]
  /\ grace' = grace \ {HomeOf(k)}
  /\ UNCHANGED <<layout, conn, silent, registry, hash, beating, ending, timers, heard, faults, history>>

\* setOnline: is anybody there, then the device's field.
LookOnConnect(k) ==
  /\ opening[k].pc = "look"
  /\ opening' = [opening EXCEPT ![k].pc = "set", ![k].first = (hash = {})]
  /\ UNCHANGED <<layout, conn, silent, registry, hash, beating, ending, timers, grace, heard, faults, history>>
SetOnline(k) ==
  /\ opening[k].pc = "set"
  /\ hash' = hash \cup {DeviceOf(k)}
  /\ opening' = [opening EXCEPT ![k].pc = "tell"]
  /\ UNCHANGED <<layout, conn, silent, registry, beating, ending, timers, grace, heard, faults, history>>

\* The handlers of messages, and the listener of the end, come last.
TellOnline(k) ==
  /\ opening[k].pc = "tell"
  /\ heard' = IF opening[k].first /\ ~opening[k].cancelled THEN "online" ELSE heard
  /\ opening' = [opening EXCEPT ![k].pc = "ready"]
  /\ UNCHANGED <<layout, conn, silent, registry, hash, beating, ending, timers, grace, faults, history>>

----------------------------------------------------------------------------
\* handleHeartbeat: stops the watchdog, refreshes the device unless the user
\* has no device at all, registers the socket again, starts the watchdog anew.
Heartbeat(k) ==
  /\ Open(k) /\ k \notin silent /\ Listening(k) /\ beating[k] = "idle"
  /\ timers' = timers \ {k}
  /\ beating' = [beating EXCEPT ![k] = "look"]
  /\ UNCHANGED <<layout, conn, silent, registry, hash, opening, ending, grace, heard, faults, history>>
LookOnBeat(k) ==
  /\ beating[k] = "look"
  /\ beating' = [beating EXCEPT ![k] = IF hash = {} THEN "register" ELSE "set"]
  /\ UNCHANGED <<layout, conn, silent, registry, hash, opening, ending, timers, grace, heard, faults, history>>
RefreshPresence(k) ==
  /\ beating[k] = "set"
  /\ hash' = hash \cup {DeviceOf(k)}
  /\ beating' = [beating EXCEPT ![k] = "register"]
  /\ UNCHANGED <<layout, conn, silent, registry, opening, ending, timers, grace, heard, faults, history>>

OnlyExpiry(k) == registry  \* mutant: EXPIRE without SADD
Refreshed(k) == registry \cup {k}
RefreshSocket(k) ==
  /\ beating[k] = "register"
  /\ registry' = Refreshed(k)
  /\ beating' = [beating EXCEPT ![k] = "idle"]
  /\ timers' = IF Open(k) THEN timers \cup {k} ELSE timers
  /\ UNCHANGED <<layout, conn, silent, hash, opening, ending, grace, heard, faults, history>>

Silence(k) ==
  /\ Open(k) /\ k \notin silent
  /\ silent' = silent \cup {k}
  /\ UNCHANGED <<layout, conn, registry, hash, handlers, timers, grace, heard, faults, history>>

----------------------------------------------------------------------------
\* The client's end of the connection goes.  Before the listener is set nobody
\* hears of it but the watchdog.  (A socket goes either so or by its watchdog.)
Crossing(ks) == {DeviceOf(k) : k \in {k \in ks : beating[k] # "idle"}}
Close(k) ==
  /\ Open(k) /\ ending[k].pc = "idle"
  /\ conn' = [conn EXCEPT ![k] = "closed"]
  /\ IF Listening(k)
       THEN timers' = timers \ {k} /\ ending' = [ending EXCEPT ![k] = Ending("remove", FALSE, FALSE)]
       ELSE UNCHANGED <<timers, ending>>
  /\ crossed' = crossed \cup Crossing({k})
  /\ unheard' = IF Listening(k) THEN unheard ELSE unheard \cup {k}
  /\ UNCHANGED <<layout, silent, registry, hash, opening, beating, grace, heard, faults, deserted>>

\* The server disconnects the socket (repeated rate limit violations): the
\* handler stops at the reason "server namespace disconnect".
Dismiss(k) ==
  /\ Open(k) /\ Listening(k) /\ k \notin silent /\ faults < MaxFaults
  /\ faults' = faults + 1
  /\ conn' = [conn EXCEPT ![k] = "closed"]
  /\ timers' = timers \ {k}
  /\ deserted' = deserted \cup {DeviceOf(k)}
  /\ crossed' = crossed \cup Crossing({k})
  /\ UNCHANGED <<layout, silent, registry, hash, handlers, grace, heard, unheard>>

\* 90 seconds without a heartbeat; the handler of the connection takes less.
Timeout(k) ==
  /\ k \in timers /\ Listening(k) /\ (~Open(k) \/ k \in silent)
  /\ timers' = timers \ {k}
  /\ ending' = [ending EXCEPT ![k] = Ending("remove", FALSE, TRUE)]
  /\ crossed' = crossed \cup Crossing({k})
  /\ UNCHANGED <<layout, conn, silent, registry, hash, opening, beating, grace, heard, faults, unheard, deserted>>

\* unregisterPresenceSocket: SREM, SCARD, and DEL of a set found empty.
Remove(k) ==
  /\ ending[k].pc = "remove"
  /\ registry' = registry \ {k}
  /\ ending' = [ending EXCEPT ![k].pc = "count"]
  /\ UNCHANGED <<layout, conn, silent, hash, opening, beating, timers, grace, heard, faults, history>>

LastOne(k) == registry \cap Of(DeviceOf(k)) = {}
Count(k) ==
  /\ ending[k].pc = "count"
  /\ ending' = [ending EXCEPT ![k].last = LastOne(k), ![k].pc = IF LastOne(k) THEN "delete" ELSE "sweep"]
  /\ UNCHANGED <<layout, conn, silent, registry, hash, opening, beating, timers, grace, heard, faults, history>>
Delete(k) ==
  /\ ending[k].pc = "delete"
  /\ registry' = registry \ Of(DeviceOf(k))
  /\ ending' = [ending EXCEPT ![k].pc = "sweep"]
  /\ UNCHANGED <<layout, conn, silent, hash, opening, beating, timers, grace, heard, faults, history>>

\* The disconnect handler sweeps; the watchdog does not.
DisconnectOnly(k) == ending[k].last /\ ~ending[k].timeout  \* mutant: the watchdog forgets the socket only
Abandoned(k) == ending[k].last
SweepOnEnd(k) ==
  /\ ending[k].pc = "sweep"
  /\ registry' = IF ending[k].timeout THEN registry ELSE Swept({})
  /\ ending' = [ending EXCEPT ![k].pc = IF Abandoned(k) THEN "forget" ELSE "finish", ![k].last = FALSE]
  /\ UNCHANGED <<layout, conn, silent, hash, opening, beating, timers, grace, heard, faults, history>>

\* setOffline and markDeviceOffline: HDEL, HLEN, and DEL of a hash found empty.
Forget(k) ==
  /\ ending[k].pc = "forget"
  /\ hash' = hash \ {DeviceOf(k)}
  /\ ending' = [ending EXCEPT ![k].pc = "look"]
  /\ UNCHANGED <<layout, conn, silent, registry, opening, beating, timers, grace, heard, faults, history>>
LookOnEnd(k) ==
  /\ ending[k].pc = "look"
  /\ ending' = [ending EXCEPT ![k].last = (hash = {}), ![k].pc = IF hash = {} THEN "clear" ELSE "finish"]
  /\ UNCHANGED <<layout, conn, silent, registry, hash, opening, beating, timers, grace, heard, faults, history>>
Clear(k) ==
  /\ ending[k].pc = "clear"
  /\ hash' = {}
  /\ ending' = [ending EXCEPT ![k].pc = "finish"]
  /\ UNCHANGED <<layout, conn, silent, registry, opening, beating, timers, grace, heard, faults, history>>

\* A disconnect is announced after the grace time; a timeout at once, over the
\* rooms of the socket, which is then closed.
Untold(k) == FALSE  \* mutant: the watchdog tells nobody
TimedOut(k) == ending[k].last /\ ending[k].timeout /\ Open(k)
Finish(k) ==
  /\ ending[k].pc = "finish"
  /\ grace' = IF ending[k].last /\ ~ending[k].timeout THEN grace \cup {HomeOf(k)} ELSE grace
  /\ heard' = IF TimedOut(k) THEN "offline" ELSE heard
  /\ conn' = IF ending[k].timeout THEN [conn EXCEPT ![k] = "closed"] ELSE conn
  /\ timers' = IF ending[k].timeout /\ Listening(k) THEN timers \ {k} ELSE timers
  /\ ending' = [ending EXCEPT ![k] = Ending("over", FALSE, FALSE)]
  /\ UNCHANGED <<layout, silent, registry, hash, opening, beating, faults, history>>

Broadcast(i) ==
  /\ i \in grace
  /\ grace' = grace \ {i}
  /\ heard' = "offline"
  /\ UNCHANGED <<layout, conn, silent, registry, hash, handlers, timers, faults, history>>

----------------------------------------------------------------------------
\* The sets expire 90 seconds after the last socket of the device was heard.
Expire(d) ==
  /\ registry \cap Of(d) # {}
  /\ \A k \in Of(d) : ~Open(k) \/ k \in silent
  /\ registry' = registry \ Of(d)
  /\ UNCHANGED <<layout, conn, silent, hash, handlers, timers, grace, heard, faults, history>>

\* A gateway stops: its sockets end without a handler.  Shutting down in order
\* is no different, for the handlers then return early.
Crash(i) ==
  LET here == {k \in Sockets : HomeOf(k) = i} IN
  /\ faults < MaxFaults
  /\ \E k \in here : Open(k)
  /\ faults' = faults + 1
  /\ conn' = [k \in Sockets |-> IF k \in here /\ conn[k] = "open" THEN "closed" ELSE conn[k]]
  /\ timers' = timers \ here
  /\ grace' = grace \ {i}
  /\ opening' = [k \in Sockets |-> IF k \in here THEN Opening("idle") ELSE opening[k]]
  /\ beating' = [k \in Sockets |-> IF k \in here THEN "idle" ELSE beating[k]]
  /\ ending' = [k \in Sockets |-> IF k \in here THEN Ending("over", FALSE, FALSE) ELSE ending[k]]
  /\ deserted' = deserted \cup {DeviceOf(k) : k \in {k \in here : conn[k] # "none"}}
  /\ crossed' = crossed \cup Crossing(here)
  /\ UNCHANGED <<layout, silent, registry, hash, heard, unheard>>

\* reconcileBoot of an instance that starts: registered sockets that are gone.
ReconcileBoot ==
  /\ faults > 0 /\ registry # Swept({})
  /\ registry' = Swept({})
  /\ UNCHANGED <<layout, conn, silent, hash, handlers, timers, grace, heard, faults, history>>

----------------------------------------------------------------------------
OnConnection(k) ==
  \/ Register(k) \/ SweepOnConnect(k) \/ CancelBroadcast(k)
  \/ LookOnConnect(k) \/ SetOnline(k) \/ TellOnline(k)
OnHeartbeat(k) == LookOnBeat(k) \/ RefreshPresence(k) \/ RefreshSocket(k)
OnEnd(k) ==
  \/ Remove(k) \/ Count(k) \/ Delete(k) \/ SweepOnEnd(k)
  \/ Forget(k) \/ LookOnEnd(k) \/ Clear(k) \/ Finish(k)

Next ==
  \/ \E k \in Sockets :
       \/ Connect(k) \/ Heartbeat(k) \/ Silence(k) \/ Close(k) \/ Dismiss(k) \/ Timeout(k)
       \/ OnConnection(k) \/ OnHeartbeat(k) \/ OnEnd(k)
  \/ \E i \in Instances : Broadcast(i) \/ Crash(i)
  \/ \E d \in Devices : Expire(d)
  \/ ReconcileBoot

Spec == Init /\ [][Next]_vars

\* Handlers go on, timers fire, keys expire, and a client that is not silent
\* sends its heartbeats.
FairSpec ==
  /\ Spec
  /\ \A k \in Sockets : /\ WF_vars(OnConnection(k)) /\ WF_vars(OnHeartbeat(k)) /\ WF_vars(OnEnd(k))
                        /\ WF_vars(Heartbeat(k)) /\ WF_vars(Timeout(k))
  /\ \A i \in Instances : WF_vars(Broadcast(i))
  /\ \A d \in Devices : WF_vars(Expire(d))

----------------------------------------------------------------------------
\* The variables have their types.
TypeOK ==
  /\ conn \in [Sockets -> {"none", "open", "closed"}]
  /\ silent \cup registry \cup timers \subseteq Sockets
  /\ hash \cup deserted \cup crossed \subseteq Devices
  /\ grace \subseteq Instances
  /\ heard \in {"nothing", "online", "offline"}

\* A socket that stays connected is registered in the end and for good, though
\* the end of an earlier socket of the device may delete the set just after it
\* was added: the next heartbeat adds it again (presence.ts refreshPresenceSocket).
ConnectedIsRegistered ==
  \A k \in Sockets : <>[](Open(k) /\ Listening(k)) => <>[](k \in registry)

\* When all sockets of the user are gone, the user is offline in the end: the
\* hash, which never expires, is empty, although sockets end side by side on
\* several instances, during their own connection, or silently.  Excepted are
\* devices whose sockets ended without the handler (a crash, a disconnect by
\* the server) or across a heartbeat, which may write the device back.
GoneIsOffline ==
  \A d \in Devices :
    <>[](\A k \in Sockets : ~Open(k)) => <>[](d \notin hash \/ d \in deserted \cup crossed)

\* Once all sockets are gone, co-members were told last that the user is
\* offline, unless some socket ended before its handler listened (then only
\* the watchdog notices, and it tells nobody when the socket is closed).
OfflineIsHeard ==
  <>[](\A k \in Sockets : ~Open(k)) =>
    <>[](heard # "online" \/ unheard \cup deserted \cup crossed # {})

=============================================================================
