-------------------------------- MODULE Push --------------------------------
(***************************************************************************)
(* Web Push for devices without a socket: who is told of a message, how    *)
(* messages wait for one another and for the limit of their device, and    *)
(* what becomes of the subscriptions that fail.                            *)
(*                                                                         *)
(* Time is left out: a timer that is set may fire, a window that is open   *)
(* may close.  Posting, connecting and muting are steps of Services.       *)
(***************************************************************************)
EXTENDS Integers, FiniteSets

CONSTANTS Devices, Endpoints  \* devices of the members; browser endpoints

VARIABLES
  scene,      \* scene.owner, .subscribed: of devices and endpoints; bounds
  muted,      \* conversationMembers.isMuted, of <<user, conversation>>
  connected,  \* devices with a socket
  filtering,  \* dispatchOfflinePush in progress, by message
  pending,    \* pendingCoalesce, by <<device, conversation>>
  recent,     \* devices with a lastPushSentAt within the window
  flights,    \* flushes and sends in progress
  subs,       \* pushSubscriptions, by endpoint
  shown,      \* notifications on screen, by endpoint and tag
  trouble,    \* bound: failed sends and changes of a subscription
  queued, settled, burst  \* history, see the properties


None == <<>>
Owner(d) == scene.owner[d]
Users == {Owner(d) : d \in Devices}
IsOnline(u) == \E d \in connected : Owner(d) = u

\* usePushSubscription posts the browser's subscription again at every mount.
Registered(d) == [device |-> d, state |-> "enabled"]

Init ==
  /\ filtering = [m \in {} |-> 0]
  /\ pending = [k \in {} |-> {}]
  /\ recent = {}
  /\ flights = {}
  /\ subs = [e \in Endpoints |->
             IF e \in DOMAIN scene.subscribed THEN Registered(scene.subscribed[e]) ELSE None]
  /\ shown = {}
  /\ trouble = 0
  /\ queued = {} /\ settled = {}
  /\ burst = [d \in Devices |-> 0]

-----------------------------------------------------------------------------
(* dispatchOfflinePush: who is told *)

\* Starts once the message is out, and is not awaited.
Dispatch(m, conversation) ==
  filtering' = [n \in DOMAIN filtering \cup {m} |->
                  IF n = m THEN [conversation |-> conversation, users |-> None]
                  ELSE filtering[n]]

Dropped(m) == [n \in DOMAIN filtering \ {m} |-> filtering[n]]

\* Members and mute settings, then who is online
FilterUsers(m) ==
  /\ m \in DOMAIN filtering /\ filtering[m].users = None
  /\ LET offline == {u \in Users : <<u, filtering[m].conversation>> \notin muted /\ ~IsOnline(u)}
     IN  filtering' = IF offline = {} THEN Dropped(m)
                      ELSE [filtering EXCEPT ![m].users = <<offline>>]
  /\ UNCHANGED <<pending, recent, flights, subs, shown, trouble, queued, settled, burst>>

\* One eq(devices.userId, uid) for each user, all of them in one AND
DevicesOf(users) == {d \in Devices : \A u \in users : Owner(d) = u}

\* queueCoalescedPush: an entry that waits takes the message in.
Waiting(k) == IF k \in DOMAIN pending THEN pending[k] ELSE {}

FilterDevices(m) ==
  /\ m \in DOMAIN filtering /\ filtering[m].users # None
  /\ LET c == filtering[m].conversation
         keys == {<<d, c>> : d \in DevicesOf(filtering[m].users[1]) \ connected}
     IN  /\ pending' = [k \in DOMAIN pending \cup keys |->
                          IF k \in keys THEN Waiting(k) \cup {m} ELSE pending[k]]
         /\ queued' = queued \cup {<<k, m>> : k \in keys}
  /\ filtering' = Dropped(m)
  /\ UNCHANGED <<recent, flights, subs, shown, trouble, settled, burst>>

-----------------------------------------------------------------------------
(* flushPush and sendWebPush *)

\* The count and the message the timer's callback tells of
AtFirst(k) == {CHOOSE m \in pending[k] : \A n \in pending[k] : m <= n}  \* mutant: taken when the timer is set
Told(k) == pending[k]

Settle(k, ms) == settled' = settled \cup {<<k, m>> : m \in ms}

\* The timestamp is set before the subscriptions are read.
MarkedLater(d) == recent  \* mutant: set only after a send
Marked(d) == recent \cup {d}

TimerFires(k) ==
  /\ k \in DOMAIN pending
  /\ pending' = [j \in DOMAIN pending \ {k} |-> pending[j]]
  /\ IF k[1] \in recent
     THEN Settle(k, Told(k)) /\ UNCHANGED <<recent, flights, burst>>
     ELSE /\ recent' = Marked(k[1])
          /\ flights' = flights \cup {[key |-> k, told |-> Told(k), to |-> None]}
          /\ burst' = [burst EXCEPT ![k[1]] = @ + 1]
          /\ UNCHANGED settled
  /\ UNCHANGED <<filtering, subs, shown, trouble, queued>>

Enabled(e) == subs[e] # None /\ subs[e].state = "enabled"

ReadSubscriptions(f) ==
  /\ f \in flights /\ f.to = None
  /\ LET to == {e \in Endpoints : Enabled(e) /\ subs[e].device = f.key[1]}
     IN  /\ flights' = (flights \ {f}) \cup {[f EXCEPT !.to = <<e>>] : e \in to}
         /\ IF to = {} THEN Settle(f.key, f.told) ELSE UNCHANGED settled
  /\ UNCHANGED <<filtering, pending, recent, subs, shown, trouble, queued, burst>>

\* The service worker's notification carries the conversation as its tag.
Shown(e, conversation) == shown \cup {<<e, conversation>>}

Sent(f) ==
  /\ f \in flights /\ f.to # None
  /\ flights' = flights \ {f}
  /\ shown' = Shown(f.to[1], f.key[2])
  /\ Settle(f.key, f.told)
  /\ UNCHANGED <<filtering, pending, recent, subs, trouble, queued, burst>>

Trouble == trouble < scene.trouble /\ trouble' = trouble + 1

\* 404 or 410 drops the row, anything else disables it for five minutes; a row
\* that is gone meanwhile is not updated.
Refused(f) ==
  /\ f \in flights /\ f.to # None
  /\ Trouble
  /\ flights' = flights \ {f}
  /\ LET e == f.to[1] IN
       \E row \in {None, [subs[e] EXCEPT !.state = "backoff"]} :
         subs' = IF subs[e] = None THEN subs ELSE [subs EXCEPT ![e] = row]
  /\ Settle(f.key, f.told)
  /\ UNCHANGED <<filtering, pending, recent, shown, queued, burst>>

WindowEnds(d) ==
  /\ d \in recent
  /\ recent' = recent \ {d}
  /\ burst' = [burst EXCEPT ![d] = 0]
  /\ UNCHANGED <<filtering, pending, flights, subs, shown, trouble, queued, settled>>

\* reenableExpiredBackoffs of the cleanup job, once the time of a row is up
Reenable(e) ==
  /\ subs[e] # None /\ ~Enabled(e)
  /\ subs' = [subs EXCEPT ![e].state = "enabled"]
  /\ UNCHANGED <<filtering, pending, recent, flights, shown, trouble, queued, settled, burst>>

-----------------------------------------------------------------------------
(* The browser *)

\* POST /push/subscriptions: the endpoint moves to the device that asks.
Subscribe(e, d) ==
  /\ subs[e] # Registered(d)
  /\ Trouble
  /\ subs' = [subs EXCEPT ![e] = Registered(d)]
  /\ UNCHANGED <<filtering, pending, recent, flights, shown, queued, settled, burst>>

\* DELETE /push/subscriptions
Unsubscribe(e, d) ==
  /\ subs[e] # None /\ subs[e].device = d
  /\ Trouble
  /\ subs' = [subs EXCEPT ![e] = None]
  /\ UNCHANGED <<filtering, pending, recent, flights, shown, queued, settled, burst>>

\* notificationclick of the service worker
Click(n) ==
  /\ n \in shown
  /\ shown' = shown \ {n}
  /\ UNCHANGED <<filtering, pending, recent, flights, subs, trouble, queued, settled, burst>>

\* The process ends: timers, timestamps and what is in flight are gone.
LosePushes ==
  /\ filtering' = [m \in {} |-> 0]
  /\ pending' = [k \in {} |-> {}]
  /\ recent' = {} /\ flights' = {}
  /\ settled' = queued
  /\ burst' = [d \in Devices |-> 0]
  /\ UNCHANGED <<subs, shown, trouble, queued>>

Work ==
  \/ \E m \in DOMAIN filtering : FilterUsers(m) \/ FilterDevices(m)
  \/ \E k \in DOMAIN pending : TimerFires(k)
  \/ \E f \in flights : ReadSubscriptions(f) \/ Sent(f)

Next ==
  \/ Work
  \/ \E f \in flights : Refused(f)
  \/ \E d \in Devices : WindowEnds(d)
  \/ \E e \in Endpoints : Reenable(e)
  \/ \E e \in Endpoints, d \in Devices : Subscribe(e, d) \/ Unsubscribe(e, d)
  \/ \E n \in shown : Click(n)

-----------------------------------------------------------------------------
\* A message queued for a device gets its answer: the push that tells of it is
\* sent or fails, meets the device's limit or no subscription, or ends with
\* the process.  None stays behind in an entry whose timer is gone, or falls
\* out of the entry it was added to (queueCoalescedPush, flushPush).
NothingForgotten ==
  \A q \in queued \ settled :
    \/ q[2] \in Waiting(q[1])
    \/ \E f \in flights : f.key = q[1] /\ q[2] \in f.told

\* Timers of several conversations of a device may fire together: one push
\* goes out in a window, whatever is awaited in between.
OncePerWindow == \A d \in Devices : burst[d] <= 1

=============================================================================
