---------------------------- MODULE Services_proofs ----------------------------
(***************************************************************************)
(* What the parts of Services keep in every scene, beside each other and   *)
(* the sending of messages.  Each part has an inductive invariant of its   *)
(* own; the steps of the others leave its variables alone (the lemmas      *)
(* named ...Frame), but for a restart, which all of them notice.           *)
(***************************************************************************)
EXTENDS Services, FiniteSetTheorems, FunctionTheorems, WellFoundedInduction, TLAPS

-----------------------------------------------------------------------------
(* Typing *)

\* Only a new message and the part's own steps touch the indicators.
LEMMA TypingFrame ==
  ASSUME [Next]_vars
  PROVE  \/ UNCHANGED <<scene, typingTimers, lastRelayed>>
         \/ T!Next /\ UNCHANGED scene
<1> USE DEF otherVars, typingVars, handlerVars
<1>1. CASE Store \/ Ask \/ Reply \/ AskFails
  BY <1>1 DEF Store, Ask, Reply, AskFails, StoredVars
<1>2. ASSUME NEW m \in DOMAIN sending, Deliver(m) \/ Invalidate(m) PROVE UNCHANGED <<scene, otherVars>>
  BY <1>2 DEF Deliver, Invalidate
<1>3. ASSUME NEW d \in Devices, Connect(d) \/ Disconnect(d) PROVE UNCHANGED <<scene, otherVars>>
  BY <1>3 DEF Connect, Disconnect
<1>4. ASSUME NEW v \in BOOLEAN, ReadVisible(v) PROVE UNCHANGED <<scene, otherVars>>
  BY <1>4 DEF ReadVisible
<1>5. ASSUME NEW r \in revealing, WriteVisible(r) \/ TellVisible(r) PROVE UNCHANGED <<scene, otherVars>>
  BY <1>5 DEF WriteVisible, TellVisible
<1>6. CASE PeerChanges \/ Restart
  BY <1>6 DEF PeerChanges, Restart
<1>7. CASE Hear
  BY <1>7 DEF Hear, T!HideAll
<1>8. CASE Pushes \/ Lists \/ Histories \/ Others
  BY <1>8 DEF Pushes, Lists, Histories, Others
<1>9. CASE UNCHANGED vars
  BY <1>9 DEF vars
<1> QED BY <1>1, <1>2, <1>3, <1>4, <1>5, <1>6, <1>7, <1>8, <1>9 DEF Next

\* A start that was relayed last of a key is followed by a stop: by its timer, or
\* by the end of the socket, however starts and stops overtake one another
\* (typing_start, typing_stop, disconnect).
THEOREM TypingStops == Spec => []TypingEnds
<1>1. Init => TypingEnds
  BY DEF Init, T!Init, TypingEnds, T!TypingEnds
<1>2. TypingEnds /\ [Next]_vars => TypingEnds'
  <2> SUFFICES ASSUME TypingEnds, [Next]_vars PROVE TypingEnds'
    OBVIOUS
  <2> USE DEF TypingEnds, T!TypingEnds
  <2>1. CASE UNCHANGED <<scene, typingTimers, lastRelayed>>
    BY <2>1
  <2>2. ASSUME NEW r \in checking, T!RelayStart(r) \/ T!RelayStop(r) \/ T!RefuseTyping(r), UNCHANGED scene
        PROVE  TypingEnds'
    BY <2>2 DEF T!RelayStart, T!RelayStop, T!RefuseTyping, T!Relay
  <2>3. ASSUME NEW k \in typingTimers, T!TypingTimer(k), UNCHANGED scene PROVE TypingEnds'
    BY <2>3 DEF T!TypingTimer, T!Relay
  <2>4. ASSUME T!Leave, UNCHANGED scene PROVE TypingEnds'
    BY <2>4 DEF T!Leave, T!Relay, T!Stopped
  <2>5. ASSUME NEW k \in scene.keys, T!Type("start", k) \/ T!Type("stop", k), UNCHANGED scene PROVE TypingEnds'
    BY <2>5 DEF T!Type
  <2>6. ASSUME T!HearTyping \/ T!AutoHide, UNCHANGED scene PROVE TypingEnds'
    BY <2>6 DEF T!HearTyping, T!AutoHide
  <2> QED BY <2>1, <2>2, <2>3, <2>4, <2>5, <2>6, TypingFrame DEF T!Next
<1> QED BY <1>1, <1>2, PTL DEF Spec

-----------------------------------------------------------------------------
(* Push *)

\* A message that is out starts the filter; beyond it only the part's own steps
\* and the end of the process touch what waits, flies and is settled.
LEMMA PushFrame ==
  ASSUME [Next]_vars
  PROVE  \/ UNCHANGED <<pending, recent, flights, queued, settled, burst>>
         \/ P!Next
         \/ P!LosePushes
<1> USE DEF pushVars, handlerVars
<1>1. CASE Store \/ Ask \/ Reply \/ AskFails
  BY <1>1 DEF Store, Ask, Reply, AskFails, StoredVars
<1>2. ASSUME NEW m \in DOMAIN sending, Deliver(m) \/ Invalidate(m)
      PROVE  UNCHANGED <<pending, recent, flights, queued, settled, burst>>
  BY <1>2 DEF Deliver, Invalidate
<1>3. ASSUME NEW d \in Devices, Connect(d) \/ Disconnect(d) PROVE UNCHANGED pushVars
  BY <1>3 DEF Connect, Disconnect
<1>4. ASSUME NEW v \in BOOLEAN, ReadVisible(v) PROVE UNCHANGED pushVars
  BY <1>4 DEF ReadVisible
<1>5. ASSUME NEW r \in revealing, WriteVisible(r) \/ TellVisible(r) PROVE UNCHANGED pushVars
  BY <1>5 DEF WriteVisible, TellVisible
<1>6. CASE PeerChanges \/ Hear \/ Restart
  BY <1>6 DEF PeerChanges, Hear, Restart
<1>7. CASE Pushes \/ Lists \/ Histories \/ Others
  BY <1>7 DEF Pushes, Lists, Histories, Others
<1>8. CASE UNCHANGED vars
  BY <1>8 DEF vars
<1> QED BY <1>1, <1>2, <1>3, <1>4, <1>5, <1>6, <1>7, <1>8 DEF Next

\* A device that had its push is within its window.
Bursts ==
  /\ burst \in [Devices -> 0..1]
  /\ \A d \in Devices : burst[d] = 0 \/ d \in recent

\* One push of a device goes out in a window, however many of its timers fire
\* together (flushPush sets lastPushSentAt before it awaits anything).
THEOREM OnePushPerWindow == Spec => []OncePerWindow
<1>1. Init => Bursts
  BY DEF Init, P!Init, Bursts
<1>2. Bursts /\ [Next]_vars => Bursts'
  <2> SUFFICES ASSUME Bursts, [Next]_vars PROVE Bursts'
    OBVIOUS
  <2> USE DEF Bursts
  <2>1. CASE UNCHANGED <<pending, recent, flights, queued, settled, burst>>
    BY <2>1
  <2>2. CASE P!LosePushes
    BY <2>2 DEF P!LosePushes
  <2>3. ASSUME NEW m \in DOMAIN filtering, P!FilterUsers(m) \/ P!FilterDevices(m) PROVE Bursts'
    BY <2>3 DEF P!FilterUsers, P!FilterDevices
  <2>4. ASSUME NEW k \in DOMAIN pending, P!TimerFires(k) PROVE Bursts'
    BY <2>4 DEF P!TimerFires, P!Marked
  <2>5. ASSUME NEW f \in flights, P!ReadSubscriptions(f) \/ P!Sent(f) \/ P!Refused(f) PROVE Bursts'
    BY <2>5 DEF P!ReadSubscriptions, P!Sent, P!Refused
  <2>6. ASSUME NEW d \in Devices, P!WindowEnds(d) PROVE Bursts'
    BY <2>6 DEF P!WindowEnds
  <2>7. ASSUME NEW e \in Endpoints, NEW d \in Devices, P!Subscribe(e, d) \/ P!Unsubscribe(e, d)
        PROVE  Bursts'
    BY <2>7 DEF P!Subscribe, P!Unsubscribe
  <2>8. ASSUME NEW n \in shown, P!Click(n) PROVE Bursts'
    BY <2>8 DEF P!Click
  <2>9. ASSUME NEW e \in Endpoints, P!Reenable(e) PROVE Bursts'
    BY <2>9 DEF P!Reenable
  <2> QED BY <2>1, <2>2, <2>3, <2>4, <2>5, <2>6, <2>7, <2>8, <2>9, PushFrame DEF P!Next, P!Work
<1>3. Bursts => OncePerWindow
  BY DEF Bursts, OncePerWindow, P!OncePerWindow
<1> QED BY <1>1, <1>2, <1>3, PTL DEF Spec

\* What is queued is a pair, and a flight knows its key and what it tells of.
PushTypes ==
  /\ \A q \in queued : q = <<q[1], q[2]>>
  /\ \A f \in flights : f = [key |-> f.key, told |-> f.told, to |-> f.to]

\* A message that was queued for a device waits in the device's entry, flies, or
\* is settled, whichever handlers and timers overtake one another
\* (queueCoalescedPush, flushPush).
THEOREM PushesAreAnswered == Spec => []NothingForgotten
<1> DEFINE Inv == PushTypes /\ NothingForgotten
<1>1. Init => Inv
  BY DEF Init, P!Init, PushTypes, NothingForgotten, P!NothingForgotten
<1>2. Inv /\ [Next]_vars => Inv'
  <2> SUFFICES ASSUME PushTypes, P!NothingForgotten, [Next]_vars PROVE PushTypes' /\ P!NothingForgotten'
    BY DEF NothingForgotten
  <2> USE DEF PushTypes, P!NothingForgotten
  <2>1. CASE UNCHANGED <<pending, recent, flights, queued, settled, burst>>
    BY <2>1 DEF P!Waiting
  <2>2. CASE P!LosePushes
    BY <2>2 DEF P!LosePushes
  <2>3. ASSUME NEW m \in DOMAIN filtering, P!FilterUsers(m) PROVE PushTypes' /\ P!NothingForgotten'
    BY <2>3 DEF P!FilterUsers, P!Waiting
  <2>4. ASSUME NEW m \in DOMAIN filtering, P!FilterDevices(m) PROVE PushTypes' /\ P!NothingForgotten'
    <3> DEFINE keys == {<<d, filtering[m].conversation>> : d \in P!DevicesOf(filtering[m].users[1]) \ connected}
    <3>1. /\ queued' = queued \cup {<<k, m>> : k \in keys}
          /\ pending' = [k \in DOMAIN pending \cup keys |->
                           IF k \in keys THEN P!Waiting(k) \cup {m} ELSE pending[k]]
          /\ UNCHANGED <<flights, settled>>
      BY <2>4 DEF P!FilterDevices
    <3> HIDE DEF keys
    <3>2. \A k : P!Waiting(k) \subseteq P!Waiting(k)'
      BY <3>1 DEF P!Waiting
    <3>3. \A k \in keys : m \in P!Waiting(k)'
      BY <3>1 DEF P!Waiting
    <3>4. PushTypes'
      BY <3>1
    <3>5. ASSUME NEW q \in queued' \ settled'
          PROVE  q[2] \in P!Waiting(q[1])' \/ \E f \in flights' : f.key = q[1] /\ q[2] \in f.told
      BY <3>1, <3>2, <3>3
    <3> QED BY <3>4, <3>5
  <2>5. ASSUME NEW k \in DOMAIN pending, P!TimerFires(k) PROVE PushTypes' /\ P!NothingForgotten'
    <3>1. /\ pending' = [j \in DOMAIN pending \ {k} |-> pending[j]]
          /\ UNCHANGED queued
      BY <2>5 DEF P!TimerFires
    <3>2. P!Waiting(k) = pending[k] /\ \A j : j # k => P!Waiting(j)' = P!Waiting(j)
      BY <3>1 DEF P!Waiting
    <3>3. \/ flights' = flights /\ settled' = settled \cup {<<k, m>> : m \in pending[k]}
          \/ /\ flights' = flights \cup {[key |-> k, told |-> pending[k], to |-> P!None]}
             /\ settled' = settled
      BY <2>5 DEF P!TimerFires, P!Settle, P!Told
    <3>4. PushTypes'
      BY <3>1, <3>3
    <3>5. ASSUME NEW q \in queued' \ settled'
          PROVE  q[2] \in P!Waiting(q[1])' \/ \E f \in flights' : f.key = q[1] /\ q[2] \in f.told
      <4>1. q \in queued \ settled /\ q = <<q[1], q[2]>> /\ flights \subseteq flights'
        BY <3>1, <3>3
      <4>2. CASE q[1] # k
        BY <4>1, <4>2, <3>2
      <4>3. CASE q[1] = k /\ q[2] \in pending[k]
        <5>1. CASE flights' = flights /\ settled' = settled \cup {<<k, m>> : m \in pending[k]}
          BY <4>1, <4>3, <5>1
        <5>2. CASE flights' = flights \cup {[key |-> k, told |-> pending[k], to |-> P!None]}
          <6> DEFINE new == [key |-> k, told |-> pending[k], to |-> P!None]
          <6>1. new \in flights'
            BY <5>2
          <6>2. new.key = k /\ new.told = pending[k]
            OBVIOUS
          <6> HIDE DEF new
          <6> QED BY <6>1, <6>2, <4>3
        <5> QED BY <5>1, <5>2, <3>3
      <4> QED BY <4>1, <4>2, <4>3, <3>2
    <3> QED BY <3>4, <3>5
  <2>6. ASSUME NEW f \in flights, P!Sent(f) \/ P!Refused(f) PROVE PushTypes' /\ P!NothingForgotten'
    <3>1. /\ flights' = flights \ {f} /\ UNCHANGED <<pending, queued>>
          /\ settled' = settled \cup {<<f.key, m>> : m \in f.told}
      BY <2>6 DEF P!Sent, P!Refused, P!Settle
    <3> QED BY <3>1 DEF P!Waiting
  <2>7. ASSUME NEW f \in flights, P!ReadSubscriptions(f) PROVE PushTypes' /\ P!NothingForgotten'
    <3> DEFINE to == {e \in Endpoints : P!Enabled(e) /\ subs[e].device = f.key[1]}
               Bound(e) == [f EXCEPT !.to = <<e>>]
    <3>1. /\ flights' = (flights \ {f}) \cup {Bound(e) : e \in to}
          /\ settled' = IF to = {} THEN settled \cup {<<f.key, m>> : m \in f.told} ELSE settled
          /\ UNCHANGED <<pending, queued>>
      BY <2>7 DEF P!ReadSubscriptions, P!Settle
    <3>2. \A e : Bound(e) = [key |-> f.key, told |-> f.told, to |-> <<e>>]
      OBVIOUS
    <3>3. \A e : Bound(e).key = f.key /\ Bound(e).told = f.told /\ Bound(e).to = <<e>>
      BY <3>2
    <3> HIDE DEF to, Bound
    <3>4. PushTypes'
      BY <3>1, <3>2, <3>3
    <3> QED BY <3>1, <3>3, <3>4 DEF P!Waiting
  <2>8. ASSUME NEW d \in Devices, P!WindowEnds(d) PROVE PushTypes' /\ P!NothingForgotten'
    BY <2>8 DEF P!WindowEnds, P!Waiting
  <2>9. ASSUME NEW e \in Endpoints, P!Reenable(e) PROVE PushTypes' /\ P!NothingForgotten'
    BY <2>9 DEF P!Reenable, P!Waiting
  <2>10. ASSUME NEW e \in Endpoints, NEW d \in Devices, P!Subscribe(e, d) \/ P!Unsubscribe(e, d)
        PROVE  PushTypes' /\ P!NothingForgotten'
    BY <2>10 DEF P!Subscribe, P!Unsubscribe, P!Waiting
  <2>11. ASSUME NEW n \in shown, P!Click(n) PROVE PushTypes' /\ P!NothingForgotten'
    BY <2>11 DEF P!Click, P!Waiting
  <2> QED BY <2>1, <2>2, <2>3, <2>4, <2>5, <2>6, <2>7, <2>8, <2>9, <2>10, <2>11, PushFrame DEF P!Next, P!Work
<1> QED BY <1>1, <1>2, PTL DEF Spec

-----------------------------------------------------------------------------
(* Ledger *)

\* Only the end of the process and the part's own steps touch the tables the
\* listener fills.
LEMMA LedgerFrame ==
  ASSUME [Next]_vars
  PROVE  \/ UNCHANGED <<scene, ledgerVars>>
         \/ G!Next /\ UNCHANGED scene
         \/ G!LoseCursors /\ UNCHANGED scene
<1> USE DEF otherVars, handlerVars
<1>1. CASE Store \/ Ask \/ Reply \/ AskFails
  BY <1>1 DEF Store, Ask, Reply, AskFails, StoredVars
<1>2. ASSUME NEW m \in DOMAIN sending, Deliver(m) \/ Invalidate(m) PROVE UNCHANGED <<scene, otherVars>>
  BY <1>2 DEF Deliver, Invalidate
<1>3. ASSUME NEW d \in Devices, Connect(d) \/ Disconnect(d) PROVE UNCHANGED <<scene, otherVars>>
  BY <1>3 DEF Connect, Disconnect
<1>4. ASSUME NEW v \in BOOLEAN, ReadVisible(v) PROVE UNCHANGED <<scene, otherVars>>
  BY <1>4 DEF ReadVisible
<1>5. ASSUME NEW r \in revealing, WriteVisible(r) \/ TellVisible(r) PROVE UNCHANGED <<scene, otherVars>>
  BY <1>5 DEF WriteVisible, TellVisible
<1>6. CASE PeerChanges \/ Hear
  BY <1>6 DEF PeerChanges, Hear
<1>7. CASE Restart
  BY <1>7 DEF Restart
<1>8. CASE Pushes \/ Lists \/ Histories \/ Others
  BY <1>8 DEF Pushes, Lists, Histories, Others
<1>9. CASE UNCHANGED vars
  BY <1>9 DEF vars
<1> QED BY <1>1, <1>2, <1>3, <1>4, <1>5, <1>6, <1>7, <1>8, <1>9 DEF Next

ListenerTypes ==
  /\ chain \in [G!Streams -> Nat]
  /\ begun \in [G!Streams -> Nat]
  /\ cursor \in [G!Streams -> Nat]
  /\ listener = [at |-> listener.at, queue |-> listener.queue]
  /\ listener.queue \in Seq(Nat)
  /\ listener.queue # <<>> => listener.at \in G!Streams

\* What is fetched are the events in a row from one behind the cursor, and
\* all that is in front of it has been seen or has failed.
QueueFollows ==
  LET s == listener.at
      next == listener.queue[1] IN
  listener.queue # <<>> =>
    /\ \A i \in 1..Len(listener.queue) : listener.queue[i] = next + i - 1
    /\ cursor[s] < next
    /\ \A i \in (begun[s] + 1)..(next - 1) : <<s, i>> \in seen \/ <<s, i>> \in failed

\* The last of an interval, and the others.
LEMMA LastOfInterval ==
  ASSUME NEW low \in Nat, NEW i \in Nat, NEW n, n = i + 1
  PROVE  \A j \in (low + 1)..(n - 1) : j = i \/ j \in (low + 1)..(i - 1)
OBVIOUS

\* The rest of what is fetched follows the event that was taken.
LEMMA QueueTail ==
  ASSUME NEW q \in Seq(Nat), q # <<>>, \A i \in 1..Len(q) : q[i] = q[1] + i - 1
  PROVE  /\ q[1] \in Nat /\ Head(q) = q[1] /\ Tail(q) \in Seq(Nat)
         /\ Tail(q) # <<>> => /\ Tail(q)[1] = q[1] + 1
                              /\ \A i \in 1..Len(Tail(q)) : Tail(q)[i] = Tail(q)[1] + i - 1
<1>1. Len(q) \in Nat /\ Len(q) >= 1
  OBVIOUS
<1>2. Tail(q) \in Seq(Nat) /\ Len(Tail(q)) = Len(q) - 1 /\ Head(q) = q[1]
  OBVIOUS
<1>3. \A i \in 1..Len(Tail(q)) : Tail(q)[i] = q[i + 1]
  BY <1>1
<1>4. q[1] \in Nat
  BY <1>1
<1>5. \A i \in 1..Len(Tail(q)) : Tail(q)[i] = q[1] + i
  BY <1>1, <1>2, <1>3, <1>4
<1>6. Tail(q) # <<>> => 1 \in 1..Len(Tail(q))
  BY <1>2
<1> QED BY <1>2, <1>4, <1>5, <1>6

\* A cursor passes only what was persisted, or failed and was passed by a later
\* event that was persisted (runForever).
THEOREM CursorsCover == Spec => []CursorCovers
<1> DEFINE Inv == ListenerTypes /\ QueueFollows /\ CursorCovers
<1>1. Init => Inv
  BY DEF Init, G!Init, G!Waiting, G!Streams, ListenerTypes, QueueFollows, CursorCovers, G!CursorCovers
<1>2. Inv /\ [Next]_vars => Inv'
  <2> SUFFICES ASSUME ListenerTypes, QueueFollows, G!CursorCovers, [Next]_vars
               PROVE  ListenerTypes' /\ QueueFollows' /\ G!CursorCovers'
    BY DEF CursorCovers
  <2>1. CASE UNCHANGED <<scene, ledgerVars>>
    BY <2>1 DEF ledgerVars, ListenerTypes, QueueFollows, G!CursorCovers
  <2>2. CASE UNCHANGED <<chain, listener, cursor, begun, seen, failed>>
    BY <2>2 DEF ListenerTypes, QueueFollows, G!CursorCovers
  <2>3. CASE G!LoseCursors
    BY <2>3 DEF G!LoseCursors, G!Waiting, G!Streams, ListenerTypes, QueueFollows, G!CursorCovers
  <2>4. ASSUME NEW s \in G!Streams, G!Emit(s) PROVE ListenerTypes' /\ QueueFollows' /\ G!CursorCovers'
    <3>1. /\ chain' = [chain EXCEPT ![s] = @ + 1]
          /\ UNCHANGED <<listener, cursor, begun, seen, failed>>
      BY <2>4 DEF G!Emit
    <3>2. ListenerTypes'
      BY <3>1 DEF ListenerTypes
    <3>3. QueueFollows' /\ G!CursorCovers'
      BY <3>1 DEF QueueFollows, G!CursorCovers
    <3> QED BY <3>2, <3>3
  <2>5. ASSUME NEW s \in G!Streams, G!Fetch(s) PROVE ListenerTypes' /\ QueueFollows' /\ G!CursorCovers'
    <3> PICK start \in G!From(s) :
          /\ listener' = [at |-> s, queue |-> G!Fetched(s, start)]
          /\ begun' = IF cursor[s] = 0 THEN [begun EXCEPT ![s] = start] ELSE begun
      BY <2>5 DEF G!Fetch
    <3>1. UNCHANGED <<chain, cursor, seen, failed>>
      BY <2>5 DEF G!Fetch
    <3>2. /\ cursor[s] \in Nat /\ chain[s] \in Nat /\ start \in Nat
          /\ cursor[s] # 0 => start = cursor[s]
      BY DEF G!From, ListenerTypes
    <3> DEFINE q == G!Fetched(s, start)
    <3>3. q \in Seq(Nat) /\ \A i \in 1..Len(q) : q[i] = start + i
      <4>1. CASE chain[s] >= start
        <5> DEFINE n == chain[s] - start
        <5>1. n \in Nat /\ \A i \in 1..n : start + i \in Nat
          BY <3>2, <4>1
        <5>2. q = [i \in 1..n |-> start + i]
          BY DEF G!Fetched
        <5> HIDE DEF n, q
        <5>3. q \in Seq(Nat) /\ Len(q) = n
          BY <5>1, <5>2
        <5> QED BY <5>2, <5>3
      <4>2. CASE chain[s] < start
        <5>1. q = <<>>
          BY <3>2, <4>2 DEF G!Fetched
        <5> QED BY <5>1
      <4> QED BY <3>2, <4>1, <4>2
    <3> HIDE DEF q
    <3>4. ListenerTypes'
      BY <3>1, <3>2, <3>3 DEF ListenerTypes, q
    <3>5. G!CursorCovers'
      <4>1. ASSUME NEW t \in G!Streams, NEW j \in (begun'[t] + 1)..cursor'[t]
            PROVE  j \in (begun[t] + 1)..cursor[t]
        <5>1. CASE cursor[s] = 0 /\ t = s
          BY <3>1, <3>2, <5>1 DEF ListenerTypes
        <5>2. CASE cursor[s] # 0 \/ t # s
          BY <3>1, <3>2, <5>2 DEF ListenerTypes
        <5> QED BY <5>1, <5>2
      <4> QED BY <4>1, <3>1 DEF G!CursorCovers
    <3>6. q # <<>> => q[1] = start + 1 /\ \A i \in 1..Len(q) : q[i] = q[1] + i - 1
      BY <3>2, <3>3
    <3>7. QueueFollows'
      BY <3>1, <3>2, <3>3, <3>5, <3>6 DEF QueueFollows, ListenerTypes, G!CursorCovers, q
    <3> QED BY <3>4, <3>5, <3>7
  <2>6. CASE G!FetchFails \/ G!EndPoll
    <3>1. listener' = G!Waiting /\ UNCHANGED <<chain, cursor, begun, seen, failed>>
      BY <2>6 DEF G!FetchFails, G!EndPoll
    <3>2. listener'.queue = <<>> /\ listener' = [at |-> listener'.at, queue |-> listener'.queue]
      BY <3>1 DEF G!Waiting
    <3>3. ListenerTypes'
      BY <3>1, <3>2 DEF ListenerTypes
    <3>4. QueueFollows' /\ G!CursorCovers'
      BY <3>1, <3>2 DEF QueueFollows, G!CursorCovers
    <3> QED BY <3>3, <3>4
  <2>7. CASE G!Persist
    <3> DEFINE s == listener.at
               i == Head(listener.queue)
    <3>1. /\ listener.queue # <<>> /\ listener' = [listener EXCEPT !.queue = Tail(@)]
          /\ cursor' = [cursor EXCEPT ![s] = i] /\ seen' = seen \cup {<<s, i>>}
          /\ UNCHANGED <<chain, begun, failed>>
      BY <2>7 DEF G!Persist, G!Advanced
    <3>2. /\ i = listener.queue[1] /\ i \in Nat /\ Tail(listener.queue) \in Seq(Nat)
          /\ Tail(listener.queue) # <<>> =>
               /\ Tail(listener.queue)[1] = i + 1
               /\ \A j \in 1..Len(Tail(listener.queue)) : Tail(listener.queue)[j] = Tail(listener.queue)[1] + j - 1
      BY <3>1, QueueTail DEF ListenerTypes, QueueFollows
    <3>3. s \in G!Streams /\ listener'.at = s /\ listener'.queue = Tail(listener.queue)
      BY <3>1 DEF ListenerTypes
    <3>4. ListenerTypes'
      BY <3>1, <3>2, <3>3 DEF ListenerTypes
    <3>5. \A j \in (begun[s] + 1)..(i - 1) : <<s, j>> \in seen \/ <<s, j>> \in failed
      BY <3>1, <3>2 DEF QueueFollows
    <3>6. G!CursorCovers'
      <4>1. ASSUME NEW t \in G!Streams, NEW j \in (begun'[t] + 1)..cursor'[t]
            PROVE  \/ <<t, j>> \in seen'
                   \/ <<t, j>> \in failed' /\ \E k \in (j + 1)..cursor'[t] : <<t, k>> \in seen'
        <5>1. CASE t = s
          <6>1. begun'[t] = begun[s] /\ cursor'[t] = i /\ begun[s] \in Nat
            BY <3>1, <3>3, <5>1 DEF ListenerTypes
          <6>2. <<s, i>> \in seen' /\ seen \subseteq seen' /\ failed' = failed
            BY <3>1
          <6>3. j = i \/ (j \in (begun[s] + 1)..(i - 1) /\ i \in (j + 1)..i)
            BY <6>1, <3>2
          <6> HIDE DEF s, i
          <6> QED BY <6>1, <6>2, <6>3, <3>5, <5>1
        <5>2. CASE t # s
          BY <3>1, <5>2 DEF G!CursorCovers, ListenerTypes
        <5> QED BY <5>1, <5>2
      <4> QED BY <4>1 DEF G!CursorCovers
    <3>7. QueueFollows'
      <4>1. CASE Tail(listener.queue) = <<>>
        BY <4>1, <3>3 DEF QueueFollows
      <4>2. CASE Tail(listener.queue) # <<>>
        <5>1. /\ listener'.queue[1] = i + 1 /\ cursor'[s] = i /\ begun'[s] = begun[s]
              /\ begun[s] \in Nat /\ i < i + 1
          <6>1. listener'.queue[1] = i + 1 /\ i < i + 1
            BY <3>2, <3>3, <4>2
          <6>2. cursor'[s] = i /\ begun'[s] = begun[s] /\ begun[s] \in Nat
            BY <3>1, <3>3 DEF ListenerTypes
          <6> QED BY <6>1, <6>2
        <5>2. \A j \in (begun[s] + 1)..(listener'.queue[1] - 1) : <<s, j>> \in seen' \/ <<s, j>> \in failed'
          <6>1. <<s, i>> \in seen' /\ seen \subseteq seen' /\ failed' = failed
            BY <3>1
          <6>2. \A j \in (begun[s] + 1)..(listener'.queue[1] - 1) : j = i \/ j \in (begun[s] + 1)..(i - 1)
            <7> HIDE DEF s, i
            <7> QED BY ONLY <5>1, <3>2, LastOfInterval
          <6> HIDE DEF s, i
          <6> QED BY <6>1, <6>2, <3>5
        <5>3. \A j \in 1..Len(listener'.queue) : listener'.queue[j] = listener'.queue[1] + j - 1
          BY <3>2, <3>3, <4>2
        <5> HIDE DEF s, i
        <5>4. begun'[s] = begun[s] /\ cursor'[s] < listener'.queue[1]
          BY <5>1
        <5> QED BY <3>3, <5>2, <5>3, <5>4 DEF QueueFollows
      <4> QED BY <4>1, <4>2
    <3> QED BY <3>4, <3>6, <3>7
  <2>8. CASE G!PersistFails
    <3> DEFINE s == listener.at
               i == Head(listener.queue)
    <3>1. /\ listener.queue # <<>> /\ listener' = [listener EXCEPT !.queue = Tail(@)]
          /\ failed' = failed \cup {<<s, i>>}
          /\ UNCHANGED <<chain, begun, cursor, seen>>
      BY <2>8 DEF G!PersistFails
    <3>2. /\ i = listener.queue[1] /\ i \in Nat /\ Tail(listener.queue) \in Seq(Nat)
          /\ Tail(listener.queue) # <<>> =>
               /\ Tail(listener.queue)[1] = i + 1
               /\ \A j \in 1..Len(Tail(listener.queue)) : Tail(listener.queue)[j] = Tail(listener.queue)[1] + j - 1
      BY <3>1, QueueTail DEF ListenerTypes, QueueFollows
    <3>3. s \in G!Streams /\ listener'.at = s /\ listener'.queue = Tail(listener.queue)
      BY <3>1 DEF ListenerTypes
    <3>4. ListenerTypes'
      BY <3>1, <3>2, <3>3 DEF ListenerTypes
    <3>5. G!CursorCovers'
      BY <3>1 DEF G!CursorCovers
    <3>6. QueueFollows'
      <4>1. CASE Tail(listener.queue) = <<>>
        BY <4>1, <3>3 DEF QueueFollows
      <4>2. CASE Tail(listener.queue) # <<>>
        <5>1. /\ listener'.queue[1] = i + 1 /\ cursor' = cursor /\ begun' = begun
              /\ begun[s] \in Nat /\ cursor[s] < i + 1
          BY <3>1, <3>2, <3>3, <4>2 DEF ListenerTypes, QueueFollows
        <5>2. \A j \in (begun[s] + 1)..(listener'.queue[1] - 1) : <<s, j>> \in seen' \/ <<s, j>> \in failed'
          <6>1. <<s, i>> \in failed' /\ failed \subseteq failed' /\ seen' = seen
            BY <3>1
          <6>2. \A j \in (begun[s] + 1)..(listener'.queue[1] - 1) : j = i \/ j \in (begun[s] + 1)..(i - 1)
            <7> HIDE DEF s, i
            <7> QED BY ONLY <5>1, <3>2, LastOfInterval
          <6>3. \A j \in (begun[s] + 1)..(i - 1) : <<s, j>> \in seen \/ <<s, j>> \in failed
            BY <3>1, <3>2 DEF QueueFollows
          <6> HIDE DEF s, i
          <6> QED BY <6>1, <6>2, <6>3
        <5>3. \A j \in 1..Len(listener'.queue) : listener'.queue[j] = listener'.queue[1] + j - 1
          BY <3>2, <3>3, <4>2
        <5> HIDE DEF s, i
        <5>4. begun'[s] = begun[s] /\ cursor'[s] < listener'.queue[1]
          BY <5>1
        <5> QED BY <3>3, <5>2, <5>3, <5>4 DEF QueueFollows
      <4> QED BY <4>1, <4>2
    <3> QED BY <3>4, <3>5, <3>6
  <2>9. ASSUME NEW u \in G!Members, NEW h \in G!Hashes, G!FindExisting(u, h)
        PROVE  UNCHANGED <<chain, listener, cursor, begun, seen, failed>>
    BY <2>9 DEF G!FindExisting, G!listenerVars
  <2>10. ASSUME NEW r \in posting, G!InsertTransfer(r)
         PROVE  UNCHANGED <<chain, listener, cursor, begun, seen, failed>>
    BY <2>10 DEF G!InsertTransfer, G!listenerVars
  <2>11. ASSUME NEW c \in conversations, G!DeleteConversation(c)
         PROVE  UNCHANGED <<chain, listener, cursor, begun, seen, failed>>
    BY <2>11 DEF G!DeleteConversation, G!listenerVars
  <2>12. ASSUME NEW ms, G!Propose(ms) PROVE UNCHANGED <<chain, listener, cursor, begun, seen, failed>>
    BY <2>12 DEF G!Propose, G!listenerVars
  <2>13. ASSUME NEW u \in G!Members, NEW row, G!FetchProposals(u) \/ G!CastVote(u, row)
         PROVE  UNCHANGED <<chain, listener, cursor, begun, seen, failed>>
    BY <2>13 DEF G!FetchProposals, G!CastVote, G!listenerVars
  <2>14. ASSUME NEW b \in ballots, G!InsertVote(b)
         PROVE  UNCHANGED <<chain, listener, cursor, begun, seen, failed>>
    BY <2>14 DEF G!InsertVote, G!listenerVars
  <2>15. CASE G!Next
    BY <2>15, <2>2, <2>4, <2>5, <2>6, <2>7, <2>8, <2>9, <2>10, <2>11, <2>12, <2>13, <2>14
       DEF G!Next, G!FetchTransfers, G!FetchTreasury, G!Streams
  <2> QED BY <2>1, <2>3, <2>15, LedgerFrame
<1> QED BY <1>1, <1>2, PTL DEF Spec

\* A member's transfer keeps the row that was answered, whatever the upserts of
\* the listener and the other members' posts make of it.
THEOREM AnswersStay == Spec => []AnsweredStays
<1> DEFINE Inv == DOMAIN transfers = G!Hashes /\ DOMAIN answered = G!Hashes
                  /\ transfers = [h \in G!Hashes |-> transfers[h]]
                  /\ answered = [h \in G!Hashes |-> answered[h]] /\ AnsweredStays
<1>1. Init => Inv
  BY DEF Init, G!Init, AnsweredStays, G!AnsweredStays
<1>2. Inv /\ [Next]_vars => Inv'
  <2> SUFFICES ASSUME Inv, [Next]_vars PROVE Inv'
    OBVIOUS
  <2> USE DEF AnsweredStays, G!AnsweredStays
  <2>1. CASE UNCHANGED <<scene, transfers, answered, conversations>>
    <3>1. G!Hashes' = G!Hashes
      BY <2>1 DEF G!Hashes
    <3> QED BY <2>1, <3>1
  <2>2. CASE G!Persist /\ UNCHANGED scene
    <3> DEFINE event == scene.events[listener.at][Head(listener.queue)]
    <3>1. \/ transfers' = transfers
          \/ \E row : transfers' = IF transfers[event.tx] = G!None THEN [transfers EXCEPT ![event.tx] = row]
                                   ELSE transfers
      BY <2>2 DEF G!Persist, G!Upsert
    <3>2. UNCHANGED <<answered, conversations>> /\ G!Hashes' = G!Hashes
      BY <2>2 DEF G!Persist, G!Hashes
    <3> HIDE DEF event
    <3> QED BY <3>1, <3>2
  <2>3. ASSUME NEW r \in posting, G!InsertTransfer(r), UNCHANGED scene PROVE Inv'
    <3>1. G!Hashes' = G!Hashes /\ UNCHANGED conversations
      BY <2>3 DEF G!InsertTransfer, G!Hashes
    <3>2. \/ UNCHANGED <<transfers, answered>>
          \/ \E row : /\ transfers' = [transfers EXCEPT ![r.tx] = row]
                      /\ answered' = [answered EXCEPT ![r.tx] = row]
      BY <2>3 DEF G!InsertTransfer
    <3> QED BY <3>1, <3>2
  <2>4. ASSUME NEW c \in conversations, G!DeleteConversation(c), UNCHANGED scene PROVE Inv'
    <3>1. /\ G!Hashes' = G!Hashes /\ UNCHANGED answered
          /\ conversations' = conversations \ {c}
          /\ transfers' = [h \in G!Hashes |-> IF transfers[h] # G!None /\ transfers[h][1].conversation = c
                                              THEN G!None ELSE transfers[h]]
      BY <2>4 DEF G!DeleteConversation, G!Hashes
    <3> QED BY <3>1
  <2>5. ASSUME G!FetchTransfers \/ G!FetchTreasury \/ G!FetchFails \/ G!EndPoll \/ G!PersistFails
        PROVE  UNCHANGED <<transfers, answered, conversations>>
    BY <2>5 DEF G!FetchTransfers, G!FetchTreasury, G!Fetch, G!FetchFails,
                G!EndPoll, G!PersistFails
  <2>6. ASSUME NEW s \in G!Streams, G!Emit(s) PROVE UNCHANGED <<transfers, answered, conversations>>
    BY <2>6 DEF G!Emit
  <2>7. ASSUME NEW u, NEW h, G!FindExisting(u, h) PROVE UNCHANGED <<transfers, answered, conversations>>
    BY <2>7 DEF G!FindExisting
  <2>8. ASSUME NEW ms, G!Propose(ms) PROVE UNCHANGED <<transfers, answered, conversations>>
    BY <2>8 DEF G!Propose
  <2>9. ASSUME NEW u, NEW row, G!FetchProposals(u) \/ G!CastVote(u, row)
        PROVE  UNCHANGED <<transfers, answered, conversations>>
    BY <2>9 DEF G!FetchProposals, G!CastVote
  <2>10. ASSUME NEW b \in ballots, G!InsertVote(b) PROVE UNCHANGED <<transfers, answered, conversations>>
    BY <2>10 DEF G!InsertVote
  <2>11. CASE UNCHANGED <<scene, ledgerVars>>
    BY <2>11, <2>1 DEF ledgerVars
  <2>12. CASE G!Next /\ UNCHANGED scene
    BY <2>12, <2>1, <2>2, <2>3, <2>4, <2>5, <2>6, <2>7, <2>8, <2>9, <2>10 DEF G!Next
  <2>13. CASE G!LoseCursors /\ UNCHANGED scene
    BY <2>13, <2>1 DEF G!LoseCursors
  <2> QED BY <2>11, <2>12, <2>13, LedgerFrame
<1> QED BY <1>1, <1>2, PTL DEF Spec

-----------------------------------------------------------------------------
(* Limits *)

\* Only the end of the processes and the part's own steps touch the budgets.
LEMMA LimitFrame ==
  ASSUME [Next]_vars
  PROVE  /\ UNCHANGED scene
         /\ \/ UNCHANGED <<restarts, limitVars>>
            \/ K!Next /\ UNCHANGED restarts
            \/ K!LoseCharges /\ restarts' = restarts + 1
<1> USE DEF otherVars, handlerVars
<1>1. CASE Store \/ Ask \/ Reply \/ AskFails
  BY <1>1 DEF Store, Ask, Reply, AskFails, StoredVars
<1>2. ASSUME NEW m \in DOMAIN sending, Deliver(m) \/ Invalidate(m) PROVE UNCHANGED <<scene, restarts, otherVars>>
  BY <1>2 DEF Deliver, Invalidate
<1>3. ASSUME NEW d \in Devices, Connect(d) \/ Disconnect(d) PROVE UNCHANGED <<scene, restarts, otherVars>>
  BY <1>3 DEF Connect, Disconnect
<1>4. ASSUME NEW v \in BOOLEAN, ReadVisible(v) PROVE UNCHANGED <<scene, restarts, otherVars>>
  BY <1>4 DEF ReadVisible
<1>5. ASSUME NEW r \in revealing, WriteVisible(r) \/ TellVisible(r) PROVE UNCHANGED <<scene, restarts, otherVars>>
  BY <1>5 DEF WriteVisible, TellVisible
<1>6. CASE PeerChanges \/ Hear
  BY <1>6 DEF PeerChanges, Hear
<1>7. CASE Restart
  BY <1>7 DEF Restart
<1>8. CASE Pushes \/ Lists \/ Histories \/ Others
  BY <1>8 DEF Pushes, Lists, Histories, Others
<1>9. CASE UNCHANGED vars
  BY <1>9 DEF vars
<1> QED BY <1>1, <1>2, <1>3, <1>4, <1>5, <1>6, <1>7, <1>8, <1>9 DEF Next

FellBackIn(w) == {f \in fellBack : f[1] = w}
Counts(m) == [DOMAIN m -> Nat]

BudgetTypes ==
  /\ scene \in Scenes
  /\ restarts \in Nat
  /\ window \in 0..scene.windows
  /\ counters \in [0..scene.windows -> Nat]
  /\ admitted \in [0..scene.windows -> Nat]
  /\ \A r \in charging : r.node \in scene.nodes /\ r.window \in 0..window

MapTypes ==
  /\ localCounters = [n \in scene.nodes |-> localCounters[n]]
  /\ \A n \in scene.nodes : localCounters[n] \in Counts(localCounters[n])
  /\ IsFiniteSet(fellBack)
  /\ \A f \in fellBack : f = <<f[1], f[2], f[3]>> /\ f[2] \in scene.nodes /\ f[3] \in 0..restarts

LimitTypes == BudgetTypes /\ MapTypes

\* What a window has spent: the n-th unit of the budget in Redis, or of the one
\* that a life of a node had to count for itself.  What a node's map has
\* forgotten is spent.
Holders(w) == {<<>>} \cup FellBackIn(w)
Spent(w, t) ==
  \/ t[1] = <<>> /\ t[2] <= counters[w]
  \/ /\ t[1] # <<>>
     /\ \/ w < window
        \/ t[1][3] # restarts
        \/ w \in DOMAIN localCounters[t[1][2]] /\ t[2] <= localCounters[t[1][2]][w]
Tokens(w) == {t \in Holders(w) \X (1..scene.limit) : Spent(w, t)}
AdmittedSpent == \A w \in 0..scene.windows : admitted[w] <= Cardinality(Tokens(w))

TokensFit ==
  \A w \in 0..scene.windows :
    /\ IsFiniteSet(Tokens(w)) /\ Cardinality(Tokens(w)) \in Nat
    /\ Cardinality(Tokens(w)) <= scene.limit * (1 + Cardinality(FellBackIn(w)))

\* There are no more tokens than the budget allows.
LEMMA TokensBounded == LimitTypes => TokensFit
<1> SUFFICES ASSUME LimitTypes, NEW w \in 0..scene.windows
             PROVE  /\ IsFiniteSet(Tokens(w)) /\ Cardinality(Tokens(w)) \in Nat
                    /\ Cardinality(Tokens(w)) <= scene.limit * (1 + Cardinality(FellBackIn(w)))
  BY DEF TokensFit
<1> DEFINE all == Holders(w) \X (1..scene.limit)
<1>1. IsFiniteSet(FellBackIn(w)) /\ Cardinality(FellBackIn(w)) \in Nat
  <2>1. FellBackIn(w) \subseteq fellBack
    BY DEF FellBackIn
  <2> QED BY <2>1, FS_Subset, FS_CardinalityType DEF LimitTypes, BudgetTypes, MapTypes
<1>2. IsFiniteSet(Holders(w)) /\ Cardinality(Holders(w)) \in Nat
      /\ Cardinality(Holders(w)) = Cardinality(FellBackIn(w)) + 1
  <2>1. <<>> \notin FellBackIn(w)
    BY DEF FellBackIn, LimitTypes, MapTypes
  <2>2. Holders(w) = FellBackIn(w) \cup {<<>>}
    BY DEF Holders
  <2> QED BY <1>1, <2>1, <2>2, FS_AddElement, FS_CardinalityType
<1>3. scene.limit \in Nat
  BY ScenesAssumption DEF LimitTypes, BudgetTypes, MapTypes
<1>4. IsFiniteSet(1..scene.limit) /\ Cardinality(1..scene.limit) = scene.limit
  <2>1. 1 \in Int /\ scene.limit \in Int
    BY <1>3
  <2>2. /\ IsFiniteSet(1..scene.limit)
        /\ Cardinality(1..scene.limit) = IF 1 > scene.limit THEN 0 ELSE scene.limit - 1 + 1
    BY <2>1, FS_Interval
  <2> QED BY <1>3, <2>2
<1>5. IsFiniteSet(all) /\ Cardinality(all) = Cardinality(Holders(w)) * scene.limit
  BY <1>2, <1>4, FS_Product
<1>6. Tokens(w) \subseteq all
  BY DEF Tokens
<1>7. IsFiniteSet(Tokens(w)) /\ Cardinality(Tokens(w)) <= Cardinality(all)
  BY <1>5, <1>6, FS_Subset
<1> QED BY <1>1, <1>2, <1>3, <1>5, <1>7, FS_CardinalityType

\* What is spent stays spent; an admission spends a token that was not.
LEMMA AdmissionSpends ==
  ASSUME LimitTypes, LimitTypes', scene' = scene, AdmittedSpent,
         NEW w \in 0..scene.windows, Tokens(w) \subseteq Tokens(w)',
         \/ admitted'[w] = admitted[w]
         \/ admitted'[w] = admitted[w] + 1 /\ Tokens(w)' # Tokens(w)
  PROVE  admitted'[w] <= Cardinality(Tokens(w)')
<1>1. IsFiniteSet(Tokens(w)) /\ Cardinality(Tokens(w)) \in Nat
  BY TokensBounded DEF TokensFit
<1>2. IsFiniteSet(Tokens(w)') /\ Cardinality(Tokens(w)') \in Nat
  <2>1. (LimitTypes => TokensFit)'
    BY TokensBounded, PTL
  <2> QED BY <2>1 DEF TokensFit
<1>3. admitted[w] \in Nat /\ admitted[w] <= Cardinality(Tokens(w))
  BY DEF LimitTypes, BudgetTypes, AdmittedSpent
<1>4. /\ Cardinality(Tokens(w)) <= Cardinality(Tokens(w)')
      /\ Cardinality(Tokens(w)) = Cardinality(Tokens(w)') => Tokens(w) = Tokens(w)'
  BY <1>2, FS_Subset
<1> QED BY <1>1, <1>2, <1>3, <1>4

\* A request is charged once, to Redis or to the map of its node.
LEMMA LimitStep ==
  ASSUME LimitTypes, K!Next, scene' = scene, restarts' = restarts
  PROVE  /\ LimitTypes'
         /\ \A w \in 0..scene.windows :
              /\ Tokens(w) \subseteq Tokens(w)'
              /\ \/ admitted'[w] = admitted[w]
                 \/ admitted'[w] = admitted[w] + 1 /\ Tokens(w)' # Tokens(w)
<1>1. scene.limit \in Nat /\ scene.windows \in Nat
  BY ScenesAssumption DEF LimitTypes, BudgetTypes, MapTypes
<1>2. CASE K!WindowRolls
  <2>1. /\ window' = window + 1 /\ window < scene.windows
        /\ UNCHANGED <<counters, localCounters, charging, admitted, fellBack>>
    BY <1>2 DEF K!WindowRolls
  <2>2. LimitTypes'
    <3>1. window' \in 0..scene.windows /\ 0..window \subseteq 0..window'
      BY <1>1, <2>1 DEF LimitTypes, BudgetTypes
    <3>2. BudgetTypes'
      BY <2>1, <3>1 DEF LimitTypes, BudgetTypes
    <3>3. MapTypes'
      BY <2>1 DEF LimitTypes, MapTypes, Counts
    <3> QED BY <3>2, <3>3 DEF LimitTypes
  <2>3. ASSUME NEW w \in 0..scene.windows PROVE Tokens(w) \subseteq Tokens(w)'
    BY <1>1, <2>1 DEF Tokens, Holders, FellBackIn, Spent, LimitTypes, BudgetTypes, MapTypes
  <2> QED BY <2>1, <2>2, <2>3
<1>3. ASSUME NEW n \in scene.nodes, K!Arrive(n)
      PROVE  LimitTypes' /\ UNCHANGED <<window, counters, localCounters, admitted, fellBack>>
  <2>1. /\ charging' = charging \cup {[node |-> n, window |-> window, nr |-> arrived]}
        /\ UNCHANGED <<window, counters, localCounters, admitted, fellBack>>
    BY <1>3 DEF K!Arrive
  <2>2. window \in 0..window
    BY <1>1 DEF LimitTypes, BudgetTypes
  <2>3. BudgetTypes'
    BY <2>1, <2>2 DEF LimitTypes, BudgetTypes
  <2>4. MapTypes'
    BY <2>1 DEF LimitTypes, MapTypes, Counts
  <2> QED BY <2>1, <2>3, <2>4 DEF LimitTypes
<1>4. CASE K!Contact \/ K!Arm \/ K!HourEnds
  <2>1. UNCHANGED <<window, counters, localCounters, charging, admitted, fellBack>>
    BY <1>4 DEF K!Contact, K!Arm, K!HourEnds
  <2> QED BY <2>1 DEF LimitTypes, BudgetTypes, MapTypes, Counts, Tokens, Holders, FellBackIn, Spent
<1>5. ASSUME NEW r \in charging, K!ChargeRedis(r)
      PROVE  /\ LimitTypes'
             /\ \A w \in 0..scene.windows :
                  /\ Tokens(w) \subseteq Tokens(w)'
                  /\ \/ admitted'[w] = admitted[w]
                     \/ admitted'[w] = admitted[w] + 1 /\ Tokens(w)' # Tokens(w)
  <2>1. /\ counters' = [counters EXCEPT ![r.window] = @ + 1] /\ charging' = charging \ {r}
        /\ UNCHANGED <<window, localCounters, fellBack>>
        /\ admitted' = IF counters'[r.window] <= scene.limit /\ r.window = window
                       THEN [admitted EXCEPT ![window] = @ + 1] ELSE admitted
    BY <1>5 DEF K!ChargeRedis, K!Admit, K!Allowed
  <2>2. r.window \in 0..scene.windows /\ window \in 0..scene.windows
    BY <1>1 DEF LimitTypes, BudgetTypes, MapTypes
  <2>3. LimitTypes'
    <3>1. counters' \in [0..scene.windows -> Nat] /\ admitted' \in [0..scene.windows -> Nat]
      BY <2>1, <2>2 DEF LimitTypes, BudgetTypes
    <3>2. BudgetTypes'
      BY <2>1, <3>1 DEF LimitTypes, BudgetTypes
    <3>3. MapTypes'
      BY <2>1 DEF LimitTypes, MapTypes, Counts
    <3> QED BY <3>2, <3>3 DEF LimitTypes
  <2>4. \A w \in 0..scene.windows : counters[w] \in Nat /\ counters'[w] \in Nat /\ counters[w] <= counters'[w]
    BY <2>1, <2>2 DEF LimitTypes, BudgetTypes, MapTypes
  <2>5. ASSUME NEW w \in 0..scene.windows PROVE Tokens(w) \subseteq Tokens(w)'
    BY <1>1, <2>1, <2>4 DEF Tokens, Holders, FellBackIn, Spent
  <2>6. ASSUME NEW w \in 0..scene.windows, admitted'[w] # admitted[w]
        PROVE  admitted'[w] = admitted[w] + 1 /\ Tokens(w)' # Tokens(w)
    <3>1. /\ w = r.window /\ w = window /\ counters'[w] <= scene.limit
          /\ admitted'[w] = admitted[w] + 1 /\ counters'[w] = counters[w] + 1
      BY <2>1, <2>2, <2>6 DEF LimitTypes, BudgetTypes, MapTypes
    <3> DEFINE t == <<<<>>, counters'[w]>>
    <3>2. t \in Tokens(w)'
      <4>1. counters'[w] \in 1..scene.limit
        BY <1>1, <2>4, <3>1
      <4> QED BY <2>1, <4>1 DEF Tokens, Holders, Spent
    <3>3. t \notin Tokens(w)
      BY <2>4, <3>1 DEF Tokens, Spent
    <3> QED BY <3>1, <3>2, <3>3
  <2> QED BY <2>3, <2>5, <2>6
<1>6. ASSUME NEW r \in charging, K!ChargeLocal(r)
      PROVE  /\ LimitTypes'
             /\ \A w \in 0..scene.windows :
                  /\ Tokens(w) \subseteq Tokens(w)'
                  /\ \/ admitted'[w] = admitted[w]
                     \/ admitted'[w] = admitted[w] + 1 /\ Tokens(w)' # Tokens(w)
  <2> DEFINE n == r.node
             v == r.window
             mine == localCounters[n]
             Before == IF v \in DOMAIN mine THEN mine[v] ELSE 0
             new == <<v, n, restarts>>
  <2>1. /\ charging' = charging \ {r} /\ localCounters' = K!Counted(r)
        /\ fellBack' = fellBack \cup {new} /\ UNCHANGED <<window, counters>>
        /\ admitted' = IF localCounters'[n][v] <= scene.limit /\ v = window
                       THEN [admitted EXCEPT ![window] = @ + 1] ELSE admitted
    BY <1>6 DEF K!ChargeLocal, K!Admit, K!Allowed
  <2>2. n \in scene.nodes /\ v \in 0..window /\ window \in 0..scene.windows /\ v \in 0..scene.windows
    BY <1>1 DEF LimitTypes, BudgetTypes, MapTypes
  <2>3. Before \in Nat
    BY <2>2 DEF LimitTypes, BudgetTypes, MapTypes, Counts
  <2>4. /\ v \in DOMAIN localCounters'[n] /\ localCounters'[n][v] = Before + 1
        /\ localCounters'[n] \in Counts(localCounters'[n])
        /\ \A w \in DOMAIN mine : w >= window => w \in DOMAIN localCounters'[n]
        /\ \A w \in DOMAIN mine \cap DOMAIN localCounters'[n] : localCounters'[n][w] >= mine[w]
    <3>1. mine \in [DOMAIN mine -> Nat] /\ localCounters = [k \in scene.nodes |-> localCounters[k]]
      BY <2>2 DEF LimitTypes, MapTypes, Counts
    <3>2. CASE v \in DOMAIN mine
      <4>1. localCounters'[n] = [mine EXCEPT ![v] = @ + 1]
        BY <2>1, <2>2, <3>1, <3>2 DEF K!Counted
      <4> HIDE DEF mine
      <4> QED BY <3>1, <3>2, <4>1 DEF Counts, Before
    <3>3. CASE v \notin DOMAIN mine
      <4>1. localCounters'[n] = [w \in K!Live(n) \cup {v} |-> IF w \in DOMAIN mine THEN mine[w] ELSE 1]
        BY <2>1, <2>2, <3>1, <3>3 DEF K!Counted
      <4>2. K!Live(n) = {w \in DOMAIN mine : w >= window}
        BY DEF K!Live
      <4> HIDE DEF mine
      <4> QED BY <3>1, <3>3, <4>1, <4>2 DEF Counts, Before
    <3> QED BY <3>2, <3>3
  <2>5. /\ localCounters' = [k \in scene.nodes |-> localCounters'[k]]
        /\ \A k \in scene.nodes : k # n => localCounters'[k] = localCounters[k]
    <3>1. localCounters = [k \in scene.nodes |-> localCounters[k]]
      BY DEF LimitTypes, MapTypes
    <3> QED BY <2>1, <2>2, <3>1 DEF K!Counted
  <2> HIDE DEF Before
  <2>6. LimitTypes'
    <3>1. IsFiniteSet(fellBack')
      BY <2>1, FS_AddElement DEF LimitTypes, BudgetTypes, MapTypes
    <3>2. \A k \in scene.nodes : localCounters'[k] \in Counts(localCounters'[k])
      <4>1. ASSUME NEW k \in scene.nodes, k # n PROVE localCounters'[k] \in Counts(localCounters'[k])
        BY <2>5, <4>1 DEF LimitTypes, MapTypes
      <4> QED BY <2>4, <4>1
    <3>3. admitted' \in [0..scene.windows -> Nat]
      BY <2>1, <2>2 DEF LimitTypes, BudgetTypes, MapTypes
    <3>4. \A f \in fellBack' : f = <<f[1], f[2], f[3]>> /\ f[2] \in scene.nodes /\ f[3] \in 0..restarts
      BY <2>1, <2>2 DEF LimitTypes, BudgetTypes, MapTypes
    <3>5. \A q \in charging' : q.node \in scene.nodes /\ q.window \in 0..window
      BY <2>1 DEF LimitTypes, BudgetTypes, MapTypes
    <3> QED BY <1>1, <2>1, <2>5, <3>1, <3>2, <3>3, <3>4, <3>5 DEF LimitTypes, BudgetTypes, MapTypes
  <2>7. ASSUME NEW w \in 0..scene.windows PROVE Tokens(w) \subseteq Tokens(w)'
    <3> SUFFICES ASSUME NEW t \in Tokens(w) PROVE t \in Tokens(w)'
      OBVIOUS
    <3>1. t \in Holders(w)' \X (1..scene.limit)'
      BY <2>1 DEF Tokens, Holders, FellBackIn
    <3>2. CASE t[1] = <<>> \/ w < window \/ t[1][3] # restarts
      BY <2>1, <3>1, <3>2 DEF Tokens, Spent
    <3>3. CASE /\ t[1] # <<>> /\ w >= window
               /\ w \in DOMAIN localCounters[t[1][2]] /\ t[2] <= localCounters[t[1][2]][w]
      <4>1. t[2] \in Nat /\ t[1] \in fellBack /\ t[1][2] \in scene.nodes
        BY <1>1, <3>3 DEF Tokens, Holders, FellBackIn, LimitTypes, BudgetTypes, MapTypes
      <4>2. w \in DOMAIN localCounters'[t[1][2]] /\ localCounters'[t[1][2]][w] >= localCounters[t[1][2]][w]
        <5>1. localCounters[t[1][2]] \in Counts(localCounters[t[1][2]])
          BY <4>1 DEF LimitTypes, MapTypes
        <5>2. localCounters[t[1][2]][w] \in Nat
          BY <5>1, <3>3 DEF Counts
        <5>3. CASE t[1][2] = n
          BY <2>4, <3>3, <5>3
        <5>4. CASE t[1][2] # n
          BY <2>5, <3>3, <4>1, <5>2, <5>4
        <5> QED BY <5>3, <5>4
      <4>3. localCounters[t[1][2]][w] \in Nat /\ localCounters'[t[1][2]][w] \in Nat
        BY <2>6, <3>3, <4>1, <4>2 DEF LimitTypes, BudgetTypes, MapTypes, Counts
      <4> QED BY <2>1, <3>1, <3>3, <4>1, <4>2, <4>3 DEF Tokens, Spent
    <3>4. w >= window \/ w < window
      BY <1>1, <2>2
    <3> QED BY <3>2, <3>3, <3>4 DEF Tokens, Spent
  <2>8. ASSUME NEW w \in 0..scene.windows, admitted'[w] # admitted[w]
        PROVE  admitted'[w] = admitted[w] + 1 /\ Tokens(w)' # Tokens(w)
    <3>1. w = v /\ w = window /\ Before + 1 <= scene.limit /\ admitted'[w] = admitted[w] + 1
      BY <2>1, <2>2, <2>4, <2>8 DEF LimitTypes, BudgetTypes, MapTypes
    <3> PICK t : t = <<new, Before + 1>>
      OBVIOUS
    <3>2. new # <<>> /\ new[1] = v /\ new[2] = n /\ new[3] = restarts /\ t[1] = new /\ t[2] = Before + 1
      OBVIOUS
    <3>3. t \in Tokens(w)'
      <4>1. Before + 1 \in 1..scene.limit
        BY <1>1, <2>3, <3>1
      <4>2. new \in Holders(w)'
        BY <2>1, <3>1, <3>2 DEF Holders, FellBackIn
      <4>3. Spent(w, t)'
        <5>1. t[2] <= localCounters'[t[1][2]][w] /\ w \in DOMAIN localCounters'[t[1][2]]
          BY <2>3, <2>4, <3>1, <3>2
        <5> QED BY <5>1, <3>2 DEF Spent
      <4>4. t \in Holders(w)' \X (1..scene.limit)'
        BY <4>1, <4>2, <3>2
      <4> QED BY <4>3, <4>4 DEF Tokens
    <3>4. t \notin Tokens(w)
      <4>1. ~(w < window) /\ ~(w \in DOMAIN mine /\ Before + 1 <= mine[w])
        BY <2>2, <2>3, <3>1 DEF Before
      <4> QED BY <3>2, <4>1 DEF Tokens, Spent
    <3> QED BY <3>1, <3>3, <3>4
  <2> QED BY <2>6, <2>7, <2>8
<1>7. ASSUME UNCHANGED <<window, counters, localCounters, admitted, fellBack>>
      PROVE  \A w \in 0..scene.windows : Tokens(w) \subseteq Tokens(w)' /\ admitted'[w] = admitted[w]
  BY <1>7 DEF Tokens, Holders, FellBackIn, Spent
<1> QED BY <1>2, <1>3, <1>4, <1>5, <1>6, <1>7 DEF K!Next

\* A restart gives a node a new budget, and spends what is left of the old one.
LEMMA RestartSpends ==
  ASSUME LimitTypes, K!LoseCharges, scene' = scene, restarts' = restarts + 1
  PROVE  /\ LimitTypes' /\ admitted' = admitted
         /\ \A w \in 0..scene.windows : Tokens(w) \subseteq Tokens(w)'
<1>1. /\ charging' = {} /\ localCounters' = [n \in scene.nodes |-> [w \in {} |-> 0]]
      /\ UNCHANGED <<window, counters, admitted, fellBack>>
  BY DEF K!LoseCharges
<1>2. LimitTypes'
  BY <1>1 DEF LimitTypes, BudgetTypes, MapTypes, Counts
<1>3. ASSUME NEW w \in 0..scene.windows, NEW t \in Tokens(w) PROVE t \in Tokens(w)'
  <2>1. t \in Holders(w)' \X (1..scene.limit)'
    BY <1>1 DEF Tokens, Holders, FellBackIn
  <2>2. t[1] # <<>> => t[1][3] # restarts + 1
    BY DEF Tokens, Holders, FellBackIn, LimitTypes, BudgetTypes, MapTypes
  <2> QED BY <1>1, <2>1, <2>2 DEF Tokens, Spent
<1> QED BY <1>1, <1>2, <1>3

\* A window admits no more than its budget, once for Redis and once for each life
\* of a node that counted for itself (consumeRateLimit, consumeLocally).
THEOREM BudgetsHold == Spec => []WithinBudget
<1> DEFINE Inv == LimitTypes /\ AdmittedSpent
<1>1. Init => Inv
  <2> SUFFICES ASSUME Init PROVE Inv
    OBVIOUS
  <2>1. scene \in Scenes /\ scene.limit \in Nat /\ scene.windows \in Nat
    BY ScenesAssumption DEF Init
  <2>2. LimitTypes
    BY <2>1, FS_EmptySet DEF Init, K!Init, LimitTypes, BudgetTypes, MapTypes, Counts
  <2>3. \A w \in 0..scene.windows : admitted[w] = 0 /\ Cardinality(Tokens(w)) \in Nat
    BY <2>2, TokensBounded DEF TokensFit, Init, K!Init
  <2> QED BY <2>2, <2>3 DEF AdmittedSpent
<1>2. Inv /\ [Next]_vars => Inv'
  <2> SUFFICES ASSUME Inv, [Next]_vars PROVE Inv'
    OBVIOUS
  <2>1. CASE UNCHANGED <<scene, restarts, limitVars>>
    <3>1. LimitTypes'
      BY <2>1 DEF limitVars, LimitTypes, BudgetTypes, MapTypes, Counts
    <3>2. \A w \in 0..scene.windows : Tokens(w)' = Tokens(w)
      BY <2>1 DEF limitVars, Tokens, Holders, FellBackIn, Spent
    <3> QED BY <2>1, <3>1, <3>2 DEF AdmittedSpent, limitVars
  <2>2. CASE K!Next /\ UNCHANGED <<scene, restarts>>
    BY <2>2, LimitStep, AdmissionSpends DEF AdmittedSpent
  <2>3. CASE K!LoseCharges /\ scene' = scene /\ restarts' = restarts + 1
    BY <2>3, RestartSpends, AdmissionSpends DEF AdmittedSpent
  <2> QED BY <2>1, <2>2, <2>3, LimitFrame
<1>3. Inv => WithinBudget
  <2> SUFFICES ASSUME Inv, NEW w \in 0..window
               PROVE  admitted[w] <= scene.limit * (1 + Cardinality(FellBackIn(w)))
    BY DEF WithinBudget, K!WithinBudget, FellBackIn, Cardinality, K!Cardinality
  <2>1. scene.limit \in Nat /\ scene.windows \in Nat /\ w \in 0..scene.windows
    BY ScenesAssumption DEF LimitTypes, BudgetTypes, MapTypes
  <2>2. admitted[w] \in Nat /\ admitted[w] <= Cardinality(Tokens(w))
    BY <2>1 DEF AdmittedSpent, LimitTypes, BudgetTypes, MapTypes
  <2>3. /\ Cardinality(Tokens(w)) \in Nat
        /\ Cardinality(Tokens(w)) <= scene.limit * (1 + Cardinality(FellBackIn(w)))
    BY <2>1, TokensBounded DEF TokensFit
  <2>4. Cardinality(FellBackIn(w)) \in Nat
    <3>1. FellBackIn(w) \subseteq fellBack
      BY DEF FellBackIn
    <3> QED BY <3>1, FS_Subset, FS_CardinalityType DEF LimitTypes, BudgetTypes, MapTypes
  <2>5. scene.limit * (1 + Cardinality(FellBackIn(w))) \in Nat
    BY <2>1, <2>4
  <2> HIDE DEF Inv
  <2> QED BY <2>2, <2>3, <2>5
<1> QED BY <1>1, <1>2, <1>3, PTL DEF Spec

-----------------------------------------------------------------------------
(* ConversationList *)

\* A list knows all but the messages whose handlers are under way and what was
\* written while it was read; so for the setting and the name.
KnowsAllBut(read) ==
  /\ \A m \in (read.known + 1)..stored : m \in DOMAIN sending \/ <<"message", m>> \in raced
  /\ read.muted = L!Muted \/ setting \/ <<"setting", 0>> \in raced
  /\ read.name = name \/ naming > 0 \/ <<"name", 0>> \in raced

\* The list that is on its way to the cache is as good as the cached one.
ListInv ==
  /\ stored \in Nat /\ naming \in Nat
  /\ cache # L!None => KnowsAllBut(cache[1])
  /\ request = "reading" => KnowsAllBut(list[1])

\* The steps of the handlers that are not of the list's own
LEMMA ListStored ==
  ASSUME ListInv, StoredVars PROVE ListInv'
<1>1. /\ stored' = stored + 1
      /\ sending' = WithStored(stored + 1)
      /\ UNCHANGED <<scene, muted, cache, setting, name, naming, request, list, raced>>
  BY DEF StoredVars, sidebarVars
<1>2. L!Muted' = L!Muted
  BY <1>1 DEF L!Muted, L!Conversations, L!Me
<1>3. DOMAIN sending' = DOMAIN sending \cup {stored + 1}
  BY <1>1 DEF WithStored
<1>4. \A a : \A m \in (a + 1)..stored' : m = stored + 1 \/ m \in (a + 1)..stored
  BY <1>1 DEF ListInv
<1> QED BY <1>1, <1>2, <1>3, <1>4 DEF ListInv, KnowsAllBut

LEMMA ListForgets ==
  ASSUME ListInv, NEW what, L!Forget(what), UNCHANGED <<scene, stored, muted, name, request, list>>,
         \/ what = <<"message", what[2]>> /\ sending' = Without(what[2]) /\ UNCHANGED <<setting, naming>>
         \/ what = <<"setting", 0>> /\ UNCHANGED <<sending, naming>>
         \/ what = <<"name", 0>> /\ naming' \in Nat /\ UNCHANGED <<sending, setting>>
  PROVE  ListInv'
<1>1. L!Muted' = L!Muted
  BY DEF L!Muted, L!Conversations, L!Me
<1>2. /\ cache' = L!None
      /\ request = "reading" => raced' = raced \cup {what}
  BY DEF L!Forget, L!Emptied
<1>3. naming' \in Nat
  BY DEF ListInv
<1>4. ASSUME request = "reading" PROVE KnowsAllBut(list[1])'
  BY <1>1, <1>2, <1>4 DEF ListInv, KnowsAllBut, Without
<1> QED BY <1>2, <1>3, <1>4 DEF ListInv

LEMMA ListLoses ==
  ASSUME ListInv, Restart PROVE ListInv'
<1>1. /\ UNCHANGED <<scene, stored, muted, cache, name>> /\ naming' = 0 /\ request' = "idle"
      /\ raced' = raced \cup {<<"message", m>> : m \in DOMAIN sending}
                        \cup (IF setting THEN {<<"setting", 0>>} ELSE {})
                        \cup (IF naming > 0 THEN {<<"name", 0>>} ELSE {})
  BY DEF Restart, L!LoseRequests
<1>2. L!Muted' = L!Muted
  BY <1>1 DEF L!Muted, L!Conversations, L!Me
<1>3. ASSUME NEW read, KnowsAllBut(read) PROVE KnowsAllBut(read)'
  BY <1>1, <1>2, <1>3 DEF KnowsAllBut
<1> QED BY <1>1, <1>3 DEF ListInv

\* The steps of GET /conversations, the settings and the names
LEMMA ListSteps ==
  ASSUME ListInv, L!Next, UNCHANGED <<scene, sending>> PROVE ListInv'
<1> DEFINE same == <<stored, muted, cache, setting, name, naming, request, list, raced>>
           shared == <<stored, muted, setting, name, naming>>
<1>1. ASSUME UNCHANGED shared PROVE \A read : raced \subseteq raced' /\ KnowsAllBut(read) => KnowsAllBut(read)'
  BY <1>1 DEF KnowsAllBut, L!Muted, L!Conversations, L!Me
<1>2. CASE L!ServeCached
  BY <1>1, <1>2 DEF L!ServeCached, L!serverVars, ListInv
<1>3. CASE L!ReadRows
  <2>1. /\ request' = "reading" /\ list' = <<L!List>> /\ cache' = L!None /\ UNCHANGED shared
    BY <1>3 DEF L!ReadRows, L!serverVars
  <2>2. /\ list'[1].known = stored' /\ list'[1].muted = L!Muted' /\ list'[1].name = name'
    BY <2>1 DEF L!List, L!Muted, L!Conversations, L!Me
  <2>3. (stored + 1)..stored = {}
    BY DEF ListInv
  <2> QED BY <2>1, <2>2, <2>3 DEF ListInv, KnowsAllBut
<1>4. CASE L!WriteCache
  BY <1>1, <1>4 DEF L!WriteCache, ListInv
<1>5. CASE L!DropForSetting
  BY <1>5, ListForgets DEF L!DropForSetting
<1>6. CASE L!WriteName
  <2>1. naming' = naming + 1 /\ UNCHANGED <<stored, muted, setting, cache, request, list, raced>>
    BY <1>6 DEF L!WriteName
  <2>2. naming' \in Nat /\ naming' > 0
    BY <2>1 DEF ListInv
  <2> QED BY <2>1, <2>2 DEF ListInv, KnowsAllBut, L!Muted, L!Conversations, L!Me
<1>7. CASE L!DropForName
  <2>1. naming' \in Nat
    BY <1>7 DEF L!DropForName, ListInv
  <2> QED BY <1>7, <2>1, ListForgets DEF L!DropForName
<1>8. CASE L!Expire
  BY <1>1, <1>8 DEF L!Expire, ListInv
<1>9. ASSUME NEW c \in L!Conversations, L!WriteSetting(c) PROVE ListInv'
  <2>1. setting' = TRUE /\ UNCHANGED <<stored, name, naming, cache, request, list, raced>>
    BY <1>9 DEF L!WriteSetting
  <2> QED BY <2>1 DEF ListInv, KnowsAllBut
<1>10. ASSUME NEW c \in L!Conversations, L!Select(c) PROVE ListInv'
  BY <1>1, <1>10 DEF L!Select, L!serverVars, ListInv
<1>11. ASSUME NEW r \in reads, L!MessageRead(r) PROVE ListInv'
  BY <1>1, <1>11 DEF L!MessageRead, ListInv
<1>12. CASE L!Mount
  BY <1>1, <1>12 DEF L!Mount, L!serverVars, ListInv
<1>13. CASE L!Seed
  BY <1>1, <1>13 DEF L!Seed, L!serverVars, ListInv
<1>14. CASE L!TakePresence \/ L!OfflineTimer
  BY <1>1, <1>14 DEF L!TakePresence, L!OfflineTimer, L!serverVars, ListInv
<1> QED BY <1>2, <1>3, <1>4, <1>5, <1>6, <1>7, <1>8, <1>9, <1>10, <1>11, <1>12, <1>13, <1>14 DEF L!Next

\* A cached list is stale only for what is on its way to the cache, or was
\* written while the list was read (GET /conversations, PATCH, send_message).
THEOREM CacheIsStaleOnlyInRaces == Spec => []StaleOnlyInRace
<1>1. Init => ListInv
  BY DEF Init, L!Init, ListInv
<1>2. ListInv /\ [Next]_vars => ListInv'
  <2> SUFFICES ASSUME ListInv, [Next]_vars PROVE ListInv'
    OBVIOUS
  <2>1. CASE UNCHANGED <<scene, sending, stored, muted, cache, setting, name, naming, request, list, raced>>
    BY <2>1 DEF ListInv, KnowsAllBut, L!Muted, L!Conversations, L!Me
  <2>2. CASE Store \/ Reply
    BY <2>2, ListStored DEF Store, Reply
  <2>3. ASSUME NEW m \in DOMAIN sending, Deliver(m) PROVE ListInv'
    <3>1. /\ DOMAIN sending' = DOMAIN sending
          /\ UNCHANGED <<scene, stored, muted, cache, setting, name, naming, request, list, raced>>
      BY <2>3 DEF Deliver, serverVars, sidebarVars
    <3> QED BY <3>1 DEF ListInv, KnowsAllBut, L!Muted, L!Conversations, L!Me
  <2>4. ASSUME NEW m \in DOMAIN sending, Invalidate(m) PROVE ListInv'
    <3>1. /\ L!Forget(<<"message", m>>) /\ sending' = Without(m)
          /\ UNCHANGED <<scene, stored, muted, setting, name, naming, request, list>>
      BY <2>4 DEF Invalidate, sidebarVars
    <3> QED BY <3>1, ListForgets
  <2>5. CASE Restart
    BY <2>5, ListLoses
  <2>6. CASE Lists
    <3>1. CASE L!Next /\ UNCHANGED <<scene, sending>>
      BY <3>1, ListSteps
    <3>2. ASSUME NEW status, L!AnswerPresence(status), UNCHANGED <<scene, sending>> PROVE ListInv'
      BY <3>2, <2>1 DEF L!AnswerPresence, L!serverVars, L!badgeVars
    <3> QED BY <2>6, <3>1, <3>2 DEF Lists, handlerVars
  <2> USE DEF listVars, serverVars, sidebarVars, handlerVars, peerVars
  <2>7. CASE Ask \/ AskFails
    BY <2>7, <2>1 DEF Ask, AskFails
  <2>8. ASSUME NEW d \in Devices, Connect(d) \/ Disconnect(d) PROVE ListInv'
    BY <2>8, <2>1 DEF Connect, Disconnect
  <2>9. ASSUME NEW v \in BOOLEAN, ReadVisible(v) PROVE ListInv'
    BY <2>9, <2>1 DEF ReadVisible
  <2>10. ASSUME NEW r \in revealing, WriteVisible(r) \/ TellVisible(r) PROVE ListInv'
    BY <2>10, <2>1 DEF WriteVisible, TellVisible
  <2>11. CASE PeerChanges
    BY <2>11, <2>1 DEF PeerChanges
  <2>12. CASE Hear
    BY <2>12, <2>1 DEF Hear, L!Hear, L!serverVars
  <2>13. CASE Pushes \/ Histories \/ Others
    BY <2>13, <2>1 DEF Pushes, Histories, Others
  <2>14. CASE UNCHANGED vars
    BY <2>14, <2>1 DEF vars
  <2> QED BY <2>2, <2>3, <2>4, <2>5, <2>6, <2>7, <2>8, <2>9, <2>10, <2>11, <2>12, <2>13, <2>14 DEF Next
<1>3. ListInv => StaleOnlyInRace
  BY DEF ListInv, KnowsAllBut, StaleOnlyInRace
<1> QED BY <1>1, <1>2, <1>3, PTL DEF Spec

\* What the socket brings is about a message that exists, or about the peer.
Events == [kind : {"new_message"}, of : Nat \ {0}] \cup [kind : {"online", "offline"}, of : {0}]
WireTypes ==
  /\ wire \in Seq(Events)
  /\ \A i \in 1..Len(wire) : wire[i].of <= stored
  /\ stored \in Nat
  /\ DOMAIN sending \subseteq 1..stored

LEMMA WireAppend ==
  ASSUME WireTypes, NEW event \in Events
  PROVE  LET after == Toward(event) IN
         /\ after \in Seq(Events)
         /\ \A i \in 1..Len(wire) : i \in 1..Len(after) /\ after[i] = wire[i]
         /\ \A i \in 1..Len(after) : i \in 1..Len(wire) \/ after[i] = event
         /\ P!IsOnline(scene.me) => \E i \in 1..Len(after) : after[i] = event
<1>1. CASE ~P!IsOnline(scene.me)
  BY <1>1 DEF WireTypes, Toward
<1>2. CASE P!IsOnline(scene.me)
  <2>1. Toward(event) = Append(wire, event)
    BY <1>2 DEF Toward
  <2>2. Len(Append(wire, event)) = Len(wire) + 1 /\ Len(wire) \in Nat
    BY DEF WireTypes
  <2>3. Append(wire, event)[Len(wire) + 1] = event /\ Len(wire) + 1 \in 1..Len(Append(wire, event))
    BY <2>2 DEF WireTypes
  <2>4. \A i \in 1..Len(wire) : Append(wire, event)[i] = wire[i] /\ i \in 1..Len(Append(wire, event))
    BY <2>2 DEF WireTypes
  <2>5. \A i \in 1..Len(Append(wire, event)) : i \in 1..Len(wire) \/ i = Len(wire) + 1
    BY <2>2
  <2>6. Append(wire, event) \in Seq(Events)
    BY DEF WireTypes
  <2> QED BY <2>1, <2>3, <2>4, <2>5, <2>6
<1> QED BY <1>1, <1>2

LEMMA WireGrows ==
  ASSUME WireTypes, NEW event \in Events, event.of <= stored, wire' = Toward(event),
         stored' = stored, DOMAIN sending' \subseteq DOMAIN sending
  PROVE  WireTypes'
BY WireAppend DEF WireTypes

LEMMA WireStep ==
  ASSUME WireTypes, peer \in {"online", "offline"}, [Next]_vars PROVE WireTypes'
<1> USE DEF listVars, serverVars, sidebarVars, handlerVars, peerVars
<1>1. CASE UNCHANGED <<wire, stored, sending>>
  BY <1>1 DEF WireTypes
<1>2. CASE Store \/ Reply
  <2>1. stored' = stored + 1 /\ sending' = WithStored(stored + 1) /\ UNCHANGED wire
    BY <1>2 DEF Store, Reply, StoredVars
  <2>2. DOMAIN sending' \subseteq 1..stored' /\ stored' \in Nat
    BY <2>1 DEF WireTypes, WithStored
  <2>3. \A i \in 1..Len(wire) : wire[i].of <= stored'
    <3>1. \A i \in 1..Len(wire) : wire[i].of \in Nat
      BY DEF WireTypes, Events
    <3> QED BY <2>1, <3>1 DEF WireTypes
  <2> QED BY <2>1, <2>2, <2>3 DEF WireTypes
<1>3. ASSUME NEW m \in DOMAIN sending, Deliver(m) PROVE WireTypes'
  <2> DEFINE event == [kind |-> "new_message", of |-> m]
  <2>1. event \in Events /\ event.of <= stored
    BY DEF Events, WireTypes
  <2>2. wire' = Toward(event) /\ stored' = stored /\ DOMAIN sending' = DOMAIN sending
    BY <1>3 DEF Deliver
  <2> HIDE DEF event
  <2> QED BY <2>1, <2>2, WireGrows
<1>4. ASSUME NEW m \in DOMAIN sending, Invalidate(m) PROVE WireTypes'
  BY <1>4 DEF Invalidate, Without, WireTypes
<1>5. ASSUME NEW r \in revealing, TellVisible(r) PROVE WireTypes'
  <2> DEFINE event == [kind |-> IF r.new THEN "online" ELSE "offline", of |-> 0]
  <2>1. event \in Events /\ event.of <= stored
    BY DEF Events, WireTypes
  <2>2. wire' \in {wire, Toward(event)} /\ UNCHANGED <<stored, sending>>
    BY <1>5 DEF TellVisible
  <2> HIDE DEF event
  <2> QED BY <1>1, <2>1, <2>2, WireGrows
<1>6. CASE PeerChanges
  <2>1. PICK event : event = [kind |-> peer', of |-> 0]
    OBVIOUS
  <2>2. event \in Events /\ event.of <= stored
    BY <1>6, <2>1 DEF PeerChanges, Events, WireTypes
  <2>3. wire' \in {wire, Toward(event)} /\ UNCHANGED <<stored, sending>>
    BY <1>6, <2>1 DEF PeerChanges
  <2> QED BY <1>1, <2>2, <2>3, WireGrows
<1>7. CASE Hear
  <2>1. wire # <<>> /\ wire' = Tail(wire) /\ UNCHANGED <<stored, sending>>
    BY <1>7 DEF Hear, L!Hear, L!serverVars
  <2>2. Len(Tail(wire)) = Len(wire) - 1 /\ \A i \in 1..Len(Tail(wire)) : Tail(wire)[i] = wire[i + 1]
    BY <2>1 DEF WireTypes
  <2> QED BY <2>1, <2>2 DEF WireTypes
<1>8. CASE Restart
  BY <1>8 DEF Restart, L!LoseRequests, WireTypes
<1>9. CASE Lists
  <2>1. ASSUME NEW status, L!AnswerPresence(status) PROVE UNCHANGED <<wire, stored>>
    BY <2>1 DEF L!AnswerPresence, L!serverVars
  <2>2. UNCHANGED <<wire, stored>>
    BY <1>9, <2>1 DEF Lists, L!Next, L!ServeCached, L!ReadRows, L!WriteCache, L!DropForSetting,
                L!WriteName, L!DropForName, L!Expire, L!WriteSetting, L!Select, L!MessageRead, L!Mount,
                L!Seed, L!TakePresence, L!OfflineTimer, L!serverVars
  <2> QED BY <1>1, <1>9, <2>2 DEF Lists
<1>10. CASE Ask \/ AskFails
  BY <1>10, <1>1 DEF Ask, AskFails
<1>11. ASSUME NEW d \in Devices, Connect(d) \/ Disconnect(d) PROVE WireTypes'
  BY <1>11, <1>1 DEF Connect, Disconnect
<1>12. ASSUME NEW v \in BOOLEAN, ReadVisible(v) PROVE WireTypes'
  BY <1>12, <1>1 DEF ReadVisible
<1>13. ASSUME NEW r \in revealing, WriteVisible(r) PROVE WireTypes'
  BY <1>13, <1>1 DEF WriteVisible
<1>14. CASE Pushes \/ Histories \/ Others
  BY <1>14, <1>1 DEF Pushes, Histories, Others
<1>15. CASE UNCHANGED vars
  BY <1>15, <1>1 DEF vars
<1> QED BY <1>2, <1>3, <1>4, <1>5, <1>6, <1>7, <1>8, <1>9, <1>10, <1>11, <1>12, <1>13, <1>14, <1>15
        DEF Next

\* What others believe of a peer: until something comes between the steps of a
\* change, one change is under way, and who hid was not told of as online.
Changes == [pc : {"read", "written"}, old : BOOLEAN, new : BOOLEAN]
RevealTypes ==
  /\ peer \in {"online", "offline"}
  /\ visible \in BOOLEAN
  /\ revealing \subseteq Changes
Kept(r) ==
  /\ r.pc = "read" => r.old = visible /\ (~visible => told # "online")
  /\ r.pc = "written" => visible = r.new /\ (~r.old => told # "online")
RevealInv ==
  ~disturbed =>
    /\ \A r, q \in revealing : r = q
    /\ told = "online" => peer = "online"
    /\ ~visible /\ revealing = {} => told # "online"
    /\ \A r \in revealing : Kept(r)

LEMMA RevealStep ==
  ASSUME RevealTypes, RevealInv, [Next]_vars PROVE RevealTypes' /\ RevealInv'
<1> USE DEF handlerVars, peerVars
<1>1. CASE UNCHANGED peerVars
  BY <1>1 DEF RevealTypes, RevealInv, Kept
<1>2. CASE Store \/ Ask \/ Reply \/ AskFails
  BY <1>2, <1>1 DEF Store, Ask, Reply, AskFails, StoredVars
<1>3. ASSUME NEW m \in DOMAIN sending, Deliver(m) \/ Invalidate(m) PROVE UNCHANGED peerVars
  BY <1>3 DEF Deliver, Invalidate
<1>4. ASSUME NEW d \in Devices, Connect(d) \/ Disconnect(d) PROVE UNCHANGED peerVars
  BY <1>4 DEF Connect, Disconnect
<1>5. CASE PeerChanges
  <2>1. /\ peer' = IF peer = "online" THEN "offline" ELSE "online"
        /\ told' = IF visible THEN peer' ELSE told
        /\ disturbed' = (disturbed \/ revealing # {})
        /\ UNCHANGED <<visible, revealing>>
    BY <1>5 DEF PeerChanges
  <2>2. RevealTypes'
    BY <2>1 DEF RevealTypes
  <2>3. RevealInv'
    BY <2>1 DEF RevealInv, RevealTypes
  <2> QED BY <2>2, <2>3
<1>6. ASSUME NEW v \in BOOLEAN, ReadVisible(v) PROVE RevealTypes' /\ RevealInv'
  <2> DEFINE new == [pc |-> "read", old |-> visible, new |-> v]
  <2>1. /\ revealing' = revealing \cup {new}
        /\ disturbed' = (disturbed \/ revealing # {})
        /\ UNCHANGED <<peer, visible, told>>
    BY <1>6 DEF ReadVisible
  <2>2. new \in Changes /\ new.pc = "read" /\ new.old = visible
    BY DEF Changes, RevealTypes
  <2> HIDE DEF new
  <2>3. RevealTypes'
    BY <2>1, <2>2 DEF RevealTypes
  <2>4. RevealInv'
    BY <2>1, <2>2 DEF RevealInv, RevealTypes, Kept
  <2> QED BY <2>3, <2>4
<1>7. ASSUME NEW r \in revealing, WriteVisible(r) PROVE RevealTypes' /\ RevealInv'
  <2> DEFINE new == [r EXCEPT !.pc = "written"]
  <2>1. /\ revealing' = (revealing \ {r}) \cup {new} /\ r.pc = "read"
        /\ visible' = r.new /\ UNCHANGED <<peer, told, disturbed>>
    BY <1>7 DEF WriteVisible
  <2>2. new \in Changes /\ new.pc = "written" /\ new.old = r.old /\ new.new = r.new /\ r.new \in BOOLEAN
    BY DEF Changes, RevealTypes
  <2> HIDE DEF new
  <2>3. RevealTypes'
    BY <2>1, <2>2 DEF RevealTypes
  <2>4. RevealInv'
    BY <2>1, <2>2 DEF RevealInv, RevealTypes, Kept
  <2> QED BY <2>3, <2>4
<1>8. ASSUME NEW r \in revealing, TellVisible(r) PROVE RevealTypes' /\ RevealInv'
  <2>1. /\ revealing' = revealing \ {r} /\ r.pc = "written"
        /\ told' = IF r.new # r.old /\ peer = "online" THEN (IF r.new THEN "online" ELSE "offline") ELSE told
        /\ UNCHANGED <<peer, visible, disturbed>>
    BY <1>8 DEF TellVisible, Announced
  <2>2. r.new \in BOOLEAN /\ r.old \in BOOLEAN
    BY DEF Changes, RevealTypes
  <2>3. RevealTypes'
    BY <2>1 DEF RevealTypes
  <2>4. RevealInv'
    BY <2>1, <2>2 DEF RevealInv, RevealTypes, Kept
  <2> QED BY <2>3, <2>4
<1>9. CASE Restart
  <2>1. /\ revealing' = {} /\ disturbed' = (disturbed \/ revealing # {})
        /\ UNCHANGED <<peer, visible, told>>
    BY <1>9 DEF Restart
  <2> QED BY <2>1 DEF RevealTypes, RevealInv
<1>10. CASE Hear \/ Pushes \/ Lists \/ Histories \/ Others
  BY <1>10, <1>1 DEF Hear, Pushes, Lists, Histories, Others
<1>11. CASE UNCHANGED vars
  BY <1>11, <1>1 DEF vars
<1> QED BY <1>1, <1>2, <1>3, <1>4, <1>5, <1>6, <1>7, <1>8, <1>9, <1>10, <1>11 DEF Next

\* Only the sidebar's own handlers and timer touch what it shows.
LEMMA ShownStep ==
  ASSUME WireTypes, L!LastPresenceShows, [Next]_vars PROVE L!LastPresenceShows'
<1> USE DEF L!LastPresenceShows, listVars, sidebarVars
<1>1. CASE UNCHANGED <<offlineTimer, last, peerShown>>
  BY <1>1
<1>2. CASE Hear
  <2>1. L!Hear /\ Head(wire) \in Events
    BY <1>2 DEF Hear, L!Hear, WireTypes
  <2>2. Head(wire).kind \in {"new_message", "online", "offline"}
    BY <2>1 DEF Events
  <2> QED BY <2>1, <2>2 DEF L!Hear, L!HandleNewMessage, L!HandlePresence, L!TimerStopped
<1>3. CASE Lists
  <2>1. ASSUME NEW status, L!AnswerPresence(status) PROVE UNCHANGED <<offlineTimer, last, peerShown>>
    BY <2>1 DEF L!AnswerPresence
  <2>2. CASE L!TakePresence
    BY <2>2 DEF L!TakePresence
  <2>3. CASE L!OfflineTimer
    BY <2>3 DEF L!OfflineTimer
  <2>4. CASE L!Next
    BY <2>2, <2>3, <2>4, <1>1
       DEF L!Next, L!ServeCached, L!ReadRows, L!WriteCache, L!DropForSetting, L!WriteName,
           L!DropForName, L!Expire, L!WriteSetting, L!Select, L!MessageRead, L!Mount, L!Seed, L!peerVars
  <2> QED BY <1>1, <1>3, <2>1, <2>4 DEF Lists
<1>4. CASE Store \/ Ask \/ Reply \/ AskFails
  BY <1>4, <1>1 DEF Store, Ask, Reply, AskFails, StoredVars
<1>5. ASSUME NEW m \in DOMAIN sending, Deliver(m) \/ Invalidate(m) 
      PROVE  UNCHANGED <<offlineTimer, last, peerShown>>
  BY <1>5 DEF Deliver, Invalidate
<1>6. ASSUME NEW d \in Devices, Connect(d) \/ Disconnect(d) PROVE UNCHANGED sidebarVars
  BY <1>6 DEF Connect, Disconnect
<1>7. ASSUME NEW v \in BOOLEAN, ReadVisible(v) PROVE UNCHANGED sidebarVars
  BY <1>7 DEF ReadVisible
<1>8. ASSUME NEW r \in revealing, WriteVisible(r) \/ TellVisible(r) PROVE UNCHANGED sidebarVars
  BY <1>8 DEF WriteVisible, TellVisible
<1>9. CASE PeerChanges \/ Restart
  BY <1>9, <1>1 DEF PeerChanges, Restart, L!LoseRequests
<1>10. CASE Pushes \/ Histories \/ Others
  BY <1>10, <1>1 DEF Pushes, Histories, Others
<1>11. CASE UNCHANGED vars
  BY <1>11, <1>1 DEF vars
<1> QED BY <1>1, <1>2, <1>3, <1>4, <1>5, <1>6, <1>7, <1>8, <1>9, <1>10, <1>11 DEF Next

\* The dot of the peer is the last event's once no timer is set, and nobody was
\* told last that a peer who hides is online, unless something came between the
\* steps of hiding (handleOnline, handleOffline, PATCH /users/me).
THEOREM PresenceShows == Spec => []LastPresenceShows
<1> DEFINE Inv == WireTypes /\ RevealTypes /\ RevealInv /\ L!LastPresenceShows
<1>1. Init => Inv
  BY ScenesAssumption
     DEF Init, L!Init, WireTypes, RevealTypes, RevealInv, L!LastPresenceShows
<1>2. Inv /\ [Next]_vars => Inv'
  BY WireStep, RevealStep, ShownStep DEF RevealTypes
<1>3. Inv => LastPresenceShows
  BY DEF RevealInv, LastPresenceShows
<1> QED BY <1>1, <1>2, <1>3, PTL DEF Spec

-----------------------------------------------------------------------------
(* History: the order of the messages *)

Posts == {m \in DOMAIN scene.posts : scene.posts[m] = scene.paged}

LEMMA HistoryCounts == \A S : H!Cardinality(S) = Cardinality(S)
BY DEF H!Cardinality, Cardinality

\* Natural numbers have a smallest among them.
LEMMA SmallestOf ==
  ASSUME NEW S \in SUBSET Nat, S # {}
  PROVE  \E x \in S : \A y \in S : x <= y
<1>1. PICK x \in S : \A y \in S : ~(<<y, x>> \in OpToRel(<, Nat))
  BY NatLessThanWellFounded, WFMin
<1>2. \A y \in S : ~(y < x)
  BY <1>1 DEF OpToRel
<1> QED BY <1>2

\* (createdAt, id) orders the messages of a conversation.
LEMMA OlderOrders ==
  ASSUME scene \in Scenes, NEW m \in Posts, NEW n \in Posts, NEW k \in Posts
  PROVE  /\ ~H!Older(m, m)
         /\ H!Older(m, n) /\ H!Older(n, k) => H!Older(m, k)
         /\ H!Older(m, n) \/ H!Older(n, m) \/ m = n
<1>1. /\ \A l \in Posts : scene.times[l] \in Nat /\ scene.ids[l] \in Nat
      /\ \A l, o \in Posts : scene.ids[l] = scene.ids[o] => l = o
  BY PostsAssumption DEF Posts
<1> QED BY <1>1 DEF H!Older

\* A set of messages by how many are older, and by how many are newer
OlderIn(S, m) == {n \in S : H!Older(n, m)}
NewerIn(S, m) == {n \in S : H!Older(m, n)}

LEMMA RanksGrow ==
  ASSUME scene \in Scenes, NEW S \in SUBSET Posts, IsFiniteSet(S)
  PROVE  /\ \A m \in S : Cardinality(OlderIn(S, m)) \in Nat /\ Cardinality(NewerIn(S, m)) \in Nat
         /\ \A m \in S : Cardinality(OlderIn(S, m)) < Cardinality(S)
         /\ \A m, n \in S : H!Older(m, n) =>
              /\ Cardinality(OlderIn(S, m)) < Cardinality(OlderIn(S, n))
              /\ Cardinality(NewerIn(S, n)) < Cardinality(NewerIn(S, m))
<1>1. ASSUME NEW A, NEW B, A \subseteq B, A # B, B \subseteq S
      PROVE  Cardinality(A) < Cardinality(B)
  <2>1. IsFiniteSet(B) /\ IsFiniteSet(A)
    BY <1>1, FS_Subset
  <2>2. Cardinality(A) <= Cardinality(B) /\ Cardinality(A) # Cardinality(B)
    BY <1>1, <2>1, FS_Subset
  <2> QED BY <2>1, <2>2, FS_CardinalityType
<1>2. ASSUME NEW m \in S
      PROVE  /\ OlderIn(S, m) \subseteq S /\ NewerIn(S, m) \subseteq S
             /\ m \notin OlderIn(S, m) /\ m \notin NewerIn(S, m)
  BY OlderOrders DEF OlderIn, NewerIn
<1>3. ASSUME NEW m \in S
      PROVE  Cardinality(OlderIn(S, m)) \in Nat /\ Cardinality(NewerIn(S, m)) \in Nat
  BY <1>2, FS_Subset, FS_CardinalityType
<1>4. ASSUME NEW m \in S PROVE Cardinality(OlderIn(S, m)) < Cardinality(S)
  <2>1. OlderIn(S, m) # S
    BY <1>2
  <2> QED BY <1>1, <1>2, <2>1
<1>5. ASSUME NEW m \in S, NEW n \in S, H!Older(m, n)
      PROVE  /\ Cardinality(OlderIn(S, m)) < Cardinality(OlderIn(S, n))
             /\ Cardinality(NewerIn(S, n)) < Cardinality(NewerIn(S, m))
  <2>1. OlderIn(S, m) \subseteq OlderIn(S, n) /\ m \in OlderIn(S, n)
    BY <1>5, OlderOrders DEF OlderIn
  <2>2. NewerIn(S, n) \subseteq NewerIn(S, m) /\ n \in NewerIn(S, m)
    BY <1>5, OlderOrders DEF NewerIn
  <2>3. OlderIn(S, m) # OlderIn(S, n) /\ NewerIn(S, n) # NewerIn(S, m)
    BY <1>2, <2>1, <2>2
  <2> QED BY <1>1, <1>2, <2>1, <2>2, <2>3
<1> QED BY <1>3, <1>4, <1>5

\* Finitely many messages have an oldest and a newest one.
LEMMA EndsExist ==
  ASSUME scene \in Scenes, NEW S \in SUBSET Posts, IsFiniteSet(S), S # {}
  PROVE  /\ \E m \in S : \A n \in S : ~H!Older(n, m)
         /\ \E m \in S : \A n \in S : ~H!Older(m, n)
<1>1. PICK olders : olders = {Cardinality(OlderIn(S, m)) : m \in S}
  OBVIOUS
<1>2. PICK newers : newers = {Cardinality(NewerIn(S, m)) : m \in S}
  OBVIOUS
<1>3. /\ olders \in SUBSET Nat /\ olders # {}
      /\ newers \in SUBSET Nat /\ newers # {}
  BY <1>1, <1>2, RanksGrow
<1>4. PICK m \in S : \A n \in S : Cardinality(OlderIn(S, m)) <= Cardinality(OlderIn(S, n))
  <2>1. PICK x \in olders : \A y \in olders : x <= y
    BY <1>3, SmallestOf
  <2> QED BY <2>1, <1>1
<1>5. PICK k \in S : \A n \in S : Cardinality(NewerIn(S, k)) <= Cardinality(NewerIn(S, n))
  <2>1. PICK x \in newers : \A y \in newers : x <= y
    BY <1>3, SmallestOf
  <2> QED BY <2>1, <1>2
<1>6. \A n \in S : ~H!Older(n, m)
  <2> SUFFICES ASSUME NEW n \in S, H!Older(n, m) PROVE FALSE
    OBVIOUS
  <2>1. /\ Cardinality(OlderIn(S, n)) < Cardinality(OlderIn(S, m))
        /\ Cardinality(OlderIn(S, n)) \in Nat /\ Cardinality(OlderIn(S, m)) \in Nat
    BY RanksGrow
  <2>2. Cardinality(OlderIn(S, m)) <= Cardinality(OlderIn(S, n))
    BY <1>4
  <2> QED BY <2>1, <2>2
<1>7. \A n \in S : ~H!Older(k, n)
  <2> SUFFICES ASSUME NEW n \in S, H!Older(k, n) PROVE FALSE
    OBVIOUS
  <2>1. /\ Cardinality(NewerIn(S, n)) < Cardinality(NewerIn(S, k))
        /\ Cardinality(NewerIn(S, n)) \in Nat /\ Cardinality(NewerIn(S, k)) \in Nat
    BY RanksGrow
  <2>2. Cardinality(NewerIn(S, k)) <= Cardinality(NewerIn(S, n))
    BY <1>5
  <2> QED BY <2>1, <2>2
<1> QED BY <1>6, <1>7

\* A page of messages has some, and what it leaves out is older than all of it.
LEMMA NewestFacts ==
  ASSUME scene \in Scenes, NEW S \in SUBSET Posts, IsFiniteSet(S)
  PROVE  /\ H!Newest(S) \subseteq S
         /\ S # {} => H!Newest(S) # {}
         /\ \A m \in S \ H!Newest(S) : \A n \in H!Newest(S) : H!Older(m, n)
<1>1. H!Newest(S) = {m \in S : Cardinality(NewerIn(S, m)) < scene.page}
  BY HistoryCounts DEF H!Newest, NewerIn
<1>2. scene.page \in Nat /\ scene.page > 0
  BY ScenesAssumption
<1>3. S # {} => H!Newest(S) # {}
  <2> SUFFICES ASSUME S # {} PROVE H!Newest(S) # {}
    OBVIOUS
  <2>1. PICK m \in S : \A n \in S : ~H!Older(m, n)
    BY EndsExist
  <2>2. NewerIn(S, m) = {}
    BY <2>1 DEF NewerIn
  <2> QED BY <1>1, <1>2, <2>2, FS_EmptySet
<1>4. ASSUME NEW m \in S \ H!Newest(S), NEW n \in H!Newest(S) PROVE H!Older(m, n)
  <2>1. n \in S /\ m # n
    BY <1>1
  <2>2. ~H!Older(n, m)
    <3> SUFFICES ASSUME H!Older(n, m) PROVE FALSE
      OBVIOUS
    <3>1. Cardinality(NewerIn(S, m)) < Cardinality(NewerIn(S, n))
      BY <2>1, RanksGrow
    <3>2. Cardinality(NewerIn(S, m)) \in Nat /\ Cardinality(NewerIn(S, n)) \in Nat
      BY <2>1, RanksGrow
    <3>3. Cardinality(NewerIn(S, n)) < scene.page /\ ~(Cardinality(NewerIn(S, m)) < scene.page)
      BY <1>1, <2>1
    <3> QED BY <1>2, <3>1, <3>2, <3>3
  <2>3. m \in Posts /\ n \in Posts
    BY <2>1
  <2> QED BY <2>1, <2>2, <2>3, OlderOrders
<1> QED BY <1>1, <1>3, <1>4

\* Messages can be sorted: each goes where the number of the older ones puts it.
LEMMA SortedExists ==
  ASSUME scene \in Scenes, NEW S \in SUBSET Posts, IsFiniteSet(S)
  PROVE  \E s \in [1..Cardinality(S) -> S] :
           \A i, j \in DOMAIN s : i < j => s[i] # s[j] /\ ~H!Older(s[j], s[i])
<1> DEFINE Rank(m) == Cardinality(OlderIn(S, m)) + 1
           rank == [m \in S |-> Rank(m)]
<1>1. Cardinality(S) \in Nat
  BY FS_CardinalityType
<1>2. \A m \in S : Rank(m) \in 1..Cardinality(S)
  <2> SUFFICES ASSUME NEW m \in S PROVE Rank(m) \in 1..Cardinality(S)
    OBVIOUS
  <2>1. Cardinality(OlderIn(S, m)) \in Nat /\ Cardinality(OlderIn(S, m)) < Cardinality(S)
    BY RanksGrow
  <2> QED BY <1>1, <2>1
<1>3. ASSUME NEW m \in S, NEW n \in S, H!Older(m, n) PROVE Rank(m) < Rank(n)
  <2>1. /\ Cardinality(OlderIn(S, m)) < Cardinality(OlderIn(S, n))
        /\ Cardinality(OlderIn(S, n)) \in Nat /\ Cardinality(OlderIn(S, m)) \in Nat
    BY <1>3, RanksGrow
  <2> QED BY <2>1
<1> HIDE DEF Rank
<1>4. ASSUME NEW m \in S, NEW n \in S, Rank(m) = Rank(n) PROVE m = n
  <2>1. Rank(m) \in Nat /\ Rank(n) \in Nat
    BY <1>2
  <2>2. ~H!Older(m, n) /\ ~H!Older(n, m)
    BY <1>3, <1>4, <2>1
  <2>3. m \in Posts /\ n \in Posts
    OBVIOUS
  <2> QED BY <2>2, <2>3, OlderOrders
<1>5. rank \in [S -> 1..Cardinality(S)]
  BY <1>2
<1>6. \A m, n \in S : rank[m] = rank[n] => m = n
  BY <1>4
<1>7. IsFiniteSet(1..Cardinality(S)) /\ Cardinality(1..Cardinality(S)) = Cardinality(S)
  <2>1. PICK c \in Nat : c = Cardinality(S)
    BY <1>1
  <2>2. IsFiniteSet(1..c) /\ Cardinality(1..c) = IF 1 > c THEN 0 ELSE c - 1 + 1
    BY FS_Interval
  <2> QED BY <2>1, <2>2
<1>8. \A i \in 1..Cardinality(S) : \E m \in S : rank[m] = i
  <2> HIDE DEF rank
  <2>1. rank \in Injection(S, 1..Cardinality(S))
    BY <1>5, <1>6 DEF Injection, IsInjective
  <2>2. rank \in Surjection(S, 1..Cardinality(S))
    BY <1>7, <2>1, FS_Injection
  <2> QED BY <2>2 DEF Surjection
<1> DEFINE s == [i \in 1..Cardinality(S) |-> CHOOSE m \in S : rank[m] = i]
<1>9. \A i \in 1..Cardinality(S) : s[i] \in S /\ rank[s[i]] = i
  <2> HIDE DEF rank
  <2> QED BY <1>8
<1>10. s \in [1..Cardinality(S) -> S]
  BY <1>9
<1> HIDE DEF s
<1>11. ASSUME NEW i \in DOMAIN s, NEW j \in DOMAIN s, i < j PROVE s[i] # s[j] /\ ~H!Older(s[j], s[i])
  <2>1. s[i] \in S /\ s[j] \in S /\ Rank(s[i]) = i /\ Rank(s[j]) = j
    BY <1>9, <1>10
  <2>2. i \in Nat /\ j \in Nat
    BY <1>10
  <2>3. s[i] # s[j]
    BY <1>11, <2>1, <2>2
  <2>4. ~H!Older(s[j], s[i])
    BY <1>3, <1>11, <2>1, <2>2
  <2> QED BY <2>3, <2>4
<1> QED BY <1>10, <1>11

\* What is sorted are all of the messages, each older than those that follow.
LEMMA SortedFacts ==
  ASSUME scene \in Scenes, NEW S \in SUBSET Posts, IsFiniteSet(S)
  PROVE  /\ H!Sorted(S) \in Seq(S)
         /\ \A m \in S : \E i \in 1..Len(H!Sorted(S)) : H!Sorted(S)[i] = m
         /\ \A i, j \in 1..Len(H!Sorted(S)) : i < j => H!Older(H!Sorted(S)[i], H!Sorted(S)[j])
<1>1. PICK s : s = H!Sorted(S)
  OBVIOUS
<1>2. /\ s \in [1..Cardinality(S) -> S]
      /\ \A i, j \in DOMAIN s : i < j => s[i] # s[j] /\ ~H!Older(s[j], s[i])
  <2>1. \E t \in [1..Cardinality(S) -> S] :
          \A i, j \in DOMAIN t : i < j => t[i] # t[j] /\ ~H!Older(t[j], t[i])
    BY SortedExists
  <2>2. s = CHOOSE t \in [1..Cardinality(S) -> S] :
              \A i, j \in DOMAIN t : i < j => t[i] # t[j] /\ ~H!Older(t[j], t[i])
    BY <1>1, HistoryCounts DEF H!Sorted
  <2> QED BY <2>1, <2>2
<1>3. PICK c \in Nat : c = Cardinality(S)
  BY FS_CardinalityType
<1>4. s \in [1..c -> S] /\ s \in Seq(S) /\ Len(s) = c
  BY <1>2, <1>3
<1>5. ASSUME NEW i \in 1..c, NEW j \in 1..c, i < j PROVE H!Older(s[i], s[j])
  <2>1. s[i] # s[j] /\ ~H!Older(s[j], s[i])
    BY <1>2, <1>4, <1>5
  <2>2. s[i] \in Posts /\ s[j] \in Posts
    BY <1>4
  <2> QED BY <2>1, <2>2, OlderOrders
<1>6. s \in Injection(1..c, S)
  <2>1. ASSUME NEW i \in 1..c, NEW j \in 1..c, s[i] = s[j] PROVE i = j
    <3>1. DOMAIN s = 1..c
      BY <1>4
    <3>2. ~(i < j) /\ ~(j < i)
      BY <1>2, <2>1, <3>1
    <3> QED BY <3>2
  <2> QED BY <1>4, <2>1 DEF Injection, IsInjective
<1>7. Cardinality(1..c) = c
  BY FS_Interval
<1>8. s \in Surjection(1..c, S)
  BY <1>3, <1>6, <1>7, FS_Injection
<1>9. \A m \in S : \E i \in 1..c : s[i] = m
  BY <1>8 DEF Surjection
<1> QED BY <1>1, <1>4, <1>5, <1>9

-----------------------------------------------------------------------------
(* History: the hook that pages backwards *)

PageTypes(p) ==
  /\ p = [visit |-> p.visit, before |-> p.before, rows |-> p.rows]
  /\ p.visit \in 0..visit
  /\ p.before = 0 \/ p.before \in Posts
  /\ p.rows # H!None =>
       /\ p.rows[1] \in Seq(Posts)
       /\ \A i, j \in 1..Len(p.rows[1]) : i < j => H!Older(p.rows[1][i], p.rows[1][j])

HistoryTypes ==
  /\ scene \in Scenes
  /\ stored \in 0..Len(scene.posts)
  /\ hist \in Seq(Posts) /\ live \subseteq Posts /\ visit \in Nat
  /\ \A p \in pages : PageTypes(p)

\* A message the hook has still to come to: what it has asked for, what it has
\* been answered and what it will ask for then is of those.
Excused(m) == m \in Unheard \/ \E n \in live : H!Older(n, m)
Lacks(m) == m \in H!Chat /\ ~H!InList(m) /\ ~Excused(m)
Current == {p \in pages : p.visit = visit}
Covers(p, m) ==
  /\ p.rows = H!None => p.before = 0 \/ H!Older(m, p.before)
  /\ p.rows # H!None => /\ p.rows[1] # <<>>
                        /\ \/ H!Older(m, p.rows[1][1])
                           \/ \E i \in 1..Len(p.rows[1]) : p.rows[1][i] = m
HistoryInv ==
  viewing /\ ~crossed =>
    /\ Current # {} => loadingOlder
    /\ \A p, q \in Current : p = q
    /\ \A m : Lacks(m) =>
         /\ ~hasReachedStart
         /\ hist # <<>> => H!Older(m, hist[1])
         /\ \A p \in Current : Covers(p, m)

LEMMA ChatIsPosts ==
  ASSUME HistoryTypes
  PROVE  /\ H!Chat \subseteq Posts /\ H!Chat \subseteq 1..stored /\ IsFiniteSet(H!Chat)
         /\ Posts = {m \in 1..Len(scene.posts) : scene.posts[m] = scene.paged}
<1>1. Len(scene.posts) \in Nat /\ DOMAIN scene.posts = 1..Len(scene.posts) /\ stored \in Nat
  BY PostsAssumption DEF HistoryTypes
<1>2. H!Chat \subseteq 1..stored /\ H!Chat \subseteq Posts
  BY <1>1 DEF HistoryTypes, H!Chat, Posts
<1>3. IsFiniteSet(1..stored)
  <2>1. 1 \in Int /\ stored \in Int
    BY <1>1
  <2> QED BY <2>1, FS_Interval
<1> QED BY <1>1, <1>2, <1>3, FS_Subset DEF Posts

\* While the hook's state stays, but for answers that are lost, it lacks no more
\* than before.
LEMMA HistoryStays ==
  ASSUME HistoryTypes, HistoryInv, pages' \subseteq pages,
         UNCHANGED <<scene, visit, viewing, hist, loadingOlder, hasReachedStart, live, crossed>>,
         Unheard \ {0} \subseteq Unheard',
         \/ stored' = stored
         \/ stored' = stored + 1 /\ stored' <= Len(scene.posts) /\ stored + 1 \in Unheard'
  PROVE  HistoryTypes' /\ HistoryInv'
<1>1. H!Chat' \subseteq H!Chat \cup (Unheard' \cap {stored + 1}) /\ 0 \notin H!Chat'
  BY DEF H!Chat, HistoryTypes
<1>2. \A m : Lacks(m)' => Lacks(m)
  BY <1>1 DEF Lacks, Excused, H!InList, H!Older
<1>3. HistoryTypes'
  <2>1. stored' \in 0..Len(scene.posts)
    BY PostsAssumption DEF HistoryTypes
  <2>2. Posts' = Posts /\ \A a, b : H!Older(a, b)' <=> H!Older(a, b)
    BY DEF Posts, H!Older
  <2>3. \A p : PageTypes(p) => PageTypes(p)'
    BY <2>2 DEF PageTypes
  <2> QED BY <2>1, <2>2, <2>3 DEF HistoryTypes
<1>4. Current' \subseteq Current /\ \A p, m : Covers(p, m)' <=> Covers(p, m)
  BY DEF Current, Covers, H!Older
<1>5. HistoryInv'
  BY <1>2, <1>4 DEF HistoryInv, H!Older
<1> QED BY <1>3, <1>5

\* A message that is heard is in the list from then on.
LEMMA HistoryHears ==
  ASSUME HistoryTypes, HistoryInv, NEW m \in 1..stored, H!OnNewMessage(m), UNCHANGED <<scene, stored>>,
         Unheard \subseteq Unheard' \cup {m}
  PROVE  HistoryTypes' /\ HistoryInv'
<1>1. UNCHANGED <<visit, viewing, loadingOlder, hasReachedStart, pages, crossed>>
  BY DEF H!OnNewMessage
<1>2. Posts' = Posts /\ H!Chat' = H!Chat /\ (\A a, b : H!Older(a, b)' <=> H!Older(a, b))
  BY DEF Posts, H!Chat, H!Older
<1>3. CASE viewing /\ scene.posts[m] = scene.paged /\ ~H!InList(m)
  <2>1. hist' = Append(hist, m) /\ live' = live \cup {m}
    BY <1>3 DEF H!OnNewMessage
  <2>2. m \in Posts
    BY <1>3, ChatIsPosts DEF H!Chat
  <2>3. /\ Len(hist) \in Nat /\ hist' \in Seq(Posts) /\ Len(hist') = Len(hist) + 1
        /\ hist'[Len(hist) + 1] = m /\ \A i \in 1..Len(hist) : hist'[i] = hist[i]
    BY <2>1, <2>2 DEF HistoryTypes
  <2>4. \A k : H!InList(k) => H!InList(k)'
    BY <2>1, <2>3 DEF H!InList, HistoryTypes
  <2>5. H!InList(m)'
    BY <2>3 DEF H!InList
  <2>6. ASSUME NEW k, Lacks(k)' PROVE Lacks(k) /\ k # m /\ ~H!Older(m, k)
    BY <1>2, <2>1, <2>4, <2>5, <2>6 DEF Lacks, Excused
  <2>7. HistoryTypes'
    BY <1>1, <1>2, <2>1, <2>2, <2>3 DEF HistoryTypes, PageTypes
  <2>8. ASSUME NEW k, Lacks(k)', viewing, ~crossed PROVE H!Older(k, hist'[1])
    <3>1. CASE hist = <<>>
      <4>1. hist'[1] = m
        BY <2>3, <3>1
      <4>2. k \in Posts
        BY <2>6, <2>8, ChatIsPosts DEF Lacks
      <4> QED BY <4>1, <4>2, <2>2, <2>6, <2>8, OlderOrders DEF HistoryTypes
    <3>2. CASE hist # <<>>
      <4>1. hist'[1] = hist[1]
        BY <2>3, <3>2 DEF HistoryTypes
      <4> QED BY <4>1, <3>2, <2>6, <2>8 DEF HistoryInv
    <3> QED BY <3>1, <3>2
  <2>9. HistoryInv'
    BY <1>1, <1>2, <2>6, <2>8 DEF HistoryInv, Current, Covers
  <2> QED BY <2>7, <2>9
<1>4. CASE ~(viewing /\ scene.posts[m] = scene.paged /\ ~H!InList(m))
  <2>1. hist' = hist /\ live' = live
    BY <1>4 DEF H!OnNewMessage
  <2>2. ASSUME NEW k, Lacks(k)', viewing PROVE Lacks(k)
    <3>1. k \in H!Chat /\ ~H!InList(k) /\ k # m
      BY <1>2, <1>4, <2>1, <2>2 DEF Lacks, H!InList, H!Chat
    <3> QED BY <1>2, <2>1, <2>2, <3>1 DEF Lacks, Excused
  <2>3. HistoryTypes'
    BY <1>1, <1>2, <2>1 DEF HistoryTypes, PageTypes
  <2>4. HistoryInv'
    BY <1>1, <1>2, <2>1, <2>2 DEF HistoryInv, Current, Covers
  <2> QED BY <2>3, <2>4
<1> QED BY <1>3, <1>4

\* A page before a cursor covers what is lacked there.
LEMMA PageCovers ==
  ASSUME HistoryTypes, NEW before
  PROVE  /\ H!Page(before) \in Seq(Posts)
         /\ \A i, j \in 1..Len(H!Page(before)) : i < j => H!Older(H!Page(before)[i], H!Page(before)[j])
         /\ \A m \in H!Before(before) :
              /\ H!Page(before) # <<>>
              /\ \/ H!Older(m, H!Page(before)[1])
                 \/ \E i \in 1..Len(H!Page(before)) : H!Page(before)[i] = m
<1> DEFINE below == H!Before(before)
           rows == H!Newest(below)
<1>1. below \subseteq Posts /\ IsFiniteSet(below) /\ scene \in Scenes
  BY ChatIsPosts, FS_Subset DEF H!Before, HistoryTypes
<1>2. H!Page(before) = H!Sorted(rows)
  BY DEF H!Page
<1> HIDE DEF below
<1>3. /\ rows \subseteq below /\ (below # {} => rows # {})
      /\ \A m \in below \ rows : \A n \in rows : H!Older(m, n)
  BY <1>1, NewestFacts
<1> HIDE DEF rows
<1>4. rows \subseteq Posts /\ IsFiniteSet(rows)
  BY <1>1, <1>3, FS_Subset
<1>5. PICK s : s = H!Sorted(rows)
  OBVIOUS
<1>6. /\ s \in Seq(rows) /\ \A m \in rows : \E i \in 1..Len(s) : s[i] = m
      /\ \A i, j \in 1..Len(s) : i < j => H!Older(s[i], s[j])
  BY <1>1, <1>4, <1>5, SortedFacts
<1>7. s \in Seq(Posts)
  BY <1>4, <1>6
<1>8. ASSUME NEW m \in below
      PROVE  s # <<>> /\ (H!Older(m, s[1]) \/ \E i \in 1..Len(s) : s[i] = m)
  <2>1. s # <<>>
    BY <1>3, <1>6
  <2>2. s[1] \in rows
    BY <1>6, <2>1
  <2> QED BY <1>3, <1>6, <2>1, <2>2
<1> QED BY <1>2, <1>5, <1>6, <1>7, <1>8 DEF below

\* The hook takes what it has not from an answer, before what it has.
LEMMA PageTaken ==
  ASSUME HistoryTypes, NEW rows \in Seq(Posts),
         \A i, j \in 1..Len(rows) : i < j => H!Older(rows[i], rows[j]),
         hist' = H!Sorted({rows[i] : i \in {j \in DOMAIN rows : ~H!InList(rows[j])}}) \o hist
  PROVE  /\ hist' \in Seq(Posts)
         /\ \A m : H!InList(m) \/ (\E i \in 1..Len(rows) : rows[i] = m) => H!InList(m)'
         /\ \/ hist' = hist
            \/ \E j \in 1..Len(rows) : hist' # <<>> /\ hist'[1] = rows[j]
<1> DEFINE new == {rows[i] : i \in {j \in DOMAIN rows : ~H!InList(rows[j])}}
<1>1. DOMAIN rows = 1..Len(rows) /\ Len(rows) \in Nat
  OBVIOUS
<1>2. /\ new \subseteq Posts
      /\ \A m \in new : \E i \in 1..Len(rows) : rows[i] = m
      /\ \A i \in 1..Len(rows) : H!InList(rows[i]) \/ rows[i] \in new
  BY <1>1
<1>3. IsFiniteSet(new)
  <2> DEFINE fresh == {j \in DOMAIN rows : ~H!InList(rows[j])}
             pick == [i \in fresh |-> rows[i]]
  <2>1. IsFiniteSet(fresh)
    <3>1. 1 \in Int /\ Len(rows) \in Int
      BY <1>1
    <3>2. IsFiniteSet(DOMAIN rows)
      BY <1>1, <3>1, FS_Interval
    <3> QED BY <3>2, FS_Subset
  <2>2. pick \in Surjection(fresh, new)
    BY DEF Surjection
  <2> HIDE DEF pick, new, fresh
  <2> QED BY <2>1, <2>2, FS_Surjection
<1> HIDE DEF new
<1>4. PICK s : s = H!Sorted(new)
  OBVIOUS
<1>5. s \in Seq(new) /\ \A m \in new : \E i \in 1..Len(s) : s[i] = m
  BY <1>2, <1>3, <1>4, SortedFacts DEF HistoryTypes
<1>6. s \in Seq(Posts) /\ hist \in Seq(Posts) /\ Len(s) \in Nat /\ Len(hist) \in Nat
  BY <1>2, <1>5 DEF HistoryTypes
<1>7. hist' = s \o hist
  BY <1>4 DEF new
<1>8. /\ hist' \in Seq(Posts) /\ Len(hist') = Len(s) + Len(hist)
      /\ \A i \in 1..Len(s) : hist'[i] = s[i]
      /\ \A i \in 1..Len(hist) : hist'[Len(s) + i] = hist[i]
  <2> DEFINE both == s \o hist
  <2>1. both \in Seq(Posts) /\ Len(both) = Len(s) + Len(hist)
    BY <1>6
  <2>2. \A i \in 1..Len(s) : both[i] = s[i]
    BY <1>6
  <2>3. \A i \in 1..Len(hist) : both[Len(s) + i] = hist[i]
    <3> SUFFICES ASSUME NEW i \in 1..Len(hist) PROVE both[Len(s) + i] = hist[i]
      OBVIOUS
    <3>1. Len(s) + i \in 1..(Len(s) + Len(hist)) /\ Len(s) + i > Len(s) /\ Len(s) + i - Len(s) = i
      BY <1>6
    <3> QED BY <1>6, <3>1
  <2> HIDE DEF both
  <2>4. hist' = both
    BY <1>7 DEF both
  <2> QED BY <2>1, <2>2, <2>3, <2>4
<1>9. DOMAIN hist = 1..Len(hist) /\ DOMAIN hist' = 1..Len(hist')
  BY <1>6, <1>8
<1>10. ASSUME NEW m, H!InList(m) PROVE H!InList(m)'
  <2>1. PICK i \in 1..Len(hist) : hist[i] = m
    BY <1>9, <1>10 DEF H!InList
  <2>2. Len(s) + i \in 1..Len(hist') /\ hist'[Len(s) + i] = m
    BY <1>6, <1>8, <2>1
  <2> QED BY <1>9, <2>2 DEF H!InList
<1>11. ASSUME NEW m \in new PROVE H!InList(m)'
  <2>1. PICK i \in 1..Len(s) : s[i] = m
    BY <1>5
  <2>2. i \in 1..(Len(s) + Len(hist))
    BY <1>6
  <2>3. i \in 1..Len(hist') /\ hist'[i] = m
    BY <1>8, <2>1, <2>2
  <2> QED BY <1>9, <2>3 DEF H!InList
<1>12. CASE s = <<>>
  <2>1. hist' = hist
    <3>1. <<>> \o hist = hist
      BY <1>6
    <3> QED BY <1>7, <1>12, <3>1
  <2> QED BY <1>2, <1>8, <1>10, <1>11, <2>1
<1>13. CASE s # <<>>
  <2>1. 1 \in 1..Len(s) /\ s[1] \in new
    BY <1>5, <1>13
  <2>2. hist'[1] = s[1] /\ hist' # <<>>
    BY <1>6, <1>8, <2>1
  <2> QED BY <1>2, <1>8, <1>10, <1>11, <2>1, <2>2
<1> QED BY <1>12, <1>13

\* The hook's own steps
LEMMA HistorySteps ==
  ASSUME HistoryTypes, HistoryInv, H!Next, UNCHANGED <<scene, stored, missed, sending, wire>>
  PROVE  HistoryTypes' /\ HistoryInv'
<1>1. /\ Posts' = Posts /\ H!Chat' = H!Chat /\ Unheard' = Unheard
      /\ \A a, b : H!Older(a, b)' <=> H!Older(a, b)
  BY DEF Posts, H!Chat, Unheard, H!Older
<1>2. \A p : visit' = visit /\ PageTypes(p) => PageTypes(p)'
  BY <1>1 DEF PageTypes
<1>3. CASE UNCHANGED <<visit, viewing, hist, loadingOlder, hasReachedStart, pages, live, crossed>>
  BY <1>1, <1>2, <1>3 DEF HistoryTypes, HistoryInv, Current, Covers, Lacks, Excused, H!InList
<1>4. CASE H!AskList \/ H!ReadSuperseded \/ H!ReadList
  BY <1>3, <1>4 DEF H!AskList, H!ReadSuperseded, H!ReadList
<1>5. CASE H!Switch
  <2>1. /\ viewing' = ~viewing /\ visit' = (IF viewing THEN visit ELSE visit + 1)
        /\ hist' = <<>> /\ hasReachedStart' = FALSE /\ live' = {} /\ pages' = pages
    BY <1>5 DEF H!Switch
  <2>2. visit \in Nat /\ visit' \in Nat /\ 0..visit \subseteq 0..visit'
    BY <2>1 DEF HistoryTypes
  <2>3. \A p \in pages : PageTypes(p)'
    BY <1>1, <2>2 DEF HistoryTypes, PageTypes
  <2>4. HistoryTypes'
    BY <1>1, <2>1, <2>2, <2>3 DEF HistoryTypes
  <2>5. viewing' => Current' = {}
    <3> SUFFICES ASSUME viewing', NEW p \in pages, p.visit = visit' PROVE FALSE
      BY <2>1 DEF Current
    <3>1. visit' = visit + 1 /\ p.visit \in 0..visit
      BY <2>1 DEF HistoryTypes, PageTypes
    <3> QED BY <2>2, <3>1
  <2>6. HistoryInv'
    BY <2>1, <2>5 DEF HistoryInv
  <2> QED BY <2>4, <2>6
<1>6. CASE H!LoadOlder
  <2> DEFINE new == [visit |-> visit, before |-> IF hist = <<>> THEN 0 ELSE Head(hist), rows |-> H!None]
  <2>1. /\ viewing /\ ~loadingOlder /\ ~hasReachedStart /\ loadingOlder' = TRUE
        /\ pages' = pages \cup {new}
        /\ UNCHANGED <<visit, viewing, hist, hasReachedStart, live, crossed>>
    BY <1>6 DEF H!LoadOlder
  <2>2. /\ new.visit = visit /\ new.rows = H!None
        /\ new.before = (IF hist = <<>> THEN 0 ELSE hist[1])
        /\ new = [visit |-> new.visit, before |-> new.before, rows |-> new.rows]
    BY DEF HistoryTypes
  <2> HIDE DEF new
  <2>3. PageTypes(new)
    BY <2>2 DEF PageTypes, HistoryTypes
  <2>4. HistoryTypes'
    BY <1>1, <1>2, <2>1, <2>3 DEF HistoryTypes
  <2>5. \A m : Lacks(m)' => Lacks(m)
    BY <1>1, <2>1 DEF Lacks, Excused, H!InList
  <2>6. ~crossed => Current' = {new}
    BY <2>1, <2>2 DEF HistoryInv, Current
  <2>7. ASSUME NEW m, Lacks(m), ~crossed PROVE Covers(new, m)
    BY <2>1, <2>2, <2>7 DEF HistoryInv, Covers
  <2>8. \A p, m : Covers(p, m)' <=> Covers(p, m)
    BY <1>1 DEF Covers
  <2>9. HistoryInv'
    BY <1>1, <2>1, <2>5, <2>6, <2>7, <2>8 DEF HistoryInv
  <2> QED BY <2>4, <2>9
<1>7. ASSUME NEW p \in pages, H!LosePage(p) PROVE HistoryTypes' /\ HistoryInv'
  <2>1. pages' \subseteq pages /\ UNCHANGED <<visit, viewing, hist, loadingOlder, hasReachedStart, live, crossed>>
    BY <1>7 DEF H!LosePage
  <2>2. HistoryTypes'
    BY <1>1, <1>2, <2>1 DEF HistoryTypes
  <2>3. Current' \subseteq Current /\ (\A m : Lacks(m)' => Lacks(m)) /\ (\A q, m : Covers(q, m)' <=> Covers(q, m))
    BY <1>1, <2>1 DEF Current, Lacks, Excused, H!InList, Covers
  <2>4. HistoryInv'
    BY <1>1, <2>1, <2>3 DEF HistoryInv
  <2> QED BY <2>2, <2>4
<1>8. ASSUME NEW p \in pages, H!AnswerHistory(p) PROVE HistoryTypes' /\ HistoryInv'
  <2> PICK s : s = H!Page(p.before)
    OBVIOUS
  <2> DEFINE new == [p EXCEPT !.rows = <<s>>]
  <2>1. /\ pages' = (pages \ {p}) \cup {new} /\ p.rows = H!None
        /\ UNCHANGED <<visit, viewing, hist, loadingOlder, hasReachedStart, live, crossed>>
    BY <1>8 DEF H!AnswerHistory
  <2>2. PageTypes(p)
    BY DEF HistoryTypes
  <2>3. /\ new.visit = p.visit /\ new.before = p.before /\ new.rows = <<s>> /\ new.rows[1] = s
        /\ new.rows # H!None
        /\ new = [visit |-> new.visit, before |-> new.before, rows |-> new.rows]
    BY <2>2 DEF PageTypes, H!None
  <2> HIDE DEF new
  <2>4. /\ s \in Seq(Posts) /\ \A i, j \in 1..Len(s) : i < j => H!Older(s[i], s[j])
        /\ \A m \in H!Before(p.before) :
             s # <<>> /\ (H!Older(m, s[1]) \/ \E i \in 1..Len(s) : s[i] = m)
    BY PageCovers
  <2>5. PageTypes(new)
    BY <2>2, <2>3, <2>4 DEF PageTypes
  <2>6. HistoryTypes'
    BY <1>1, <1>2, <2>1, <2>5 DEF HistoryTypes
  <2>7. (\A m : Lacks(m)' => Lacks(m)) /\ (\A q, m : Covers(q, m)' <=> Covers(q, m))
    BY <1>1, <2>1 DEF Lacks, Excused, H!InList, Covers
  <2>8. CASE p.visit # visit
    <3>1. Current' = Current
      BY <2>1, <2>3, <2>8 DEF Current
    <3> QED BY <1>1, <2>1, <2>6, <2>7, <3>1 DEF HistoryInv
  <2>9. CASE p.visit = visit
    <3>1. p \in Current
      BY <2>9 DEF Current
    <3>2. viewing /\ ~crossed => Current' = {new}
      BY <2>1, <2>3, <2>9, <3>1 DEF HistoryInv, Current
    <3>3. ASSUME NEW m, Lacks(m), viewing, ~crossed PROVE Covers(new, m)
      <4>1. p.before = 0 \/ H!Older(m, p.before)
        BY <2>1, <3>1, <3>3 DEF HistoryInv, Covers
      <4>2. m \in H!Before(p.before)
        BY <3>3, <4>1 DEF H!Before, Lacks
      <4> QED BY <2>3, <2>4, <4>2 DEF Covers
    <3>4. HistoryInv'
      BY <1>1, <2>1, <2>7, <3>1, <3>2, <3>3 DEF HistoryInv
    <3> QED BY <2>6, <3>4
  <2> QED BY <2>8, <2>9
<1>9. ASSUME NEW p \in pages, H!OnHistory(p) PROVE HistoryTypes' /\ HistoryInv'
  <2>1. p.rows # H!None /\ pages' = pages \ {p} /\ UNCHANGED <<visit, viewing, live>>
    BY <1>9 DEF H!OnHistory
  <2>2. CASE ~viewing
    <3>1. UNCHANGED hist
      BY <1>9, <2>2 DEF H!OnHistory
    <3> QED BY <1>1, <1>2, <2>1, <2>2, <3>1 DEF HistoryTypes, HistoryInv
  <2>3. CASE viewing
    <3> PICK rows : rows = p.rows[1]
      OBVIOUS
    <3>1. /\ loadingOlder' = FALSE
          /\ hasReachedStart' = (hasReachedStart \/ rows = <<>>)
          /\ hist' = H!Sorted({rows[i] : i \in {j \in DOMAIN rows : ~H!InList(rows[j])}}) \o hist
          /\ crossed' = (crossed \/ p.visit # visit)
      BY <1>9, <2>3 DEF H!OnHistory
    <3>2. rows \in Seq(Posts) /\ \A i, j \in 1..Len(rows) : i < j => H!Older(rows[i], rows[j])
      BY <2>1 DEF HistoryTypes, PageTypes
    <3>3. /\ hist' \in Seq(Posts)
          /\ \A m : H!InList(m) \/ (\E i \in 1..Len(rows) : rows[i] = m) => H!InList(m)'
          /\ hist' = hist \/ \E j \in 1..Len(rows) : hist' # <<>> /\ hist'[1] = rows[j]
      BY <3>1, <3>2, PageTaken
    <3>4. HistoryTypes'
      BY <1>1, <1>2, <2>1, <3>3 DEF HistoryTypes
    <3>5. ASSUME ~crossed', viewing, NEW m, Lacks(m)'
          PROVE  ~hasReachedStart' /\ (hist' # <<>> => H!Older(m, hist'[1]))
      <4>1. ~crossed /\ p \in Current /\ Lacks(m) /\ ~\E i \in 1..Len(rows) : rows[i] = m
        BY <1>1, <2>1, <3>1, <3>3, <3>5 DEF Current, Lacks, Excused
      <4>2. Covers(p, m) /\ ~hasReachedStart /\ (hist # <<>> => H!Older(m, hist[1]))
        BY <2>3, <4>1 DEF HistoryInv
      <4>3. rows # <<>> /\ H!Older(m, rows[1])
        BY <2>1, <4>1, <4>2 DEF Covers
      <4>4. ASSUME NEW j \in 1..Len(rows) PROVE H!Older(m, rows[j])
        <5>1. m \in Posts /\ rows[1] \in Posts /\ rows[j] \in Posts /\ scene \in Scenes
          BY <3>2, <4>1, <4>3, ChatIsPosts DEF Lacks, HistoryTypes
        <5>2. j = 1 \/ H!Older(rows[1], rows[j])
          BY <3>2, <4>3
        <5> QED BY <4>3, <5>1, <5>2, OlderOrders
      <4> QED BY <3>1, <3>3, <4>2, <4>3, <4>4
    <3>6. ~crossed' => Current' = {}
      <4> SUFFICES ASSUME ~crossed', NEW q \in pages \ {p}, q.visit = visit PROVE FALSE
        BY <2>1 DEF Current
      <4>1. ~crossed /\ p \in Current /\ q \in Current
        BY <3>1 DEF Current
      <4> QED BY <2>3, <4>1 DEF HistoryInv
    <3>7. HistoryInv'
      BY <1>1, <2>1, <3>5, <3>6 DEF HistoryInv
    <3> QED BY <3>4, <3>7
  <2> QED BY <2>2, <2>3
<1> QED BY <1>4, <1>5, <1>6, <1>7, <1>8, <1>9 DEF H!Next

-----------------------------------------------------------------------------
(* History: the list that is read from cursor to cursor *)

Early == {m \in H!Chat : m <= walk.from}
WalkTypes ==
  /\ walk = [pc |-> walk.pc, cursor |-> walk.cursor, hidden |-> walk.hidden, got |-> walk.got,
             from |-> walk.from]
  /\ walk.pc \in {"none", "asked", "rows", "done"}
  /\ walk.pc # "none" => walk.from \in 0..stored
  /\ walk.cursor = 0 \/ walk.cursor \in Posts

\* What was there at the start, and is neither listed nor superseded, sorts
\* before the cursor.
WalkInv ==
  /\ walk.pc = "none" => walk.got = {} /\ walk.cursor = 0
  /\ walk.pc # "none" => walk.got \cap H!Superseded(Early) = {}
  /\ walk.pc \in {"asked", "rows"} =>
       \A m \in Early : m \in walk.got \/ m \in H!Superseded(H!Chat) \/ m \in H!Before(walk.cursor)
  /\ walk.pc = "rows" =>
       H!Superseded(Early) \subseteq walk.hidden /\ walk.hidden \subseteq H!Superseded(H!Chat)
  /\ walk.pc = "done" => \A m \in Early : m \in walk.got \/ m \in H!Superseded(H!Chat)

LEMMA SupersededGrows ==
  ASSUME NEW S, NEW R \in SUBSET S PROVE H!Superseded(R) \subseteq H!Superseded(S)
BY DEF H!Superseded

\* Messages that come after the start change nothing for the list.
LEMMA WalkStays ==
  ASSUME HistoryTypes, WalkTypes, WalkInv, UNCHANGED scene, stored' \in Nat, stored <= stored',
         \/ walk' = walk
         \/ walk.pc = "rows" /\ walk' = [walk EXCEPT !.pc = "asked"]
  PROVE  WalkTypes' /\ WalkInv'
<1>1. stored \in Nat
  BY PostsAssumption DEF HistoryTypes
<1>2. /\ Posts' = Posts /\ H!Chat \subseteq H!Chat'
      /\ \A S : H!Superseded(S)' = H!Superseded(S)
      /\ \A a, b : H!Older(a, b)' <=> H!Older(a, b)
  BY <1>1 DEF Posts, H!Chat, H!Superseded, H!Edited, H!Older
<1>3. /\ walk'.cursor = walk.cursor /\ walk'.got = walk.got /\ walk'.from = walk.from
      /\ walk'.hidden = walk.hidden
      /\ walk' = [pc |-> walk'.pc, cursor |-> walk'.cursor, hidden |-> walk'.hidden, got |-> walk'.got,
                  from |-> walk'.from]
      /\ walk'.pc = walk.pc \/ (walk.pc = "rows" /\ walk'.pc = "asked")
  BY DEF WalkTypes
<1>4. walk.pc # "none" => Early' = Early
  BY <1>1, <1>3 DEF Early, H!Chat, WalkTypes
<1>5. H!Superseded(H!Chat) \subseteq H!Superseded(H!Chat)'
  BY <1>2 DEF H!Superseded
<1>6. H!Before(walk.cursor) \subseteq H!Before(walk.cursor)'
  BY <1>2, <1>3 DEF H!Before
<1>7. WalkTypes'
  BY <1>1, <1>2, <1>3 DEF WalkTypes
<1>8. WalkInv'
  <2>1. CASE walk.pc = "none"
    BY <1>3, <2>1 DEF WalkInv
  <2>2. CASE walk.pc # "none"
    <3>1. H!Superseded(Early)' = H!Superseded(Early)
      BY <1>2, <1>4, <2>2
    <3> QED BY <1>3, <1>4, <1>5, <1>6, <2>2, <3>1 DEF WalkInv, WalkTypes
  <2> QED BY <2>1, <2>2
<1> QED BY <1>7, <1>8

LEMMA WalkSteps ==
  ASSUME HistoryTypes, WalkTypes, WalkInv, H!AskList \/ H!ReadSuperseded \/ H!ReadList,
         UNCHANGED <<scene, stored>>
  PROVE  WalkTypes' /\ WalkInv'
<1>1. /\ Posts' = Posts /\ H!Chat' = H!Chat
      /\ \A S : H!Superseded(S)' = H!Superseded(S)
      /\ \A a, b : H!Older(a, b)' <=> H!Older(a, b)
  BY DEF Posts, H!Chat, H!Superseded, H!Edited, H!Older
<1>2. stored \in Nat /\ \A c : H!Before(c)' = H!Before(c)
  BY <1>1, PostsAssumption DEF HistoryTypes, H!Before
<1>3. CASE H!AskList
  <2>1. /\ walk.pc = "none" /\ walk'.pc = "asked" /\ walk'.from = stored
        /\ UNCHANGED <<walk.cursor, walk.got, walk.hidden>>
        /\ walk' = [pc |-> walk'.pc, cursor |-> walk'.cursor, hidden |-> walk'.hidden,
                    got |-> walk'.got, from |-> walk'.from]
    BY <1>3 DEF H!AskList, WalkTypes
  <2>2. walk'.got = {} /\ walk'.cursor = 0
    BY <2>1 DEF WalkInv
  <2>3. WalkTypes'
    BY <1>1, <1>2, <2>1 DEF WalkTypes
  <2>4. Early' \subseteq H!Before(walk.cursor)'
    BY <2>2 DEF Early, H!Before
  <2>5. WalkInv'
    BY <2>1, <2>2, <2>4 DEF WalkInv
  <2> QED BY <2>3, <2>5
<1>4. CASE H!ReadSuperseded
  <2>1. /\ walk.pc = "asked" /\ walk'.pc = "rows" /\ walk'.hidden = H!Superseded(H!Chat)
        /\ UNCHANGED <<walk.cursor, walk.got, walk.from>>
        /\ walk' = [pc |-> walk'.pc, cursor |-> walk'.cursor, hidden |-> walk'.hidden,
                    got |-> walk'.got, from |-> walk'.from]
    BY <1>4 DEF H!ReadSuperseded, WalkTypes
  <2>2. Early' = Early /\ Early \subseteq H!Chat /\ H!Superseded(Early) \subseteq H!Superseded(H!Chat)
    BY <1>1, <2>1, SupersededGrows DEF Early
  <2>3. WalkTypes'
    BY <1>1, <1>2, <2>1 DEF WalkTypes
  <2>4. WalkInv'
    BY <1>1, <1>2, <2>1, <2>2 DEF WalkInv
  <2> QED BY <2>3, <2>4
<1>5. CASE H!ReadList
  <2> DEFINE below == H!Before(walk.cursor) \ walk.hidden
             rows == H!Newest(below)
  <2>1. /\ walk.pc = "rows" /\ walk'.got = walk.got \cup rows
        /\ walk'.pc = (IF rows = below THEN "done" ELSE "asked")
        /\ walk'.cursor = (IF rows = below THEN walk.cursor
                           ELSE CHOOSE m \in rows : \A n \in rows : ~H!Older(n, m))
        /\ walk'.from = walk.from
        /\ walk' = [pc |-> walk'.pc, cursor |-> walk'.cursor, hidden |-> walk'.hidden,
                    got |-> walk'.got, from |-> walk'.from]
    BY <1>5 DEF H!ReadList, WalkTypes
  <2>2. below \subseteq Posts /\ IsFiniteSet(below) /\ scene \in Scenes
    BY ChatIsPosts, FS_Subset DEF H!Before, HistoryTypes
  <2>3. \A m \in Early : m \in walk.got \/ m \in H!Superseded(H!Chat) \/ m \in below
    BY <2>1 DEF WalkInv
  <2>4. below \cap H!Superseded(Early) = {}
    BY <2>1 DEF WalkInv
  <2>5. Early' = Early /\ Early \subseteq H!Chat /\ H!Superseded(Early)' = H!Superseded(Early)
        /\ H!Superseded(H!Chat)' = H!Superseded(H!Chat)
    BY <1>1, <2>1 DEF Early
  <2> HIDE DEF below
  <2>6. /\ rows \subseteq below /\ (below # {} => rows # {})
        /\ \A m \in below \ rows : \A n \in rows : H!Older(m, n)
    BY <2>2, NewestFacts
  <2> HIDE DEF rows
  <2>7. walk'.got \cap H!Superseded(Early) = {}
    BY <2>1, <2>4, <2>6 DEF WalkInv
  <2>8. CASE rows = below
    <3>1. WalkTypes'
      BY <1>1, <1>2, <2>1, <2>8 DEF WalkTypes
    <3>2. WalkInv'
      BY <2>1, <2>3, <2>5, <2>7, <2>8 DEF WalkInv
    <3> QED BY <3>1, <3>2
  <2>9. CASE rows # below
    <3>1. rows # {} /\ rows \subseteq Posts /\ IsFiniteSet(rows)
      BY <2>2, <2>6, <2>9, FS_Subset
    <3>2. walk'.cursor \in rows
      <4>1. \E m \in rows : \A n \in rows : ~H!Older(n, m)
        BY <2>2, <3>1, EndsExist
      <4> QED BY <2>1, <2>9, <4>1
    <3>3. \A m \in below \ rows : m \in H!Before(walk'.cursor)
      BY <2>6, <3>2 DEF H!Before, below
    <3>4. WalkTypes'
      BY <1>1, <1>2, <2>1, <2>9, <3>1, <3>2 DEF WalkTypes
    <3>5. \A m \in Early' : m \in walk'.got \/ m \in H!Superseded(H!Chat)' \/ m \in H!Before(walk.cursor)'
      BY <1>2, <2>1, <2>3, <2>5, <3>3
    <3>6. WalkInv'
      BY <2>1, <2>5, <2>7, <2>9, <3>5 DEF WalkInv
    <3> QED BY <3>4, <3>6
  <2> QED BY <2>8, <2>9
<1> QED BY <1>3, <1>4, <1>5

-----------------------------------------------------------------------------
(* History: what a message is, between its insert and the hook *)

HeardInv == WireTypes /\ HistoryTypes /\ HistoryInv /\ WalkTypes /\ WalkInv

\* The history is not what moves: at most a message is stored that the hook is
\* still to hear of.
LEMMA HeardStays ==
  ASSUME HeardInv, UNCHANGED <<scene, historyVars>>, Unheard \ {0} \subseteq Unheard',
         \/ stored' = stored
         \/ stored' = stored + 1 /\ stored' <= Len(scene.posts) /\ stored + 1 \in Unheard'
  PROVE  HistoryTypes' /\ HistoryInv' /\ WalkTypes' /\ WalkInv'
<1> USE DEF historyVars, HeardInv
<1>1. stored \in Nat /\ stored' \in Nat /\ stored <= stored'
  BY DEF WireTypes
<1>2. HistoryTypes' /\ HistoryInv'
  BY HistoryStays
<1>3. WalkTypes' /\ WalkInv'
  BY <1>1, WalkStays
<1> QED BY <1>2, <1>3

\* An event that is sent to the page or missed by it takes nothing from what is
\* still to be heard.
LEMMA UnheardGrows ==
  ASSUME WireTypes, NEW event \in Events, wire' \in {wire, Toward(event)}, UNCHANGED scene,
         missed \subseteq missed', sending' = sending
  PROVE  Unheard \subseteq Unheard'
<1>1. \A i \in 1..Len(wire) : i \in 1..Len(wire') /\ wire'[i] = wire[i]
  BY WireAppend
<1>2. wire \in Seq(Events) /\ wire' \in Seq(Events)
  BY WireAppend DEF WireTypes
<1>3. DOMAIN wire = 1..Len(wire) /\ DOMAIN wire' = 1..Len(wire')
  BY <1>2
<1> QED BY <1>1, <1>3 DEF Unheard

LEMMA HeardStep ==
  ASSUME HeardInv, peer \in {"online", "offline"}, [Next]_vars
  PROVE  HistoryTypes' /\ HistoryInv' /\ WalkTypes' /\ WalkInv'
<1> USE DEF listVars, serverVars, sidebarVars, handlerVars, peerVars
<1>1. CASE UNCHANGED <<scene, historyVars, stored, missed, sending, wire>>
  BY <1>1, HeardStays DEF Unheard
<1>2. CASE Store \/ Reply
  <2>1. /\ stored' = stored + 1 /\ sending' = WithStored(stored + 1)
        /\ stored < Len(scene.posts) /\ UNCHANGED <<scene, historyVars, missed, wire>>
    BY <1>2 DEF Store, Reply, StoredVars
  <2>2. stored + 1 \in DOMAIN sending' /\ sending'[stored + 1] = "stored"
    BY <2>1 DEF WithStored
  <2>3. \A m \in DOMAIN sending : m \in DOMAIN sending' /\ sending'[m] = sending[m]
    <3>1. stored \in Nat /\ DOMAIN sending \subseteq 1..stored
      BY DEF HeardInv, WireTypes
    <3>2. \A m \in DOMAIN sending : m # stored + 1
      BY <3>1
    <3> QED BY <2>1, <3>2 DEF WithStored
  <2>4. stored + 1 \in Unheard' /\ Unheard \subseteq Unheard'
    BY <2>1, <2>2, <2>3 DEF Unheard
  <2>5. stored' <= Len(scene.posts)
    BY <2>1, PostsAssumption DEF HeardInv, HistoryTypes
  <2> QED BY <2>1, <2>4, <2>5, HeardStays
<1>3. ASSUME NEW m \in DOMAIN sending, Deliver(m)
      PROVE  HistoryTypes' /\ HistoryInv' /\ WalkTypes' /\ WalkInv'
  <2> DEFINE event == [kind |-> "new_message", of |-> m]
  <2>1. event \in Events /\ event.of = m
    BY DEF Events, HeardInv, WireTypes
  <2>2. /\ wire' = Toward(event) /\ UNCHANGED <<scene, historyVars, stored>>
        /\ missed' = IF P!IsOnline(scene.me) THEN missed ELSE missed \cup {m}
        /\ sending' = [sending EXCEPT ![m] = "delivered"]
    BY <1>3 DEF Deliver
  <2> HIDE DEF event
  <2>3. WireTypes
    BY DEF HeardInv
  <2>4. /\ Toward(event) \in Seq(Events)
        /\ \A i \in 1..Len(wire) : i \in 1..Len(Toward(event)) /\ Toward(event)[i] = wire[i]
        /\ P!IsOnline(scene.me) => \E i \in 1..Len(Toward(event)) : Toward(event)[i] = event
    BY <2>1, <2>3, WireAppend
  <2>5. DOMAIN wire = 1..Len(wire) /\ DOMAIN wire' = 1..Len(wire')
    BY <2>2, <2>3, <2>4 DEF WireTypes
  <2>6. m \in Unheard'
    <3>1. CASE P!IsOnline(scene.me)
      BY <2>1, <2>2, <2>4, <2>5, <3>1 DEF Unheard
    <3>2. CASE ~P!IsOnline(scene.me)
      BY <2>2, <3>2 DEF Unheard
    <3> QED BY <3>1, <3>2
  <2>7. {wire[i].of : i \in DOMAIN wire} \subseteq {wire'[i].of : i \in DOMAIN wire'}
    BY <2>2, <2>4, <2>5
  <2>8. \A n \in DOMAIN sending \ {m} : n \in DOMAIN sending' /\ sending'[n] = sending[n]
    BY <2>2
  <2>9. Unheard \subseteq Unheard'
    BY <2>2, <2>6, <2>7, <2>8 DEF Unheard
  <2> QED BY <2>2, <2>9, HeardStays
<1>4. ASSUME NEW m \in DOMAIN sending, Invalidate(m)
      PROVE  HistoryTypes' /\ HistoryInv' /\ WalkTypes' /\ WalkInv'
  <2>1. /\ sending[m] = "delivered" /\ sending' = Without(m)
        /\ UNCHANGED <<scene, historyVars, stored, missed, wire>>
    BY <1>4 DEF Invalidate
  <2>2. \A n \in DOMAIN sending : sending[n] = "stored" => n \in DOMAIN sending' /\ sending'[n] = "stored"
    BY <2>1 DEF Without
  <2>3. Unheard \subseteq Unheard'
    BY <2>1, <2>2 DEF Unheard
  <2> QED BY <2>1, <2>3, HeardStays
<1>5. ASSUME NEW r \in revealing, TellVisible(r)
      PROVE  HistoryTypes' /\ HistoryInv' /\ WalkTypes' /\ WalkInv'
  <2> DEFINE event == [kind |-> IF r.new THEN "online" ELSE "offline", of |-> 0]
  <2>1. event \in Events
    BY DEF Events
  <2>2. wire' \in {wire, Toward(event)} /\ UNCHANGED <<scene, historyVars, stored, missed, sending>>
    BY <1>5 DEF TellVisible
  <2> HIDE DEF event
  <2> QED BY <2>1, <2>2, UnheardGrows, HeardStays DEF HeardInv
<1>6. CASE PeerChanges
  <2>1. PICK event : event = [kind |-> peer', of |-> 0]
    OBVIOUS
  <2>2. event \in Events
    BY <1>6, <2>1 DEF PeerChanges, Events
  <2>3. wire' \in {wire, Toward(event)} /\ UNCHANGED <<scene, historyVars, stored, missed, sending>>
    BY <1>6, <2>1 DEF PeerChanges
  <2> QED BY <2>2, <2>3, UnheardGrows, HeardStays DEF HeardInv
<1>7. CASE Hear
  <2> PICK m : m = Head(wire).of
    OBVIOUS
  <2>1. /\ wire # <<>> /\ wire' = Tail(wire) /\ UNCHANGED <<scene, stored, missed, sending>>
    BY <1>7 DEF Hear, L!Hear, L!serverVars
  <2>2. /\ wire \in Seq(Events) /\ Len(wire) \in Nat /\ wire' \in Seq(Events)
        /\ DOMAIN wire = 1..Len(wire) /\ DOMAIN wire' = 1..Len(wire')
        /\ Len(wire') = Len(wire) - 1 /\ \A i \in 1..Len(wire') : wire'[i] = wire[i + 1]
        /\ Head(wire) = wire[1] /\ Head(wire) \in Events
    BY <2>1 DEF HeardInv, WireTypes
  <2>3. ASSUME NEW i \in DOMAIN wire PROVE wire[i].of = m \/ \E j \in DOMAIN wire' : wire'[j].of = wire[i].of
    <3>1. CASE i = 1
      BY <2>2, <3>1
    <3>2. CASE i # 1
      <4>1. i - 1 \in DOMAIN wire' /\ (i - 1) + 1 = i
        BY <2>2, <3>2
      <4> QED BY <2>2, <4>1
    <3> QED BY <3>1, <3>2
  <2>4. Unheard \subseteq Unheard' \cup {m}
    BY <2>1, <2>3 DEF Unheard
  <2>5. CASE Head(wire).kind = "new_message"
    <3>1. m \in 1..stored
      BY <2>1, <2>2, <2>5 DEF HeardInv, WireTypes, Events
    <3>2. H!OnNewMessage(m)
      BY <1>7, <2>5 DEF Hear
    <3>3. HistoryTypes' /\ HistoryInv'
      BY <2>1, <2>4, <3>1, <3>2, HistoryHears DEF HeardInv
    <3>4. walk' = walk /\ stored' \in Nat /\ stored <= stored'
      BY <2>1, <3>2 DEF H!OnNewMessage, HeardInv, WireTypes
    <3>5. WalkTypes' /\ WalkInv'
      BY <2>1, <3>4, WalkStays DEF HeardInv
    <3> QED BY <3>3, <3>5
  <2>6. CASE Head(wire).kind # "new_message"
    <3>1. m = 0
      BY <2>2, <2>6 DEF Events
    <3>2. UNCHANGED historyVars
      BY <1>7, <2>6 DEF Hear
    <3> QED BY <2>1, <2>4, <3>1, <3>2, HeardStays
  <2> QED BY <2>5, <2>6
<1>8. CASE Restart
  <2>1. /\ pages' = {} /\ walk' = [walk EXCEPT !.pc = IF @ = "rows" THEN "asked" ELSE @]
        /\ UNCHANGED <<scene, visit, viewing, hist, loadingOlder, hasReachedStart, live, crossed>>
        /\ UNCHANGED stored
        /\ missed' = missed \cup {m \in DOMAIN sending : sending[m] = "stored"}
                            \cup {wire[i].of : i \in DOMAIN wire}
    BY <1>8 DEF Restart, H!LosePages, L!LoseRequests, L!serverVars
  <2>2. Unheard \subseteq Unheard'
    BY <2>1 DEF Unheard
  <2>3. HistoryTypes' /\ HistoryInv'
    BY <2>1, <2>2, HistoryStays DEF HeardInv
  <2>4. walk' = walk \/ (walk.pc = "rows" /\ walk' = [walk EXCEPT !.pc = "asked"])
    <3>1. CASE walk.pc = "rows"
      BY <2>1, <3>1
    <3>2. CASE walk.pc # "rows"
      <4>1. walk' = [walk EXCEPT !.pc = walk.pc]
        BY <2>1, <3>2
      <4> QED BY <4>1 DEF HeardInv, WalkTypes
    <3> QED BY <3>1, <3>2
  <2>5. stored' \in Nat /\ stored <= stored'
    BY <2>1 DEF HeardInv, WireTypes
  <2>6. WalkTypes' /\ WalkInv'
    BY <2>1, <2>4, <2>5, WalkStays DEF HeardInv
  <2> QED BY <2>3, <2>6
<1>9. CASE Lists
  <2>1. ASSUME NEW status, L!AnswerPresence(status) PROVE UNCHANGED <<wire, stored>>
    BY <2>1 DEF L!AnswerPresence, L!serverVars
  <2>2. UNCHANGED <<wire, stored>>
    BY <1>9, <2>1 DEF Lists, L!Next, L!ServeCached, L!ReadRows, L!WriteCache, L!DropForSetting,
                L!WriteName, L!DropForName, L!Expire, L!WriteSetting, L!Select, L!MessageRead, L!Mount,
                L!Seed, L!TakePresence, L!OfflineTimer, L!serverVars
  <2> QED BY <1>1, <1>9, <2>2 DEF Lists
<1>10. CASE Histories
  <2>1. H!Next /\ UNCHANGED <<scene, stored, missed, sending, wire>>
    BY <1>10 DEF Histories
  <2>2. HistoryTypes' /\ HistoryInv'
    BY <2>1, HistorySteps DEF HeardInv
  <2>3. CASE H!AskList \/ H!ReadSuperseded \/ H!ReadList
    <3>1. WalkTypes' /\ WalkInv'
      BY <2>1, <2>3, WalkSteps DEF HeardInv
    <3> QED BY <2>2, <3>1
  <2>4. CASE ~(H!AskList \/ H!ReadSuperseded \/ H!ReadList)
    <3>1. walk' = walk
      BY <2>1, <2>4 DEF H!Next, H!Switch, H!LoadOlder, H!AnswerHistory, H!LosePage, H!OnHistory
    <3>2. stored' \in Nat /\ stored <= stored'
      BY <2>1 DEF HeardInv, WireTypes
    <3>3. WalkTypes' /\ WalkInv'
      BY <2>1, <3>1, <3>2, WalkStays DEF HeardInv
    <3> QED BY <2>2, <3>3
  <2> QED BY <2>3, <2>4
<1>11. CASE Ask \/ AskFails
  BY <1>11, <1>1 DEF Ask, AskFails
<1>12. ASSUME NEW d \in Devices, Connect(d) \/ Disconnect(d)
       PROVE  HistoryTypes' /\ HistoryInv' /\ WalkTypes' /\ WalkInv'
  BY <1>12, <1>1 DEF Connect, Disconnect
<1>13. ASSUME NEW v \in BOOLEAN, ReadVisible(v)
       PROVE  HistoryTypes' /\ HistoryInv' /\ WalkTypes' /\ WalkInv'
  BY <1>13, <1>1 DEF ReadVisible
<1>14. ASSUME NEW r \in revealing, WriteVisible(r)
       PROVE  HistoryTypes' /\ HistoryInv' /\ WalkTypes' /\ WalkInv'
  BY <1>14, <1>1 DEF WriteVisible
<1>15. CASE Pushes \/ Others
  BY <1>15, <1>1 DEF Pushes, Others
<1>16. CASE UNCHANGED vars
  BY <1>16, <1>1 DEF vars
<1> QED BY <1>2, <1>3, <1>4, <1>5, <1>6, <1>7, <1>8, <1>9, <1>10, <1>11, <1>12, <1>13, <1>14, <1>15,
           <1>16 DEF Next

\* Once the hook believes that it has reached the start of a conversation, its
\* list holds every message, but for those still to be heard, those that sort
\* behind a live one, and unless an answer to an earlier visit was taken for
\* this one's; and a list read from cursor to cursor is whole at its end
\* (useMessageHistory, message_history, GET /conversations/:id/messages),
\* whatever is posted, edited, delivered, lost and restarted between its pages.
THEOREM HistoriesAreWhole == Spec => []StartIsWhole
<1> DEFINE Inv == RevealTypes /\ RevealInv /\ HeardInv
<1>1. Init => Inv
  <2> SUFFICES ASSUME Init PROVE Inv
    OBVIOUS
  <2>1. WireTypes /\ RevealTypes /\ RevealInv
    BY ScenesAssumption
       DEF Init, L!Init, WireTypes, RevealTypes, RevealInv
  <2>2. /\ scene \in Scenes /\ stored = 0 /\ hist = <<>> /\ live = {} /\ visit = 0 /\ pages = {}
        /\ ~viewing
        /\ walk = [pc |-> "none", cursor |-> 0, hidden |-> {}, got |-> {}, from |-> 0]
    BY DEF Init, H!Init, L!Init
  <2>3. stored \in 0..Len(scene.posts)
    BY <2>2, PostsAssumption
  <2>4. HistoryTypes /\ HistoryInv
    BY <2>2, <2>3 DEF HistoryTypes, HistoryInv
  <2>5. WalkTypes /\ WalkInv
    BY <2>2 DEF WalkTypes, WalkInv
  <2> QED BY <2>1, <2>4, <2>5 DEF HeardInv
<1>2. Inv /\ [Next]_vars => Inv'
  <2> SUFFICES ASSUME Inv, [Next]_vars PROVE Inv'
    OBVIOUS
  <2>1. peer \in {"online", "offline"}
    BY DEF RevealTypes
  <2>2. RevealTypes' /\ RevealInv'
    BY RevealStep
  <2>3. WireTypes'
    BY <2>1, WireStep DEF HeardInv
  <2> QED BY <2>1, <2>2, <2>3, HeardStep DEF HeardInv
<1>3. Inv => StartIsWhole
  <2> SUFFICES ASSUME HeardInv PROVE StartIsWhole
    OBVIOUS
  <2>1. H!StartIsWhole(Unheard)
    BY DEF HeardInv, HistoryInv, Lacks, Excused, H!StartIsWhole
  <2>2. H!ListIsWhole
    BY DEF HeardInv, WalkInv, Early, H!ListIsWhole
  <2> QED BY <2>1, <2>2 DEF StartIsWhole
<1> QED BY <1>1, <1>2, <1>3, PTL DEF Spec

=============================================================================
