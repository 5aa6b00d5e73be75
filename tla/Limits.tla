------------------------------- MODULE Limits -------------------------------
(***************************************************************************)
(* The budgets of the gateway's nodes: fixed windows counted in Redis, in  *)
(* the node's memory when Redis fails, and the caps on first contacts and  *)
(* invitations with a key that expires.                                    *)
(***************************************************************************)
EXTENDS Integers, FiniteSets

VARIABLES
  restarts,  \* of Services: the lives of the nodes' memories
  scene,     \* scene.nodes, .limit, .cap; bounds
  window,    \* windowIndex now
  counters,  \* rl: keys in Redis, by window
  localCounters,  \* of each node, by window
  charging,  \* requests being charged
  arrived,   \* bound: requests
  admitted, fellBack,  \* history, see the properties
  contacts,  \* abuse: key in Redis, its count and whether it expires
  arming     \* handlers that have still to set the expiry

Init ==
  /\ window = 0 /\ arrived = 0
  /\ counters = [w \in 0..scene.windows |-> 0]
  /\ localCounters = [n \in scene.nodes |-> [w \in {} |-> 0]]
  /\ charging = {}
  /\ admitted = [w \in 0..scene.windows |-> 0] /\ fellBack = {}
  /\ contacts = [count |-> 0, expires |-> FALSE] /\ arming = 0

-----------------------------------------------------------------------------
(* consumeRateLimit *)

WindowRolls ==
  /\ window < scene.windows
  /\ window' = window + 1
  /\ UNCHANGED <<counters, localCounters, charging, arrived, admitted, fellBack, contacts,
                 arming>>

\* The key is made before Redis is asked.
Arrive(n) ==
  /\ arrived < scene.requests
  /\ arrived' = arrived + 1
  /\ charging' = charging \cup {[node |-> n, window |-> window, nr |-> arrived]}
  /\ UNCHANGED <<window, counters, localCounters, admitted, fellBack, contacts, arming>>

Allowed(used) == used <= scene.limit

\* A decision that comes after its window is not held against the budget.
Admit(r, used) ==
  admitted' = IF Allowed(used) /\ r.window = window
              THEN [admitted EXCEPT ![window] = @ + 1] ELSE admitted

ChargeRedis(r) ==
  /\ r \in charging
  /\ charging' = charging \ {r}
  /\ counters' = [counters EXCEPT ![r.window] = @ + 1]
  /\ Admit(r, counters'[r.window])
  /\ UNCHANGED <<window, localCounters, arrived, fellBack, contacts, arming>>

\* consumeLocally; a new key clears the map of those that are over.
Live(n) == {w \in DOMAIN localCounters[n] : w >= window}
Uncounted(r) == [localCounters EXCEPT ![r.node] = [w \in Live(r.node) \cup {r.window} |-> 1]]  \* mutant
Counted(r) ==
  LET mine == localCounters[r.node] IN
  IF r.window \in DOMAIN mine
  THEN [localCounters EXCEPT ![r.node][r.window] = @ + 1]
  ELSE [localCounters EXCEPT ![r.node] =
          [w \in Live(r.node) \cup {r.window} |-> IF w \in DOMAIN mine THEN mine[w] ELSE 1]]

ChargeLocal(r) ==
  /\ r \in charging /\ scene.outages
  /\ charging' = charging \ {r}
  /\ localCounters' = Counted(r)
  /\ Admit(r, localCounters'[r.node][r.window])
  /\ fellBack' = fellBack \cup {<<r.window, r.node, restarts>>}
  /\ UNCHANGED <<window, counters, arrived, contacts, arming>>

-----------------------------------------------------------------------------
(* checkFirstContactLimit and checkGroupInviteLimit *)

\* The first hit of a window sets its expiry, in a call of its own.
FirstHit(count) == count = 1

Contact ==
  /\ arrived < scene.contacts
  /\ arrived' = arrived + 1
  /\ contacts' = [contacts EXCEPT !.count = @ + 1]
  /\ arming' = IF FirstHit(contacts'.count) THEN arming + 1 ELSE arming
  /\ UNCHANGED <<window, counters, localCounters, charging, admitted, fellBack>>

Arm ==
  /\ arming > 0
  /\ arming' = arming - 1
  /\ contacts' = IF contacts.count > 0 THEN [contacts EXCEPT !.expires = TRUE] ELSE contacts
  /\ UNCHANGED <<window, counters, localCounters, charging, arrived, admitted, fellBack>>

HourEnds ==
  /\ contacts.expires
  /\ contacts' = [count |-> 0, expires |-> FALSE]
  /\ UNCHANGED <<window, counters, localCounters, charging, arrived, admitted, fellBack, arming>>

\* The processes end, or Redis answers one call and not the next.
LoseCharges ==
  /\ charging' = {} /\ arming' = 0
  /\ localCounters' = [n \in scene.nodes |-> [w \in {} |-> 0]]
  /\ UNCHANGED <<window, counters, arrived, admitted, fellBack, contacts>>

Next ==
  \/ WindowRolls
  \/ \E n \in scene.nodes : Arrive(n)
  \/ \E r \in charging : ChargeRedis(r) \/ ChargeLocal(r)
  \/ Contact \/ Arm \/ HourEnds

-----------------------------------------------------------------------------
\* A window admits what the budget allows, once for Redis and once for every
\* node that had to count for itself, or twice for one that restarted: keys of
\* a window are cleared by a later one only (consumeRateLimit, consumeLocally).
WithinBudget ==
  \A w \in 0..window :
    admitted[w] <= scene.limit * (1 + Cardinality({f \in fellBack : f[1] = w}))

=============================================================================
