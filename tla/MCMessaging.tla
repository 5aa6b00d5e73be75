---------------------------- MODULE MCMessaging ----------------------------
(***************************************************************************)
(* Two accounts: the author with two devices, the reader with one.  The    *)
(* author sends m1, edits it as m2 and edits the edit as m3, deletes m1.   *)
(***************************************************************************)
EXTENDS Messaging, TLC

CONSTANTS alice, bob, a1, a2, b1, m1, m2, m3, s1, s2

TwoUsers == a1 :> alice @@ a2 :> alice @@ b1 :> bob
Everyone == {a1, a2, b1}

Ask(id, device, via, kind, message, original) ==
  [id |-> id, device |-> device, via |-> via, kind |-> kind, message |-> message,
   original |-> original, to |-> Everyone \ {device}]

Send == Ask(1, a1, "socket", "send", m1, NoMessage)
Hasty == [Send EXCEPT !.id = 8, !.to = {b1}]
Retry == Ask(2, a1, "http", "send", m1, NoMessage)
Other == Ask(7, a2, "http", "send", m2, NoMessage)
Edit == Ask(3, a1, "socket", "edit", m2, m1)
EditAgain == Ask(4, a2, "socket", "edit", m3, m2)
Delete == Ask(5, a1, "socket", "delete", m1, NoMessage)
Read == Ask(1, b1, "socket", "read", m1, NoMessage)
ReadOn == Ask(2, b1, "socket", "read", m2, NoMessage)

\* A send that may run twice, a resend and a deletion; a send that forgets a
\* sibling, a resend and a deletion asked for twice; two edits; reads that
\* overtake each other.
FourScenarios ==
  { Send :> 2 @@ Retry :> 1 @@ Delete :> 1,
    Hasty :> 1 @@ Retry :> 1 @@ Delete :> 2,
    Send :> 1 @@ Edit :> 1 @@ EditAgain :> 1,
    Retry :> 1 @@ Other :> 1 @@ Read :> 1 @@ ReadOn :> 1 }
AllEvents == UNION {DOMAIN asks : asks \in FourScenarios}

BothSlots == {s1, s2}
Alike == Permutations(BothSlots)
=============================================================================
