------------------------------ MODULE MCFiles ------------------------------
(***************************************************************************)
(* Two files, three messages, two handlers, one cleanup job.                 *)
(***************************************************************************)
EXTENDS Files, TLC

CONSTANTS f1, f2, m1, m2, m3, s1, s2

Ask(kind, file, message, via) == [kind |-> kind, file |-> file, message |-> message, via |-> via]
Confirm(f) == Ask("confirm", f, m1, "file")
Send(m, f) == Ask("send", f, m, "file")
SendPlain(m, f) == Ask("send", f, m, "plain")
Delete(m) == Ask("delete", NoFile, m, "file")

\* A file confirmed twice and sent; a file shared twice and retracted twice; a
\* slot named anew while its first message is retracted, beside one that goes.
ThreeScenarios ==
  { Confirm(f1) :> 2 @@ Send(m1, f1) :> 1 @@ SendPlain(m2, f1) :> 1,
    Confirm(f1) :> 1 @@ Send(m1, f1) :> 1 @@ SendPlain(m2, f1) :> 1 @@ Delete(m1) :> 1 @@ Delete(m2) :> 1,
    SendPlain(m1, f1) :> 1 @@ SendPlain(m2, f1) :> 1 @@ SendPlain(m3, f2) :> 1 @@ Delete(m1) :> 2 @@ Delete(m3) :> 1 }
AllAsks == UNION {DOMAIN sc : sc \in ThreeScenarios}

BothSlots == {s1, s2}
=============================================================================
