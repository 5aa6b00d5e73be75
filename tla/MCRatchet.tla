------------------------------ MODULE MCRatchet ------------------------------
EXTENDS Ratchet

FiveAndFour == [p \in Parties |-> IF p = alice THEN 5 ELSE 4]
==============================================================================
