------------------------------- MODULE Ratchet -------------------------------
(***************************************************************************)
(* The double ratchet of the web client (lib/crypto/doubleRatchet.ts): two *)
(* devices encrypt to each other over a network that delays, reorders,     *)
(* loses and replays.  Keys are terms.  A key pair is <<owner, i>>, the    *)
(* agreed secret of two pairs is the set of both, a root key is the        *)
(* sequence of the secrets mixed into it, and the i-th key of a chain is   *)
(* [root, step], so a ciphertext opens under exactly the key it was made   *)
(* with and the two sides need not be told apart by anything else.         *)
(*                                                                         *)
(* ratchetDecrypt changes the state before its first await and nothing     *)
(* after it, so one call is one step, also when it throws.                 *)
(***************************************************************************)
EXTENDS Integers, Sequences, SequencesExt, FiniteSets

CONSTANTS
  alice, bob,          \* the initiator and the responder
  MAX_SKIP,            \* keys one message may skip in a chain (100 in the code)
  MAX_SKIPPED_KEYS,    \* skipped keys kept in all (1000 in the code)
  MaxSent,             \* bound: messages each side encrypts
  MaxReplays           \* bound: deliveries beyond the first

ASSUME RatchetAssumption ==
  /\ alice # bob
  /\ MAX_SKIP \in Nat /\ MAX_SKIPPED_KEYS \in Nat
  /\ MaxSent \in [{alice, bob} -> Nat] /\ MaxReplays \in Nat

Parties == {alice, bob}
Absent == <<>>         \* a chain or a remote key not there yet (null)

VARIABLES
  state,               \* DoubleRatchetState of each side
  pairs,               \* key pairs each side has generated
  sent,                \* payloads encrypted so far, with the key that sealed them
  read,                \* of those, the ones the other side opened
  twice,               \* of those, the ones it opened more than once
  refused,             \* first deliveries that threw, by what they threw
  pruned,              \* ids of skipped keys given up for MAX_SKIPPED_KEYS
  replays              \* deliveries beyond the first so far

ratchetVars == <<state, pairs, sent, read, twice, refused, pruned, replays>>

Arrived == read \cup {r.message : r \in refused}

kdfRk(rk, secret) == Append(rk, secret)
Chain(rk) == [root |-> rk, step |-> 0]
kdfCk(ck) == [ck EXCEPT !.step = @ + 1]

Fresh(p) == <<p, pairs[p]>>
Agreed(a, b) == {a, b}

BobPair == <<bob, 0>>

initAlice ==
  LET dhs == <<alice, 0>>
      rk == kdfRk(<<>>, Agreed(dhs, BobPair))
  IN [DHs |-> dhs, DHr |-> BobPair, RK |-> rk, CKs |-> Chain(rk), CKr |-> Absent,
      Ns |-> 0, Nr |-> 0, PN |-> 0, MKSKIPPED |-> <<>>]

initBob ==
  [DHs |-> BobPair, DHr |-> Absent, RK |-> <<>>, CKs |-> Absent, CKr |-> Absent,
   Ns |-> 0, Nr |-> 0, PN |-> 0, MKSKIPPED |-> <<>>]

RatchetInit ==
  /\ state = [p \in Parties |-> IF p = alice THEN initAlice ELSE initBob]
  /\ pairs = [p \in Parties |-> 1]
  /\ sent = {} /\ read = {} /\ twice = {} /\ refused = {} /\ pruned = {}
  /\ replays = 0

(* The Map of skipped keys, in the order of insertion. *)
Ids(kept) == {kept[i].id : i \in DOMAIN kept}
Place(kept, id) == CHOOSE i \in DOMAIN kept : kept[i].id = id
KeyOf(kept, id) == kept[Place(kept, id)].mk
Without(kept, id) == RemoveAt(kept, Place(kept, id))
Put(kept, id, mk) ==
  LET entry == [id |-> id, mk |-> mk]
  IN IF id \in Ids(kept) THEN [kept EXCEPT ![Place(kept, id)] = entry]
     ELSE Append(kept, entry)
pruneSkippedKeys(kept) ==
  SubSeq(kept, Len(kept) - MAX_SKIPPED_KEYS + 1, Len(kept))
Pruned(kept) == IF Len(kept) > MAX_SKIPPED_KEYS THEN pruneSkippedKeys(kept) ELSE kept

(* Whether a call may skip to message `until` at all, and the state after  *)
(* it did: a chain that is not there yet has nothing to skip.              *)
MaySkip(s, until) == s.Nr + MAX_SKIP >= until

SkipOne(s) ==
  [s EXCEPT !.CKr = kdfCk(s.CKr), !.Nr = s.Nr + 1,
            !.MKSKIPPED = Pruned(Put(@, <<s.DHr, s.Nr>>, s.CKr))]

skipMessageKeys(s, until) ==
  IF s.CKr = Absent \/ until <= s.Nr THEN s
  ELSE LET after[i \in 0..(until - s.Nr)] == IF i = 0 THEN s ELSE SkipOne(after[i - 1])
       IN after[until - s.Nr]

(* The half of ratchetDecrypt a new remote key calls for: the receiving    *)
(* chain is agreed under the old key pair and the sending one under a new. *)
DHRatchet(s, dh, pair) ==
  LET rk1 == kdfRk(s.RK, Agreed(s.DHs, dh))
      rk2 == kdfRk(rk1, Agreed(pair, dh))
  IN [s EXCEPT !.DHr = dh, !.CKr = Chain(rk1), !.DHs = pair, !.RK = rk2,
               !.CKs = Chain(rk2), !.PN = s.Ns, !.Ns = 0, !.Nr = 0]

(* ratchetEncrypt: throws, and changes nothing, before there is a chain.   *)
ratchetEncrypt(p) ==
  LET s == state[p] IN
  /\ s.CKs # Absent
  /\ Cardinality({m \in sent : m.from = p}) < MaxSent[p]
  /\ sent' = sent \cup {[from |-> p, dh |-> s.DHs, pn |-> s.PN, n |-> s.Ns, mk |-> s.CKs]}
  /\ state' = [state EXCEPT ![p].CKs = kdfCk(s.CKs), ![p].Ns = s.Ns + 1]
  /\ UNCHANGED <<pairs, read, twice, refused, pruned, replays>>

(* The state of a receiver as a call on message m finds and leaves it.     *)
Changed(s, m) == s.DHr # m.dh

\* mutant: what the old chain still owes is dropped when the key changes
Turned(s, m, pair) == IF Changed(s, m) THEN DHRatchet(s, m.dh, pair) ELSE s

Ratcheted(s, m, pair) ==
  IF Changed(s, m) THEN DHRatchet(skipMessageKeys(s, m.pn), m.dh, pair) ELSE s

\* mutant: the chain is left where it was
Stalled(s) == s

Opened(s) == [s EXCEPT !.CKr = kdfCk(@), !.Nr = @ + 1]

(* What a delivery of m to p records: a first one that throws is refused,  *)
(* one that opens is read, and read again if it was read before.           *)
Reads(m) ==
  /\ read' = read \cup {m}
  /\ twice' = IF m \in read THEN twice \cup {m} ELSE twice
  /\ UNCHANGED refused
Throws(m, why) ==
  /\ refused' = IF m \in Arrived THEN refused ELSE refused \cup {[message |-> m, why |-> why]}
  /\ UNCHANGED <<read, twice>>
Answers(m, key) == IF key = m.mk THEN Reads(m) ELSE Throws(m, "key")

Leaves(p, s) ==
  /\ state' = [state EXCEPT ![p] = s]
  /\ pairs' = [pairs EXCEPT ![p] = IF s.DHs = Fresh(p) THEN @ + 1 ELSE @]

(* Keys set aside, before or in this call, that a full map holds no more   *)
(* when the call ends in state s.                                          *)
Skips(s, until) == IF s.CKr = Absent THEN {} ELSE {<<s.DHr, i>> : i \in s.Nr..(until - 1)}
SkippedBy(p, m) ==
  Ids(state[p].MKSKIPPED) \cup (IF Changed(state[p], m) THEN Skips(state[p], m.pn) ELSE {})
GivenUp(ids, s) ==
  IF Len(s.MKSKIPPED) < MAX_SKIPPED_KEYS THEN {} ELSE ids \ Ids(s.MKSKIPPED)

Used(kept, id) == Without(kept, id)

(* The key was skipped earlier: it is deleted before it is tried.          *)
DecryptSkipped(p, m) ==
  LET kept == state[p].MKSKIPPED
      id == <<m.dh, m.n>>
  IN /\ id \in Ids(kept)
     /\ Leaves(p, [state[p] EXCEPT !.MKSKIPPED = Used(kept, id)])
     /\ Answers(m, KeyOf(kept, id))
     /\ UNCHANGED pruned

(* The message needs the chain: a remote key change is made first, and     *)
(* stays made when the message then turns out to skip too far.             *)
DecryptChain(p, m) ==
  LET s == state[p]
      ratcheted == Ratcheted(s, m, Fresh(p))
      skipped == skipMessageKeys(ratcheted, m.n)
  IN /\ <<m.dh, m.n>> \notin Ids(s.MKSKIPPED)
     /\ Changed(s, m) => MaySkip(s, m.pn)
     /\ IF ~MaySkip(ratcheted, m.n) \/ skipped.CKr = Absent
        THEN /\ Leaves(p, ratcheted)
             /\ Throws(m, "far")
             /\ pruned' = pruned \cup GivenUp(SkippedBy(p, m), ratcheted)
        ELSE /\ Leaves(p, Opened(skipped))
             /\ Answers(m, skipped.CKr)
             /\ pruned' = pruned \cup GivenUp(SkippedBy(p, m) \cup Skips(ratcheted, m.n), skipped)

(* The old chain owes more keys than one message may skip: nothing moves.  *)
DecryptTooFar(p, m) ==
  /\ <<m.dh, m.n>> \notin Ids(state[p].MKSKIPPED)
  /\ Changed(state[p], m) /\ ~MaySkip(state[p], m.pn)
  /\ Throws(m, "far")
  /\ UNCHANGED <<state, pairs, pruned>>

(* A delivery: any message of the other side, in any order; one that was   *)
(* delivered before is a replay.  A message never delivered is lost.       *)
ratchetDecrypt(p, m) ==
  /\ m.from # p
  /\ m \in Arrived => replays < MaxReplays
  /\ replays' = IF m \in Arrived THEN replays + 1 ELSE replays
  /\ DecryptSkipped(p, m) \/ DecryptChain(p, m) \/ DecryptTooFar(p, m)
  /\ UNCHANGED sent

RatchetNext ==
  \E p \in Parties :
    \/ ratchetEncrypt(p)
    \/ \E m \in sent : ratchetDecrypt(p, m)

RatchetSpec == RatchetInit /\ [][RatchetNext]_ratchetVars
------------------------------------------------------------------------------
KeySteps(ck) == ck = Absent \/ (ck.root \in Seq(SUBSET (Parties \X Nat)) /\ ck.step \in Nat)

RatchetTypeOK ==
  /\ \A p \in Parties :
       /\ state[p].Ns \in Nat /\ state[p].Nr \in Nat /\ state[p].PN \in Nat
       /\ KeySteps(state[p].CKs) /\ KeySteps(state[p].CKr)
       /\ Len(state[p].MKSKIPPED) <= MAX_SKIPPED_KEYS
  /\ pairs \in [Parties -> Nat] /\ replays \in 0..MaxReplays
  /\ read \subseteq sent /\ twice \subseteq read

(* A message opens at most once, however often it is delivered, and with it *)
(* read the receiver keeps nothing its key could be made from again: not   *)
(* the skipped key, and no chain key at or before it (the forward secrecy  *)
(* kdfCk and the delete in ratchetDecrypt are there for).                  *)
ReadOnce ==
  /\ twice = {}
  /\ \A m \in read : \A p \in Parties \ {m.from} :
       /\ \A e \in Range(state[p].MKSKIPPED) : e.mk # m.mk
       /\ state[p].CKr # Absent /\ state[p].CKr.root = m.mk.root
            => state[p].CKr.step > m.mk.step

(* Nothing was replayed, and no message came whose key was given up for    *)
(* the limit: either is taken for a new remote key and derails the session.*)
Intact == replays = 0 /\ \A m \in Arrived : <<m.dh, m.n>> \notin pruned

(* "A message that arrives late can still be decrypted instead of being    *)
(* rejected outright": in whatever order the messages come and whichever   *)
(* are lost, each that is not too far ahead opens.  The two sides mix the  *)
(* same secrets into the root in the same order, and one is at most ahead  *)
(* of the other, also when a call threw halfway.                           *)
LateIsReadable ==
  Intact =>
    /\ \A r \in refused : r.why = "far"
    /\ \/ IsPrefix(state[alice].RK, state[bob].RK)
       \/ IsPrefix(state[bob].RK, state[alice].RK)
==============================================================================
