--------------------------- MODULE AtomicBroadcast --------------------------
(***************************************************************************)
(* What the broadcast board promises its users, with nothing of how it     *)
(* collects contributions: every slot decides at most one vector, made of  *)
(* one payload signed by each participant; it decides only after the slot  *)
(* it depends on; everyone who is told a decision is told the same one;    *)
(* and the board stops for good only on proof that a trustee signed two    *)
(* payloads for one slot.                                                  *)
(***************************************************************************)
EXTENDS Integers, Sequences

CONSTANTS
  Slots,      \* what decisions are made about
  Authors,    \* who contributes
  Values,     \* what they contribute
  NoSlot,     \* no prerequisite
  Setups,     \* (prerequisite, participants) pairs a slot may be opened with
  Signed      \* Signed[a][s]: the values author a signed for slot s

VARIABLES
  opened,   \* the setups of the opened slots, as (slot, after, participants)
  decided,  \* decided[s]: the vectors decided for s, at most one
  told,     \* the (slot, vector) pairs told to readers
  stopped   \* the board has stopped

absVars == <<opened, decided, told, stopped>>

\* One signed value of every participant, in the order of the participants.
VectorsFor(s, participants) ==
  {v \in [DOMAIN participants -> [trustee : Authors, payload : Values]] :
     \A i \in DOMAIN participants :
       /\ v[i].trustee = participants[i]
       /\ v[i].payload \in Signed[participants[i]][s]}

Equivocator(a) == \E s \in Slots : \E p, q \in Signed[a][s] : p # q

AInit ==
  /\ opened = {}
  /\ decided = [s \in Slots |-> {}]
  /\ told = {}
  /\ stopped = FALSE

Open(s, after, participants) ==
  /\ ~stopped
  /\ \A o \in opened : o.slot # s
  /\ opened' = opened \cup {[slot |-> s, after |-> after, participants |-> participants]}
  /\ UNCHANGED <<decided, told, stopped>>

Decide(o) ==
  /\ ~stopped
  /\ o \in opened
  /\ decided[o.slot] = {}
  /\ o.after # NoSlot => decided[o.after] # {}
  /\ \E v \in VectorsFor(o.slot, o.participants) :
       decided' = [decided EXCEPT ![o.slot] = {v}]
  /\ UNCHANGED <<opened, told, stopped>>

Tell(s) ==
  /\ ~stopped
  /\ \E v \in decided[s] : told' = told \cup {[key |-> s, vector |-> v]}
  /\ UNCHANGED <<opened, decided, stopped>>

Stop ==
  /\ ~stopped
  /\ \E a \in Authors : Equivocator(a)
  /\ stopped' = TRUE
  /\ UNCHANGED <<opened, decided, told>>

ANext ==
  \/ \E s \in Slots, u \in Setups : Open(s, u.after, u.participants)
  \/ \E o \in opened : Decide(o)
  \/ \E s \in Slots : Tell(s)
  \/ Stop

ASpec == AInit /\ [][ANext]_absVars
=============================================================================
