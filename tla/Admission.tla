----------------------------- MODULE Admission -----------------------------
(***************************************************************************)
(* What the scheduler promises about running work, and nothing else: a     *)
(* gate that is open or closed, and a set of active units.  A unit enters  *)
(* the set only through the open gate and only while there is room, for    *)
(* all kinds together and, under the fair policy, for its own kind.  It    *)
(* may leave at any time.                                                  *)
(***************************************************************************)
EXTENDS Naturals, FiniteSets

CONSTANTS
  Units, Kinds, KindOf,
  Capacity,   \* units that may be active together
  KindRoom    \* units of one kind that may be active together

VARIABLES open, active

OfKind(k, S) == {u \in S : KindOf[u] = k}

Init == open = FALSE /\ active = {}

Admit(u) ==
  /\ open
  /\ u \in Units \ active
  /\ Cardinality(active) < Capacity
  /\ Cardinality(OfKind(KindOf[u], active)) < KindRoom
  /\ active' = active \cup {u}
  /\ UNCHANGED open

Retire(u) ==
  /\ u \in active
  /\ active' = active \ {u}
  /\ UNCHANGED open

\* The gate is opened and closed at will; units that are active go on.
Toggle == open' = ~open /\ UNCHANGED active

Next == Toggle \/ \E u \in Units : Admit(u) \/ Retire(u)

Spec == Init /\ [][Next]_<<open, active>>
=============================================================================
