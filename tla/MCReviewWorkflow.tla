------------------------- MODULE MCReviewWorkflow -------------------------
(* Instances of ReviewWorkflow for TLC: two users share a device, and one  *)
(* of them looks like a machine.                                           *)
EXTENDS Workbench, TLC

CONSTANTS s1, a1, a2

Ann == Entity("USER", "ann")
Bob == Entity("USER", "bob")
Phone == Entity("DEVICE", "phone")

Uses(n, user) ==
  [key |-> <<"observed", n>>, type |-> "DEVICE_OBSERVED", at |-> -1, refs |-> <<user, Phone>>,
   payload |-> [user |-> user.id, device |-> "phone", linked |-> {}]]

Mechanical(n, user, type) ==
  [key |-> <<"observed", n>>, type |-> type, at |-> -1, refs |-> <<user>>,
   payload |-> [user |-> user.id, device |-> "phone", risky |-> TRUE]]

\* Ann scores 45 and is reviewed; Bob scores 0, and 30 once Ann is a fraud.
SharedPhone ==
  {Uses(1, Ann), Uses(2, Bob), Mechanical(3, Ann, "CAMERA_METADATA_OBSERVED"),
   Mechanical(4, Ann, "BEHAVIORAL_SIGNAL_OBSERVED")}

Users == {Ann, Bob}

\* Each table is among those kept shortest once, and kept a little longer, or
\* for good, once.
Days(e, d, r) == [events |-> e, decisions |-> d, reviews |-> r]
Policies == {Days(0, 0, 1), Days(9, 1, 0)}

Interchangeable == Permutations({a1, a2})
=============================================================================
