---------------------------- MODULE MCNotifications -----------------------------
(* Values of Notifications' constants for TLC. *)
EXTENDS Notifications

CONSTANTS p1, m, t, d, e

OnePush    == {p1}
TwoUsers   == {m, t}
TwoDevices == {d, e}

(***************************************************************************)
(* A registry as earlier days may have left it: d is in use, e may be gone *)
(* from its owner's phone; m and t share a phone or have one each.         *)
(***************************************************************************)
Morning ==
  /\ Init
  /\ d \in installed
  /\ staff # {}
  /\ holder[d] = t /\ holder[e] # NoUser

DaySpec == Morning /\ [][Next]_vars /\ \A p \in Pushes : WF_vars(Step(p))
================================================================================
