------------------------------- MODULE MCTimeline -------------------------------
(* Values of Timeline's constants for TLC. *)
EXTENDS Timeline, TLC

CONSTANTS l1, l2, l3, l4, c1

FourLines  == {l1, l2, l3, l4}
OneClient  == {c1}

TimelineSymmetry == Permutations(Lines) \cup Permutations(Clients)
================================================================================
