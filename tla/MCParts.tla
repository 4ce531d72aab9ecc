--------------------------------- MODULE MCParts --------------------------------
(* Values of Parts' constants for TLC. *)
EXTENDS Parts, TLC

CONSTANTS r1, r2, x, y, j1

TwoRequests   == {r1, r2}
TwoItems      == {x, y}
OneJob        == {j1}

Line(i, q) == [item |-> i, qty |-> q]

\* One part, two parts, the same part twice, a missing one after a part.
AllBodies == {<<Line(x, 1), Line(y, 2)>>, <<Line(x, 2), Line(x, 1)>>,
              <<Line(y, 1)>>, <<Line(y, 1), Line(Missing, 1)>>}

AllLevels == {Untracked, 2}

PartsSymmetry == Permutations(Requests)
================================================================================
