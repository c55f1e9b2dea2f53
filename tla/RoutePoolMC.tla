---------------------------- MODULE RoutePoolMC ----------------------------
(***************************************************************************)
(* Small instances of RoutePool: two customers, both orders of serving     *)
(* them together, and for some orders several prices and an exact variant. *)
(***************************************************************************)
EXTENDS RoutePool

Route(seq, cost, exact, rank) ==
  [seq |-> seq, cost |-> cost, exact |-> exact, rank |-> rank]

One(cost, exact) == Route(<<1>>, cost, exact, 1)
Two(cost, exact) == Route(<<2>>, cost, exact, 4)
OneTwo(cost, exact) == Route(<<1, 2>>, cost, exact, 2)
TwoOne(cost, exact) == Route(<<2, 1>>, cost, exact, 3)

\* Prices a tolerance apart, so that "as cheap" is not transitive.
MCColumn ==
  {One(5, FALSE), One(6, TRUE), One(4, FALSE),
   Two(4, FALSE),
   OneTwo(6, FALSE), OneTwo(7, TRUE),
   TwoOne(6, FALSE), TwoOne(9, FALSE)}

MCPartition ==
  {{One(4, FALSE), Two(4, FALSE)}, {TwoOne(6, FALSE)}, {One(5, FALSE), Two(4, FALSE)}}

DualVector(a, b) == [i \in {1, 2} |-> IF i = 1 THEN a ELSE b]

MCDuals == {DualVector(0, 0), DualVector(9, 0), DualVector(3, 3)}
=============================================================================
