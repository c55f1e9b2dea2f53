-------------------------- MODULE RouteAssemblerMC --------------------------
(***************************************************************************)
(* A small instance of RouteAssembler: three customers, two of which are   *)
(* apart in one descent result only, routes for some and for all in two    *)
(* orders, and the exact variants FRVCP can find.  The pool has room for   *)
(* two routes, one fewer than the result with three.                       *)
(***************************************************************************)
EXTENDS RouteAssembler

Route(seq, cost, exact, rank) ==
  [seq |-> seq, cost |-> cost, exact |-> exact, rank |-> rank]

One(cost, exact) == Route(<<1>>, cost, exact, 1)
All(cost, exact) == Route(<<1, 2, 3>>, cost, exact, 2)
Rest(cost, exact) == Route(<<2, 3>>, cost, exact, 3)
OneLast(cost, exact) == Route(<<2, 3, 1>>, cost, exact, 4)
Two(cost, exact) == Route(<<2>>, cost, exact, 5)
Three(cost, exact) == Route(<<3>>, cost, exact, 6)

MCColumn == {One(5, FALSE), One(6, FALSE), Rest(4, FALSE), All(11, FALSE), OneLast(8, FALSE),
             Two(1, FALSE), Three(1, FALSE)}
MCRefinement == {One(7, TRUE), All(7, TRUE)}

MCLocal ==
  {[plans |-> {One(5, FALSE), Rest(4, FALSE)}, feasible |-> TRUE],
   [plans |-> {All(11, FALSE)}, feasible |-> TRUE],
   [plans |-> {OneLast(8, FALSE)}, feasible |-> TRUE],
   [plans |-> {One(6, FALSE), Two(1, FALSE), Three(1, FALSE)}, feasible |-> TRUE],
   [plans |-> {One(6, FALSE)}, feasible |-> FALSE]}

DualVector(a, b) == [i \in {1, 2, 3} |-> IF i = 1 THEN a ELSE IF i = 2 THEN b ELSE 0]

MCDuals == {DualVector(9, 0), DualVector(3, 3)}
=============================================================================
