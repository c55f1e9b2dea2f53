------------------------------ MODULE PathsMC -------------------------------
(***************************************************************************)
(* The catalogue of station paths and the replacement of paths on small    *)
(* instances, one of them at work in each behaviour.                       *)
(*                                                                         *)
(* The replacement has two gaps with three and two paths and two routes;   *)
(* costs are the lengths plus a charge that depends on both paths, and     *)
(* rounding of one unit.                                                   *)
(***************************************************************************)
EXTENDS PathRepair, PathCatalog, TLC

Plans == {<<a, b>> : a \in 1 .. 3, b \in 1 .. 2}

Lengths == <<<<0, 1, 1>>, <<0, 2>>>>
Lower(c) == Lengths[1][c[1]] + Lengths[2][c[2]]

CaseOf(charge, noise) ==
  LET full == [c \in Plans |-> Lower(c) + 1 + charge[2 * c[1] + c[2] - 2]]
  IN [options |-> <<<< << >>, <<8>>, <<7>> >>, << << >>, <<8>> >>>>,
      eligible |-> {1, 2}, hints |-> <<<<1, 2, 2>>, <<2, 1, 3>>, <<1, 1, 1>>>>,
      lower |-> [r \in 1 .. 2 |-> [c \in Plans |-> Lower(c)]],
      full |-> [r \in 1 .. 2 |-> full],
      fast |-> [r \in 1 .. 2 |-> [c \in Plans |->
                  full[c] + (IF noise[c[2]] = c[1] THEN -1 ELSE IF noise[3] = c[1] THEN 1 ELSE 0)]]]

\* Charges of the plans <<1, 1>>, <<1, 2>>, <<2, 1>>, ...
MCCases ==
  {CaseOf(<<5, a, b, d, c, e>>, noise) :
     a \in {0, 2, 3}, b \in {0, 2, 4}, c \in {0, 3}, d \in {0, 2}, e \in {0, 2},
     noise \in {<<1, 2, 3>>, <<2, 3, 0>>}}
    \cup {CaseOf(<<9, a, b, 0, c, e>>, noise) :
            a \in {4, 6}, b \in {6, 8}, c \in {1, 7}, e \in {0, 5},
            noise \in {<<3, 1, 0>>, <<3, 1, 2>>}}
-----------------------------------------------------------------------------
(* The catalogue has three stations around two nodes of a grid with        *)
(* city-block distances and two curves; batteries and horizons cut some    *)
(* paths off.  The origin is node 0, the target node -1.                   *)

Blocks(a, b) ==
  LET gap(x, y) == IF x >= y THEN x - y ELSE y - x
  IN gap(a[1], b[1]) + gap(a[2], b[2])

Points == {<<0, 1>>, <<1, 1>>, <<1, 2>>, <<2, 0>>}

NetAt(places, ranks, capacity, horizon) ==
  LET at(n) == IF n = 0 THEN <<0, 0>> ELSE IF n = -1 THEN <<3, 1>> ELSE places[n]
      nodes == {0, -1} \cup {1, 2, 3}
  IN [stations |-> 3,
      dist |-> [pair \in nodes \X nodes |-> Blocks(at(pair[1]), at(pair[2]))],
      rank |-> ranks, capacity |-> capacity, rest |-> 1, service |-> 1,
      horizon |-> horizon, slow |-> 1]

MCNets ==
  {NetAt(places, ranks, size[1], size[2]) :
     places \in {<<a, b, c>> : a, b, c \in Points},
     ranks \in {<<1, 2, 1>>, <<2, 1, 1>>, <<2, 1, 2>>},
     size \in {<<3, 14>>, <<2, 40>>}}
-----------------------------------------------------------------------------
\* No stations, so no paths: the catalogue while a repair is at work.
CatalogueIdle ==
  /\ net = [NetAt(<< <<0, 1>>, <<1, 1>>, <<1, 2>> >>, <<1, 2, 1>>, 3, 14) EXCEPT !.stations = 0]
  /\ tolerance = 1 /\ pass = "enumerate" /\ ahead = {} /\ kept = {}

RepairIdle ==
  /\ case = CHOOSE c \in Cases : TRUE
  /\ task = "hints" /\ pc = "done" /\ plans = << >> /\ todo = {} /\ work = {}
  /\ minimum = Infinity /\ band = {} /\ refused = {} /\ failures = 0 /\ late = TRUE

PathsInit == (Init /\ CatalogueIdle) \/ (CatalogInit /\ RepairIdle)

PathsNext ==
  \/ Next /\ UNCHANGED catalogVars
  \/ plans = << >> /\ CatalogNext /\ UNCHANGED vars

PathsSpec == PathsInit /\ [][PathsNext]_<<vars, catalogVars>>
=============================================================================
