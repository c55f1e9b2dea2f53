------------------------------ MODULE RepairMC ------------------------------
(***************************************************************************)
(* The repair of a perturbation and the choice of an insertion on small    *)
(* instances, one of them at work in each behaviour.                       *)
(*                                                                         *)
(* The repair has three customers and two stations on a line; the costs of *)
(* all visit sequences that can come up are computed once.                 *)
(***************************************************************************)
EXTENDS JointRepair, InsertionChoice, TLC

Coordinate == 0 :> 0 @@ 1 :> 4 @@ 2 :> 8 @@ 3 :> 2 @@ 8 :> 6 @@ 9 :> 3

MCDist == [p \in Nodes \X Nodes |-> Larger(Coordinate[p[1]] - Coordinate[p[2]],
                                            Coordinate[p[2]] - Coordinate[p[1]])]

MCService == 1 :> 1 @@ 2 :> 2 @@ 3 :> 4

MCCurve ==
  8 :> << [time |-> 0, energy |-> 0], [time |-> 4, energy |-> 8] >> @@
  9 :> << [time |-> 0, energy |-> 0], [time |-> 8, energy |-> 8] >>

Orders == {q \in UNION {[1 .. n -> Customers] : n \in 1 .. 3} : IsInjective(q)}

StationPaths == {<< >>, <<8>>, <<9>>, <<8, 9>>, <<9, 8>>, <<8, 9, 8>>, <<9, 8, 9>>}
AllVisits == {v \in {ExpandRoute(x[1], x[2]) : x \in UNION {{q} \X [1 .. Len(q) + 1 -> StationPaths] : q \in Orders}} :
                LET count(S) == Len(SelectSeq(v, LAMBDA id : id \in S))
                IN count({9}) <= 2 /\ count({8, 9}) <= (IF count({9}) = 0 THEN 5 ELSE 4)}

MCRouteCost == [v \in AllVisits |-> GeneralizedCost(Evaluate(v).summary, 2)]

Solution(visits) == [p \in DOMAIN visits |-> Plan(visits[p])]

MCOriginals ==
  {Solution(v) : v \in { << <<1, 8, 2, 3>> >>, << <<8, 1, 8, 2, 8>>, <<3>> >>, << <<8, 1, 8>>, <<8, 2, 8>>, <<3>> >>,
                         << <<9, 1, 2>>, <<3, 8>> >>, << <<8, 9, 2, 8>>, <<1, 9, 3>> >>, << <<2, 8, 3, 8>>, <<8, 1>> >>,
                         << <<8, 1, 8>>, <<8, 2, 8, 3, 8>> >>, << <<8, 3, 8, 1, 8, 2, 8>> >> }}
-----------------------------------------------------------------------------
(* The choice has two customers with three and one or two moves; bounds    *)
(* are as high as they may be, tight for another move, or useless.         *)

MoveAt(direct) == {[direct |-> direct, bound |-> delta + slack, delta |-> delta] :
                     delta \in {0, 1, 3}, slack \in {-3, Safety}}

Three(a, b, c) == {<<x, y, z>> : x \in MoveAt(a), y \in MoveAt(b), z \in MoveAt(c)}
Two(a, b) == {<<x, y>> : x \in MoveAt(a), y \in MoveAt(b)}

ChoiceBoards ==
  {<<p, q>> : p \in Three(0, 1, 4) \cup Three(4, 1, 0), q \in Two(0, 2)}
    \cup {<<p, <<q>> >> : p \in Three(0, 1, 4), q \in MoveAt(2)}
    \cup {<<q, p>> : q \in Two(1, 1), p \in Two(5, 2)}
-----------------------------------------------------------------------------
JointIdle ==
  /\ original = << >> /\ kappa = 0 /\ removed = << >> /\ regretful = FALSE /\ phase = "idle" /\ retained = << >>
  /\ routes = << >> /\ tokens = << >> /\ versions = << >> /\ ranks = << >> /\ reason = "none"
ChoiceIdle ==
  /\ board = << >> /\ order = << >> /\ twoRegret = TRUE /\ turn = 1
  /\ evaluated = {} /\ completed = {} /\ winner = None

RepairInit == (JointInit /\ ChoiceIdle) \/ (ChoiceInit /\ JointIdle)

RepairNext ==
  \/ JointNext /\ UNCHANGED choiceVars
  \/ ChoiceNext /\ UNCHANGED jointVars

RepairSpec == RepairInit /\ [][RepairNext]_<<jointVars, choiceVars>>
=============================================================================
