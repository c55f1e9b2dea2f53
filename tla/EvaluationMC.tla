---------------------------- MODULE EvaluationMC ----------------------------
(***************************************************************************)
(* The evaluators of a route on small instances, one of them at work in    *)
(* each behaviour: the scorer of edits, the charging kernel on labels and  *)
(* the scorer of joined fragments.                                         *)
(*                                                                         *)
(* The scorers share two stations of one curve and four customers, one of  *)
(* them at the place of a station.                                         *)
(***************************************************************************)
EXTENDS PhysicalScorer, RouteScorer, TLC

CONSTANT NoLimits                 \* ChargingKernel

VARIABLES
  routed, limits, label, position, arrival, departure, shift, shortfall, outcome \* ChargingKernel

Line(place) ==
  [p \in (DOMAIN place) \X (DOMAIN place) |->
     Larger(place[p[1]] - place[p[2]], place[p[2]] - place[p[1]])]

Points(list) == [k \in DOMAIN list |-> [time |-> list[k][1], energy |-> list[k][2]]]

ScorerService == "a" :> 1 @@ "b" :> 2 @@ "c" :> 4 @@ "e" :> 8
ScorerCurve == [s \in {"s", "t"} |-> Points(<< <<0, 0>>, <<4, 8>> >>)]
ScorerDist == Line("d" :> 0 @@ "a" :> 4 @@ "b" :> 9 @@ "c" :> 2 @@ "e" :> 5 @@ "s" :> 2 @@ "t" :> 6)

\* Two of these repeat a station as an imported route may.
EditRoutes == { <<"s", "s", "s", "a", "t">>, <<"a", "s", "b", "s">>, <<"t", "c", "t", "t", "t">> }
-----------------------------------------------------------------------------
(* The kernel has two customers and three stations on a line, with a       *)
(* two-speed curve, a faster one and one with an instant segment; the      *)
(* service of a customer makes some routes run out of time for charging.   *)

KernelDist == Line("d" :> 0 @@ "a" :> 4 @@ "b" :> 8 @@ "s" :> 2 @@ "f" :> 6 @@ "i" :> 6)

KernelService == "a" :> 2 @@ "b" :> 8

KernelCurve == "s" :> Points(<< <<0, 0>>, <<4, 4>>, <<12, 8>> >>)
            @@ "f" :> Points(<< <<0, 0>>, <<6, 6>>, <<10, 8>> >>)
            @@ "i" :> Points(<< <<0, 0>>, <<0, 4>>, <<4, 8>> >>)

\* Every sequence of at most four visits in which no customer comes twice.
KernelRoutes == {r \in UNION {[1 .. n -> {"a", "b", "s", "f", "i"}] : n \in 0 .. 4} :
                   \A i, j \in DOMAIN r : r[i] \in {"a", "b"} /\ r[i] = r[j] => i = j}

KernelLimits == [lambda : {0, 1, 2}, incumbent : {16, 24}, minimum : {20}, finite : BOOLEAN]

Kernel == INSTANCE ChargingKernel WITH
  Customers <- {"a", "b"}, Stations <- {"s", "f", "i"}, Dist <- KernelDist,
  Service <- KernelService, Curve <- KernelCurve,
  Routes <- KernelRoutes, BoundLimits <- KernelLimits, visits <- routed
-----------------------------------------------------------------------------
\* A route over these customers, with or without a station in each gap.
WithStops(order, stops) ==
  FlattenSeq([i \in DOMAIN order |-> stops[i] \o <<order[i]>>]) \o stops[Len(order) + 1]

Routed(order, station) == {WithStops(order, stops) : stops \in [1 .. Len(order) + 1 -> {<< >>, <<station>>}]}

\* The same customer orders come with different stations on their way.
JoinVisits == {<<r>> : r \in Routed(<<"a", "b", "c">>, "s") \cup Routed(<<"c", "b", "a">>, "t")}
   \cup {<<r, q>> : r \in Routed(<<"a", "b">>, "t"), q \in Routed(<<"c", "e">>, "s")}
   \cup { << <<"s", "a", "b", "t", "s", "c">> >>, << <<"c", "e">>, <<"a", "s", "b">> >>,
          << <<"a", "s", "b", "s", "e">>, <<"c">> >>, << <<"c">>, <<"e", "b", "a">> >>,
          << <<"s", "a">>, <<"b", "t">>, <<"c", "e", "s">> >>, << <<"a">>, <<"b">>, <<"c">> >> }

JoinSolutions == {[i \in DOMAIN v |-> Plan(v[i])] : v \in JoinVisits}
JoinOrders == {q \in UNION {[1 .. n -> Customers] : n \in 1 .. 4} : IsInjective(q)}
-----------------------------------------------------------------------------
kernelVars == <<routed, limits, label, position, arrival, departure, shift, shortfall, outcome>>

KernelIdle ==
  /\ routed = << >> /\ limits = NoLimits /\ label = NoLabel /\ position = 0
  /\ arrival = << >> /\ departure = << >> /\ shift = 0 /\ shortfall = 0
  /\ outcome = [kind |-> "idle"]
EditsIdle == visits = << >> /\ promised = NoLabel
FragmentsIdle == incumbent = << >> /\ profiles = << >> /\ overrides = << >>

EvaluationInit ==
  \/ EditInit /\ KernelIdle /\ FragmentsIdle
  \/ EditsIdle /\ Kernel!Init /\ FragmentsIdle
  \/ EditsIdle /\ KernelIdle /\ JoinInit

EvaluationNext ==
  \/ EditNext /\ UNCHANGED <<kernelVars, joinVars>>
  \/ Kernel!Next /\ UNCHANGED <<editVars, joinVars>>
  \/ incumbent # << >> /\ JoinNext /\ UNCHANGED <<editVars, kernelVars>>

EvaluationSpec == EvaluationInit /\ [][EvaluationNext]_<<editVars, kernelVars, joinVars>>
-----------------------------------------------------------------------------
\* What the kernel answers (NonlinearSequenceEvaluator::evaluate_data).
KernelsAgree == Kernel!KernelsAgree
RejectsOnlyLosers == Kernel!RejectsOnlyLosers
=============================================================================
