--------------------------- MODULE ChargingKernel ---------------------------
(***************************************************************************)
(* NonlinearSequenceEvaluator::evaluate_data (evaluator.cpp): the charging *)
(* algorithm on the label of a complete route, in which customers have     *)
(* been collapsed into the energy between charging opportunities, with the *)
(* early exit of the bounded variant.  One action per branch of its loops. *)
(***************************************************************************)
EXTENDS Charging

CONSTANTS
  Routes,      \* the visit sequences to evaluate
  BoundLimits, \* limits of bounded evaluations: [lambda, incumbent, minimum, finite]
  NoLimits     \* an evaluation that is not bounded

VARIABLES
  visits, limits,       \* the question
  label,                \* its label, with the legs of merged visits removed
  position,             \* of the station, or of the return to the depot
  arrival, departure,   \* energy levels at positions 0 .. Len(label.legs) + 1
  shift,                \* time left for charging
  shortfall,
  outcome               \* Running, a summary or a lower bound

vars == <<visits, limits, label, position, arrival, departure, shift, shortfall, outcome>>
question == <<visits, limits, label>>

Running == [kind |-> "running"]
Count == Len(label.legs)
NoChargeDuration == label.travel + label.service

CanonicalLabel(route) ==
  LET raw == RouteLabel(route) IN [raw EXCEPT !.legs = CanonicalLegs(@)]

\* What RouteEvaluator says of every route.
Exact == [route \in Routes |-> Evaluate(route)]

\* What the way to a position takes; the last position is the depot.
LegEnergy(k) == IF k > Count THEN label.tail ELSE label.legs[k].energy

\* A penalty of zero asks for the plain evaluation.
Effective(l) == IF l # NoLimits /\ l.lambda = 0 THEN NoLimits ELSE l

\* The caller's certificate that no rate is infinite (it looks at the whole
\* instance; stations the route does not visit make no difference here).
FiniteRates(route) ==
  \A s \in Range(route) \cap Stations :
    \A i \in 2 .. Len(Curve[s]) : Curve[s][i].time > Curve[s][i - 1].time

Init ==
  /\ visits \in Routes
  /\ \E l \in BoundLimits \cup {NoLimits} :
       /\ l # NoLimits => (l.finite => FiniteRates(visits))
       /\ limits = Effective(l)
  /\ label = CanonicalLabel(visits)
  /\ position = 1
  /\ departure = [k \in 0 .. Count + 1 |->
                    IF k = 0 THEN Capacity ELSE IF k = 1 THEN Capacity - LegEnergy(1) ELSE 0]
  /\ arrival = [departure EXCEPT ![0] = 0]
  /\ shift = Larger(0, MaxDuration - NoChargeDuration)
  /\ shortfall = 0
  /\ outcome = Running

Need == -arrival[position]
CurveAt(k) == Curve[label.legs[k].station]
Curves == [k \in 1 .. Count |-> CurveAt(k)]

\* With finite rates and no time left the stations are not even looked at.
Scanned == limits = NoLimits \/ ~(limits.finite /\ shift = 0)

\* Mutant: the station right before the shortage is not looked at.
HelpBefore == IF Scanned THEN Offers(Curves, 1 .. position - 2, departure, position, shift) ELSE {}

Help == IF Scanned THEN Offers(Curves, 1 .. position - 1, departure, position, shift) ELSE {}

\* Mutant: all of the time on the road counts as excess.
BoundCostOfAll(short) ==
  label.travel + limits.lambda * (short \div Consumption + NoChargeDuration)

\* The cost a candidate with this shortfall has at least.
BoundCost(short) ==
  label.travel + limits.lambda
    * (short \div Consumption + Larger(0, NoChargeDuration - MaxDuration))

Rejects(short) ==
  /\ limits # NoLimits
  /\ BoundCost(short) >= limits.incumbent \/ BoundCost(short) > limits.minimum

\* The next position is reached with what is left after its leg.
Advance(arr, dep) ==
  /\ position' = position + 1
  /\ IF position = Count + 1 THEN arrival' = arr /\ departure' = dep
     ELSE \E level \in {dep[position] - LegEnergy(position + 1)} :
            /\ arrival' = [arr EXCEPT ![position + 1] = level]
            /\ departure' = [dep EXCEPT ![position + 1] = level]

InLoop == outcome = Running /\ Count > 0 /\ position <= Count + 1

\* The position is reached without a shortage.
Reach ==
  /\ InLoop /\ Need <= 0
  /\ Advance(arrival, departure)
  /\ UNCHANGED <<question, shift, shortfall, outcome>>

\* No station can help (or none was passed): the shortage becomes a shortfall.
FallShort ==
  /\ InLoop /\ Need > 0 /\ Help = {}
  /\ ~Rejects(shortfall + Need)
  /\ shortfall' = shortfall + Need
  /\ Advance([arrival EXCEPT ![position] = 0], [departure EXCEPT ![position] = 0])
  /\ UNCHANGED <<question, shift, outcome>>

\* The same with a bounded evaluation that need not go on.
Reject ==
  /\ InLoop /\ Need > 0 /\ Help = {}
  /\ Rejects(shortfall + Need)
  /\ shortfall' = shortfall + Need
  /\ outcome' = [kind |-> "bound", cost |-> BoundCost(shortfall + Need)]
  /\ UNCHANGED <<question, position, arrival, departure, shift>>

Charge ==
  /\ InLoop /\ Need > 0
  /\ \E offers \in {Help} \ {{}} : \E best \in {BestOffer(offers)} :
       LET amount == Smaller(Need, best.amount)
           level == departure[best.at]
       IN /\ departure' = Raise(departure, best.at, position, amount)
          /\ arrival' = Raise(arrival, best.at + 1, position, amount)
          /\ shift' = Larger(0, shift - Duration(CurveAt(best.at), level, level + amount))
  /\ UNCHANGED <<question, position, shortfall, outcome>>

Charging == SumOver([k \in 1 .. Count |-> k],
                    LAMBDA k : ChargedAt(CurveAt(k), arrival[k], departure[k]))

Finish ==
  /\ outcome = Running /\ Count > 0 /\ position = Count + 2
  /\ outcome' = [kind |-> "summary"]
                  @@ Summary(label.travel, Charging, label.service, shortfall)
  /\ UNCHANGED <<question, position, arrival, departure, shift, shortfall>>

\* A route without a charging opportunity.
FinishDirect ==
  /\ outcome = Running /\ Count = 0
  /\ shortfall' = Larger(0, label.tail - Capacity)
  /\ outcome' = [kind |-> "summary"]
                  @@ Summary(label.travel, 0, label.service, shortfall')
  /\ UNCHANGED <<question, position, arrival, departure, shift>>

Next == Reach \/ FallShort \/ Reject \/ Charge \/ Finish \/ FinishDirect

Spec == Init /\ [][Next]_vars
-----------------------------------------------------------------------------
\* The kernel on labels and the whole-route kernel of RouteEvaluator, which
\* move over different positions and keep their levels differently, give the
\* same costs; and a route without a shortfall can be driven: the levels its
\* stations are left with are a valid schedule, whose replay by
\* evaluate_schedule costs the same again.
KernelsAgree ==
  outcome.kind = "summary"
    => LET e == Exact[visits]
           scheduled == [i \in DOMAIN visits |-> e.departure[i + 1]]
       IN /\ \A f \in DOMAIN e.summary : outcome[f] = e.summary[f]
          /\ outcome.shortfall = 0
               => /\ ScheduleValid(visits, scheduled)
                  /\ EvaluateSchedule(visits, scheduled) = e.summary

\* A bounded evaluation that was cut short is one the caller would have
\* refused with the exact cost, which is never below the bound.
RejectsOnlyLosers ==
  outcome.kind = "bound"
    => LET exact == GeneralizedCost(Exact[visits].summary, limits.lambda)
       IN /\ outcome.cost <= exact
          /\ exact >= limits.incumbent \/ exact > limits.minimum

=============================================================================
