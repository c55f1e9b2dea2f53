------------------------------ MODULE Charging ------------------------------
(***************************************************************************)
(* What a physical visit sequence costs: charging curves (core.cpp), the   *)
(* resource labels of NonlinearSequenceEvaluator, the whole-route kernel   *)
(* of RouteEvaluator and the replay of a fixed charging schedule           *)
(* (evaluator.cpp).  Energy and time are integers in units in which every  *)
(* quotient below is exact, the vehicle drives one distance unit in one    *)
(* time unit and the tolerances of the code are 0.                         *)
(***************************************************************************)
EXTENDS Integers, Sequences, SequencesExt, FiniteSetsExt

CONSTANTS
  Depot, Customers, Stations,
  Dist,          \* distance of every ordered pair of nodes
  Service,       \* service time of every customer
  Consumption,   \* energy per distance unit
  Capacity,      \* battery capacity
  MaxDuration,   \* longest duration of a route
  Curve          \* charging curve of every station: points [time, energy]

Nodes == {Depot} \cup Customers \cup Stations

ASSUME NodesDisjoint ==
  /\ Depot \notin Customers \cup Stations
  /\ Customers \cap Stations = {}
ASSUME MetricType == Dist \in [Nodes \X Nodes -> Nat] /\ Service \in [Customers -> Nat]
ASSUME VehicleType == {Consumption, Capacity, MaxDuration} \subseteq Nat \ {0}
ASSUME CurveRises ==
  \A s \in Stations :
    LET p == Curve[s] IN
      /\ Len(p) >= 2 /\ p[1] = [time |-> 0, energy |-> 0] /\ p[Len(p)].energy = Capacity
      /\ \A i \in 2 .. Len(p) :
           p[i].energy > p[i - 1].energy /\ p[i].time >= p[i - 1].time

Smaller(a, b) == IF a <= b THEN a ELSE b
Larger(a, b) == IF a >= b THEN a ELSE b
Clamp(x, low, high) == Smaller(Larger(x, low), high)

Energy(a, b) == Consumption * Dist[<<a, b>>]
ServiceOf(n) == IF n \in Customers THEN Service[n] ELSE 0
\* F of the value of v, evaluated once.
With(v, F(_)) == CHOOSE r \in {F(x) : x \in {v}} : TRUE

\* A fold from the left in which every intermediate result is a value.
Folded(Op(_, _), base, seq) ==
  LET upTo[n \in 0 .. Len(seq)] ==
        IF n = 0 THEN base ELSE With(upTo[n - 1], LAMBDA acc : Op(acc, seq[n]))
  IN upTo[Len(seq)]

SumOver(seq, Term(_)) == Folded(LAMBDA sum, x : sum + Term(x), 0, seq)
-----------------------------------------------------------------------------
(* Charging curves.                                                        *)

\* The first point whose energy is at least (more than) e.
PointAt(p, e) == Min({i \in 2 .. Len(p) : e <= p[i].energy})
PointAbove(p, e) == Min({i \in 2 .. Len(p) : e < p[i].energy})

TimeAt(p, energy) ==
  LET e == Clamp(energy, 0, Capacity)
      i == PointAt(p, e)
  IN p[i - 1].time + ((e - p[i - 1].energy) * (p[i].time - p[i - 1].time))
                        \div (p[i].energy - p[i - 1].energy)

Duration(p, arrival, departure) == TimeAt(p, departure) - TimeAt(p, arrival)

\* Energy gained and time spent on the segment that starts at e; an instant
\* segment takes no time, and at the end of the curve nothing is gained.
Rate(p, e) ==
  IF e >= Capacity THEN [gain |-> 0, time |-> 1]
  ELSE LET i == PointAbove(p, Larger(0, e))
       IN [gain |-> p[i].energy - p[i - 1].energy, time |-> p[i].time - p[i - 1].time]

Instant(rate) == rate.time = 0
Faster(r, q) == r.gain * q.time > q.gain * r.time

NextBreakpoint(p, e) ==
  LET above == {i \in 2 .. Len(p) : e < p[i].energy}
  IN IF above = {} THEN Capacity ELSE p[Min(above)].energy

\* charging_curve_no_slower: p takes no longer than q between any two
\* consecutive breakpoints of the two curves.
NoSlower(p, q) ==
  LET energies == {p[i].energy : i \in DOMAIN p} \cup {q[i].energy : i \in DOMAIN q}
  IN \A a, b \in energies :
       (a < b /\ ~\E c \in energies : a < c /\ c < b)
         => Duration(p, a, b) <= Duration(q, a, b)
-----------------------------------------------------------------------------
(* Repeated visits of one station and resource labels.                     *)

\* Such a station may be visited again at once without a difference.
CanonicalStation(s) ==
  /\ Dist[<<s, s>>] = 0
  /\ \A i \in 2 .. Len(Curve[s]) : Curve[s][i].time > Curve[s][i - 1].time

Mergeable(prior, leg) ==
  /\ leg.adjacent /\ prior.station = leg.station /\ leg.energy = 0
  /\ CanonicalStation(leg.station)

CanonicalLegs(legs) ==
  Folded(LAMBDA kept, leg : IF kept # << >> /\ Mergeable(Last(kept), leg)
                            THEN kept ELSE Append(kept, leg),
         << >>, legs)

NoLabel == [from |-> Depot, to |-> Depot, legs |-> << >>, tail |-> 0,
            travel |-> 0, service |-> 0, initialized |-> FALSE]

\* edge_label: from one node by a path of stations to another node.
EdgeLabel(from, path, to) ==
  LET nodes == <<from>> \o path \o <<to>>
      stops == IF to \in Stations THEN Append(path, to) ELSE path
  IN [from |-> from, to |-> to, initialized |-> TRUE,
      legs |-> [i \in DOMAIN stops |->
                  [station |-> stops[i], energy |-> Energy(nodes[i], stops[i]),
                   adjacent |-> nodes[i] = stops[i]]],
      tail |-> IF to \in Stations THEN 0 ELSE Energy(nodes[Len(nodes) - 1], to),
      travel |-> SumOver([i \in 1 .. Len(nodes) - 1 |-> i],
                         LAMBDA i : Dist[<<nodes[i], nodes[i + 1]>>]),
      service |-> ServiceOf(to)]

Spending(legs, energy) == [legs EXCEPT ![1].energy = @ + energy]

\* append: the first leg of the right label also spends the left one's tail.
Join(left, right) ==
  IF ~right.initialized THEN left
  ELSE IF ~left.initialized THEN right
  ELSE [left EXCEPT
         !.to = right.to,
         !.travel = @ + right.travel,
         !.service = @ + right.service,
         !.legs = IF right.legs = << >> THEN @
                  ELSE @ \o Spending(right.legs, left.tail),
         !.tail = IF right.legs = << >> THEN @ + right.tail ELSE right.tail]

JoinAll(labels) == Folded(Join, NoLabel, labels)

\* The label of the physical path nodes[1], ..., nodes[n].
PathLabel(nodes) ==
  JoinAll([i \in 1 .. Len(nodes) - 1 |-> EdgeLabel(nodes[i], << >>, nodes[i + 1])])

Closed(visits) == <<Depot>> \o visits \o <<Depot>>

RouteLabel(visits) == PathLabel(Closed(visits))
-----------------------------------------------------------------------------
(* Costs.                                                                  *)

Summary(travel, charging, service, shortfall) ==
  LET excess == Larger(0, travel + charging + service - MaxDuration)
  IN [feasible |-> shortfall = 0 /\ excess = 0, raw |-> travel + charging,
      charging |-> charging, duration |-> travel + charging + service,
      shortfall |-> shortfall, excess |-> excess]

\* The energy shortfall counts as the distance it would have driven.
GeneralizedCost(summary, lambda) ==
  summary.raw + lambda * (summary.shortfall \div Consumption + summary.excess)
-----------------------------------------------------------------------------
(* RouteEvaluator::evaluate_uncached: shortages are settled from the start *)
(* of the route to its end, each by charging at a station already passed.  *)

\* One visit of each run of visits that may be merged, and for each visit its
\* place in what is left.
Merged(visits, i) ==
  i > 1 /\ visits[i] = visits[i - 1] /\ visits[i] \in Stations /\ CanonicalStation(visits[i])

GroupOf(visits) ==
  [i \in DOMAIN visits |-> Len(SelectSeq([j \in 1 .. i |-> ~Merged(visits, j)], LAMBDA b : b))]

Collapsed(visits) ==
  [g \in {GroupOf(visits)[i] : i \in DOMAIN visits} |->
     visits[Min({i \in DOMAIN visits : GroupOf(visits)[i] = g})]]

\* Room at station position k when every node up to the short one must hold it.
RoomAt(departure, k, short) == Min({Capacity - departure[j] : j \in k .. short - 1})

\* What station position k can add: within the capacity, its curve's segment
\* and the time left (when charging takes time).
AvailableAt(p, departure, k, short, shift) ==
  LET rate == Rate(p, departure[k])
      room == Smaller(RoomAt(departure, k, short),
                      NextBreakpoint(p, departure[k]) - departure[k])
  IN IF departure[k] < 0 \/ room <= 0 THEN 0
     ELSE IF Instant(rate) THEN room
     ELSE Smaller(room, (shift * rate.gain) \div rate.time)

\* The stations that can help position short: where, how much and how fast.
Offers(curves, passed, departure, short, shift) ==
  {o \in {[at |-> k, rate |-> Rate(curves[k], departure[k]),
           amount |-> AvailableAt(curves[k], departure, k, short, shift)] : k \in passed} :
     o.amount > 0}

\* The fastest offer, the latest of equals; an infinite rate is not equal to
\* itself plus or minus a tolerance, so the earliest of those.
BestOffer(offers) ==
  LET instant == {o \in offers : Instant(o.rate)}
  IN IF instant # {} THEN CHOOSE o \in instant : \A q \in instant : o.at <= q.at
     ELSE CHOOSE o \in offers : \A q \in offers :
            Faster(o.rate, q.rate) \/ (~Faster(q.rate, o.rate) /\ q.at <= o.at)

Raise(level, from, to, amount) ==
  [k \in DOMAIN level |-> IF from <= k /\ k <= to THEN level[k] + amount ELSE level[k]]

\* One step of the loop over positions, in the state
\* [at, arrival, departure, shift, shortfall].
RouteStep(path, s) ==
  LET last == Len(path)
      need == -s.arrival[s.at]
      passed == {k \in 2 .. s.at - 1 : path[k] \in Stations}
      charge(best, amount) ==
        [s EXCEPT !.arrival = Raise(@, best.at + 1, last, amount),
                  !.departure = Raise(@, best.at, last, amount),
                  !.shift = Larger(0, @ - Duration(Curve[path[best.at]], s.departure[best.at],
                                                   s.departure[best.at] + amount))]
      settle(offers) ==
        IF offers = {}
        THEN [s EXCEPT !.at = @ + 1, !.shortfall = @ + need,
                       !.arrival = Raise(@, s.at, last, need),
                       !.departure = Raise(@, s.at, last, need)]
        ELSE With(BestOffer(offers), LAMBDA best : charge(best, Smaller(need, best.amount)))
  IN IF s.at > last THEN s
     ELSE IF need <= 0 THEN [s EXCEPT !.at = @ + 1]
     ELSE With(Offers([k \in passed |-> Curve[path[k]]], passed, s.departure, s.at, s.shift), settle)

\* Levels before any charge, and the time charging may take.
RouteStart(path) ==
  LET level == [k \in DOMAIN path |->
                  Capacity - SumOver([i \in 1 .. k - 1 |-> i], LAMBDA i : Energy(path[i], path[i + 1]))]
      driven == RouteLabel(SubSeq(path, 2, Len(path) - 1))
  IN [at |-> 2, arrival |-> [level EXCEPT ![1] = 0], departure |-> level,
      shift |-> Larger(0, MaxDuration - driven.travel - driven.service), shortfall |-> 0]

\* A route charges at most once per station and segment between two shortages.
LoopBound == 40

RouteEnd(path) ==
  LET run[n \in 0 .. LoopBound] ==
        IF n = 0 THEN RouteStart(path) ELSE With(run[n - 1], LAMBDA s : RouteStep(path, s))
  IN run[LoopBound]

ChargedAt(p, arrival, departure) ==
  LET start == Clamp(arrival, 0, Capacity)
  IN Duration(p, start, Clamp(departure, start, Capacity))

Costed(path, driven, end) ==
  LET charging == SumOver([k \in DOMAIN path |-> k],
                    LAMBDA k : IF path[k] \in Stations
                               THEN ChargedAt(Curve[path[k]], end.arrival[k], end.departure[k])
                               ELSE 0)
  IN [summary |-> Summary(driven.travel, charging, driven.service, end.shortfall),
      arrival |-> end.arrival, departure |-> end.departure]

EvaluateCollapsed(visits) ==
  With(RouteEnd(Closed(visits)),
       LAMBDA end : Costed(Closed(visits), RouteLabel(visits), end))

\* All charge of a run of merged visits is at its last one.
Lifted(visits, compact) ==
  LET group == GroupOf(visits)
      lastOfRun(i) == i = Len(visits) \/ ~Merged(visits, i + 1)
      lift(level, i) == IF i = 1 THEN level[1]
                        ELSE IF i = Len(visits) + 2 THEN level[Len(level)]
                        ELSE level[group[i - 1] + 1]
  IN [summary |-> compact.summary,
      arrival |-> [i \in 1 .. Len(visits) + 2 |-> lift(compact.arrival, i)],
      departure |-> [i \in 1 .. Len(visits) + 2 |->
        IF i \in 2 .. Len(visits) + 1 /\ ~lastOfRun(i - 1)
        THEN lift(compact.arrival, i) ELSE lift(compact.departure, i)]]

Evaluate(visits) ==
  With(EvaluateCollapsed(Collapsed(visits)), LAMBDA compact : Lifted(visits, compact))
-----------------------------------------------------------------------------
(* RouteEvaluator::evaluate_schedule: the departure level of every station *)
(* visit is given (one level per visit; those of customers are not used).  *)

ScheduleLevels(visits, scheduled) ==
  LET path == Closed(visits)
      departs[k \in DOMAIN path] ==
        IF k = 1 THEN Capacity
        ELSE IF path[k] \in Stations THEN scheduled[k - 1]
        ELSE departs[k - 1] - Energy(path[k - 1], path[k])
  IN [k \in DOMAIN path |->
        [arrival |-> IF k = 1 THEN 0 ELSE departs[k - 1] - Energy(path[k - 1], path[k]),
         departure |-> departs[k]]]

\* The code refuses an unreachable leg and a level it cannot leave with.
ScheduleValid(visits, scheduled) ==
  LET level == ScheduleLevels(visits, scheduled) IN
  \A k \in 2 .. Len(visits) + 2 :
    /\ level[k].arrival >= 0
    /\ k \in 2 .. Len(visits) + 1 /\ visits[k - 1] \in Stations
         => scheduled[k - 1] \in level[k].arrival .. Capacity

EvaluateSchedule(visits, scheduled) ==
  LET level == ScheduleLevels(visits, scheduled)
      driven == RouteLabel(visits)
      charging == SumOver([i \in DOMAIN visits |-> i],
                    LAMBDA i : IF visits[i] \in Stations
                               THEN Duration(Curve[visits[i]], level[i + 1].arrival,
                                             level[i + 1].departure)
                               ELSE 0)
  IN Summary(driven.travel, charging, driven.service, 0)
=============================================================================
