------------------------------- MODULE Frvcp --------------------------------
(***************************************************************************)
(* The charging refinement of a round: the loop of assemble_routes over    *)
(* the selected routes (solver.cpp), the active wall budget of its calls   *)
(* (frvcp_active_budget.hpp), and CoptFrvcp (copt_models.cpp): what it     *)
(* remembers, the paths of stations its model offers in every gap, and     *)
(* which of its answers count as exact.  The clock moves by whole units;   *)
(* tolerances are 0.  COPT is external: it returns an optimum of the model *)
(* it was given, or runs out of time, or returns nothing usable.           *)
(***************************************************************************)
EXTENDS Plans

CONSTANTS
  Offered,     \* visit sequences of the first columns of the pool
  Limit,       \* active wall budget of all calls of a run
  Guard,       \* what is left of it when no further call starts
  Deadline,    \* end of the run
  CallTimes,   \* how long a call may take before its deadline
  Overrun,     \* how much longer than its deadline a call may take
  Target,      \* cost at which the run is content
  MaxRounds    \* bound on the rounds of a run

ASSUME BudgetType == {Limit, Guard, Deadline, Overrun, Target, MaxRounds} \subseteq Nat /\ CallTimes \subseteq Nat

\* Direct legs are the shortest, and no curve has an instant segment.
ASSUME DirectIsShortest == \A a, b, c \in Nodes : Dist[a, c] <= Dist[a, b] + Dist[b, c]
ASSUME FiniteRates == \A s \in Stations : \A i \in 2 .. Len(Curve[s]) : Curve[s][i].time > Curve[s][i - 1].time

NoCost == 10000
-----------------------------------------------------------------------------
(* Paths of stations between two anchors of a route.                       *)

Paths == SetToAllKPermutations(Stations)

Line(from, path, to) == <<from>> \o path \o <<to>>
Steps(line) == [i \in 1 .. Len(line) - 1 |-> <<line[i], line[i + 1]>>]
TravelOf(from, path, to) == SumOver(Steps(Line(from, path, to)), LAMBDA step : Dist[step])
EnergyOf(from, path, to) == Consumption * TravelOf(from, path, to)
Reachable(from, path, to) ==
  \A i \in DOMAIN Steps(Line(from, path, to)) :
    Energy(Line(from, path, to)[i], Line(from, path, to)[i + 1]) <= Capacity

\* station_curve_ranks: stations in the order of their curves, fastest first.
Rank(s) == Cardinality({Curve[q] : q \in {q \in Stations : NoSlower(Curve[q], Curve[s]) /\ Curve[q] # Curve[s]}})
Ranks(path) == {Rank(path[i]) : i \in DOMAIN path}

\* frvcp_path_dominates
Dominates(from, to, left, right) ==
  /\ left # << >> /\ right # << >>
  /\ Max(Ranks(left)) <= Min(Ranks(right))
  /\ Dist[from, left[1]] <= Dist[from, right[1]]
  /\ Dist[Last(left), to] <= Dist[Last(right), to]
  /\ TravelOf(from, left, to) <= TravelOf(from, right, to)

\* Shortest travel from a station to the end of the gap.
ToTarget(s, to) ==
  LET ways == {p \in Paths : p # << >> /\ p[1] = s /\ Reachable(s, Tail(p), to)}
  IN Min({TravelOf(s, Tail(p), to) : p \in ways} \cup {NoCost})

\* enumerate: every path within the bound, nearest completion first.
Walk(from, to, upper) ==
  LET at(p) == Last(<<from>> \o p)
      driven(p, s) == TravelOf(from, p, s)
      open(p) == {s \in Stations \ Range(p) :
                    /\ ToTarget(s, to) < NoCost /\ Energy(at(p), s) <= Capacity
                    /\ driven(p, s) + ToTarget(s, to) <= upper}
      bound(p, s) == Dist[at(p), s] + ToTarget(s, to)
      next(p) == SetToSortSeq(open(p), LAMBDA s, t : bound(p, s) < bound(p, t) \/ (bound(p, s) = bound(p, t) /\ s < t))
      whole(p) == p # << >> /\ Reachable(from, p, to) /\ TravelOf(from, p, to) <= upper
      walk[p \in Paths] ==
        (IF whole(p) THEN <<p>> ELSE << >>)
          \o FlattenSeq([i \in DOMAIN next(p) |-> walk[Append(p, next(p)[i])]])
  IN walk[<< >>]

\* add_path: dominated paths stay out, except that of the start.
AddPath(from, to, start, kept, path) ==
  IF path \in Range(kept) \/ (path # start /\ \E i \in DOMAIN kept : Dominates(from, to, kept[i], path))
  THEN kept
  ELSE Append(SelectSeq(kept, LAMBDA k : k = start \/ ~Dominates(from, to, path, k)), path)

\* Mutant: the direct leg of the gap itself is counted as driven elsewhere.
WholeRouteBound(anchors, g, upper) ==
  upper - SumOver(Steps(anchors), LAMBDA step : Dist[step])

\* What is left of the bound on the route when all other gaps are direct.
GapBound(anchors, g, upper) ==
  upper - (SumOver(Steps(anchors), LAMBDA step : Dist[step]) - Dist[anchors[g], anchors[g + 1]])

GapPaths(from, to, start, upper) ==
  LET direct == IF Energy(from, to) <= Capacity /\ Dist[from, to] <= upper THEN << << >> >> ELSE << >>
      own == IF start # << >> THEN <<start>> ELSE << >>
  IN Range(Folded(LAMBDA kept, path : AddPath(from, to, start, kept, path),
                  << >>, direct \o own \o Walk(from, to, upper)))
-----------------------------------------------------------------------------
(* Conditions between the gaps of a route, after dominance.                *)

\* A customer does not charge: the legs around it share one battery.
Coupled(from, to, path) ==
  LET before == Min({Energy(n, from) : n \in Stations \cup {Depot}})
      after == Min({Energy(to, n) : n \in Stations \cup {Depot}})
  IN IF path = << >> THEN before + Energy(from, to) + after <= Capacity
     ELSE before + Energy(from, path[1]) <= Capacity /\ Energy(Last(path), to) + after <= Capacity

\* Fastest segment of all curves.
FastestRate ==
  LET rates == UNION {{[gain |-> Curve[s][i].energy - Curve[s][i - 1].energy,
                        time |-> Curve[s][i].time - Curve[s][i - 1].time] : i \in 2 .. Len(Curve[s])} :
                        s \in Stations}
  IN CHOOSE r \in rates : \A q \in rates : ~Faster(q, r)

AtLeast(energy) == (Larger(0, energy - Capacity) * FastestRate.time) \div FastestRate.gain

ServiceTime(customers) == SumOver(customers, LAMBDA c : Service[c])

\* The route fits when every other gap takes its shortest path and all charge
\* comes at the fastest rate.
Fits(customers, paths, g, path) ==
  LET a == Anchors(customers)
      others == SelectSeq([i \in DOMAIN paths |-> i], LAMBDA i : i # g)
      travel == SumOver(others, LAMBDA i : Min({TravelOf(a[i], p, a[i + 1]) : p \in paths[i]}))
      energy == SumOver(others, LAMBDA i : Min({EnergyOf(a[i], p, a[i + 1]) : p \in paths[i]}))
  IN travel + TravelOf(a[g], path, a[g + 1]) + AtLeast(energy + EnergyOf(a[g], path, a[g + 1]))
       + ServiceTime(customers) <= MaxDuration

\* enumerate_frvcp_paths: what the model offers for a start of cost upper.
\* The three stages are the enumeration and the two later conditions.
Enumerated(customers, start, upper) ==
  LET a == Anchors(customers)
  IN [g \in DOMAIN start |-> GapPaths(a[g], a[g + 1], start[g], GapBound(a, g, upper))]

CoupledPaths(customers, start, paths) ==
  LET a == Anchors(customers)
  IN [g \in DOMAIN paths |-> {p \in paths[g] : p = start[g] \/ Coupled(a[g], a[g + 1], p)}]

FittingPaths(customers, start, paths) ==
  [g \in DOMAIN paths |-> {p \in paths[g] : p = start[g] \/ Fits(customers, paths, g, p)}]

ActivePaths(customers, start, upper) ==
  With(CoupledPaths(customers, start, Enumerated(customers, start, upper)),
       LAMBDA paths : FittingPaths(customers, start, paths))
-----------------------------------------------------------------------------
(* The model: one path per gap and how much to charge at every station.    *)

\* The least time of charging on a sequence of visits: from its end to its
\* start, the time still needed by the level of the battery on arrival.
LeastCharging(visits) ==
  LET path == Closed(visits)
      levels(i, e) == IF path[i] \in Stations THEN e .. Capacity ELSE {e}
      spent(i, e, d) == IF path[i] \in Stations THEN Duration(Curve[path[i]], e, d) ELSE 0
      before(after, i) ==
        [e \in 0 .. Capacity |->
           Min({spent(i, e, d) + after[d - Energy(path[i], path[i + 1])] :
                  d \in {d \in levels(i, e) : d >= Energy(path[i], path[i + 1])}} \cup {NoCost})]
  IN Folded(before, [e \in 0 .. Capacity |-> 0], Reverse([i \in 1 .. Len(path) - 1 |-> i]))[Capacity]

\* Cost of a plan charged as little as possible; NoCost when it cannot be driven.
LeastCost(visits) ==
  LET cost == SumOver(Steps(Closed(visits)), LAMBDA step : Dist[step]) + LeastCharging(visits)
  IN IF cost + ServiceTime(CustomersOf(visits)) <= MaxDuration THEN cost ELSE NoCost

\* The plans the model with these paths can return.
ModelPlans(customers, paths) ==
  LET chosen == {f \in [DOMAIN paths -> UNION {paths[g] : g \in DOMAIN paths}] :
                   \A g \in DOMAIN paths : f[g] \in paths[g]}
  IN {p \in {[customers |-> customers, gaps |-> f, exact |-> FALSE,
              raw |-> LeastCost(ExpandRoute(customers, f))] : f \in chosen} : p.raw < NoCost}

Optima(plans) == {p \in plans : \A q \in plans : p.raw <= q.raw}

\* frvcp_route_lower_bound, without the service time.
LowerBound(customers) ==
  LET travel == SumOver(Steps(Anchors(customers)), LAMBDA step : Dist[step])
  IN travel + AtLeast(Consumption * travel)
-----------------------------------------------------------------------------
(* Requests to the model.  What the model answers is tabulated in the      *)
(* initial state for all requests that can come up: those of the first     *)
(* columns, of their optima, and so on.                                    *)

PlanOf(visits) ==
  [customers |-> CustomersOf(visits), gaps |-> GapsOf(visits), exact |-> FALSE,
   raw |-> Evaluate(visits).summary.raw]

Request(plan) == [customers |-> plan.customers, gaps |-> plan.gaps, raw |-> plan.raw]

PathsFor(request) == ActivePaths(request.customers, request.gaps, request.raw)

FirstColumns == {PlanOf(v) : v \in Offered}

OptimaFrom(requests) ==
  UNION {{Request(p) : p \in Optima(ModelPlans(r.customers, PathsFor(r)))} : r \in requests}

Requests ==
  Folded(LAMBDA known, round : known \cup OptimaFrom(known), {Request(p) : p \in FirstColumns},
         [round \in 1 .. MaxRounds |-> round])

LeastOf(plans) == Min({p.raw : p \in plans} \cup {NoCost})

\* For the properties: the model with every path the dominance rule leaves,
\* and the cheapest charging of a customer order by whatever stations.
Unbounded(r) ==
  LET a == Anchors(r.customers)
  IN ModelPlans(r.customers, [g \in DOMAIN r.gaps |-> GapPaths(a[g], a[g + 1], r.gaps[g], NoCost)])

AllPaths(customers) ==
  LET a == Anchors(customers)
  IN [g \in 1 .. Len(customers) + 1 |-> {p \in Paths : Reachable(a[g], p, a[g + 1])}]

Tabulated(r) ==
  With(ModelPlans(r.customers, PathsFor(r)),
       LAMBDA plans : [request |-> r, optima |-> Optima(plans), found |-> plans \cap FirstColumns,
                       unbounded |-> Smaller(r.raw, LeastOf(Unbounded(r)))])

TrueLeast ==
  {[customers |-> c, raw |-> LeastOf(ModelPlans(c, AllPaths(c)))] : c \in {CustomersOf(v) : v \in Offered}}
-----------------------------------------------------------------------------
(* State: one run of the solver, round by round.                           *)

VARIABLES
  models,      \* the table, and the least cost of every customer order
  clock,
  spent,       \* wall time charged to the budget
  skipped,     \* routes left unrefined because the budget was used up
  columns,     \* plans in the pool that set partitioning may select
  exactPlans,  \* exact_cache_: at most one plan per customer order
  memo,        \* model_cache_: answers by request
  selected,    \* plans selected in this round; empty between rounds
  assembled,   \* the same with the refinements so far
  index,       \* route to refine next
  rounds

vars == <<models, clock, spent, skipped, columns, exactPlans, memo, selected, assembled, index, rounds>>

Cost(solution) == SumOver(solution, LAMBDA plan : plan.raw)

Init ==
  /\ models = [table |-> {Tabulated(r) : r \in Requests}, least |-> TrueLeast]
  /\ clock = 0 /\ spent = 0 /\ skipped = 0 /\ index = 1 /\ rounds = 0
  /\ columns = FirstColumns
  /\ exactPlans = {} /\ memo = << >>
  /\ selected = << >> /\ assembled = << >>

\* Partitions of the customers into columns.
Partitions ==
  {S \in SUBSET columns :
     /\ UNION {Range(p.customers) : p \in S} = Customers
     /\ \A p, q \in S : p # q => Range(p.customers) \cap Range(q.customers) = {}}

Expired == clock >= Deadline
Content == Cost(assembled) <= Target

\* Set partitioning returns a selection; time passes before it does.
StartRound ==
  /\ selected = << >> /\ rounds < MaxRounds /\ ~Expired
  /\ \E S \in Partitions, wait \in {0, 1} :
       /\ selected' = SetToSeq(S) /\ assembled' = selected'
       /\ clock' = clock + wait
  /\ index' = 1 /\ rounds' = rounds + 1
  /\ UNCHANGED <<models, spent, skipped, columns, exactPlans, memo>>

EndRound(skips) ==
  /\ selected' = << >> /\ assembled' = << >> /\ index' = 1
  /\ skipped' = skipped + skips
  /\ UNCHANGED <<models, clock, spent, columns, exactPlans, memo, rounds>>

InRound == selected # << >>
Over == Expired \/ Content \/ index > Len(selected)

LeaveRound == InRound /\ Over /\ EndRound(0)

\* Mutant: every call may use the whole budget again.
LocalDeadlineAfresh == Smaller(Deadline, clock + Limit)

\* FrvcpActiveWallBudget
BudgetExhausted == Limit - spent <= Guard
LocalDeadline == Smaller(Deadline, clock + Larger(0, Limit - spent))

SkipRest == InRound /\ ~Over /\ BudgetExhausted /\ EndRound(Len(selected) - index + 1)

\* Mutant: an optimum of the model is exact.
CertifiedAlways(plan) == [plan EXCEPT !.exact = TRUE]

\* The plan of an optimal model is exact when it meets the lower bound.
Certified(plan) == [plan EXCEPT !.exact = plan.raw <= LowerBound(plan.customers)]

\* An answer: the plan returned and whether it is remembered as final.
Answer(plan, final) == [plan |-> plan, final |-> final]

ModelOf(request) == CHOOSE m \in models.table : m.request = request

\* CoptFrvcp::solve with the plan as start.  Out of time, or with nothing
\* usable, it returns the start or, late, what it has found (here one of the
\* first columns, or an optimum it could not prove).
Solved(plan, late) ==
  LET model == ModelOf(Request(plan))
      optima == {Answer(Certified(p), TRUE) : p \in model.optima}
      found == {Answer(p, FALSE) : p \in model.optima \cup model.found}
  IN optima \cup {Answer(plan, FALSE)} \cup (IF late THEN found ELSE {})

Direct(customers) == ExpandRoute(customers, DirectGaps(Len(customers)))
DirectPlan(customers) == [PlanOf(Direct(customers)) EXCEPT !.exact = TRUE]

\* optimize_impl: what is known first, then the direct route, then the model.
KnownExact(customers) == {p \in exactPlans : p.customers = customers}

Answers(plan, late) ==
  IF KnownExact(plan.customers) # {} THEN {Answer(p, FALSE) : p \in KnownExact(plan.customers)}
  ELSE IF plan.exact THEN {Answer(plan, FALSE)}
  ELSE IF Request(plan) \in DOMAIN memo THEN {Answer(memo[Request(plan)], FALSE)}
  ELSE IF Evaluate(Direct(plan.customers)).summary.feasible THEN {Answer(DirectPlan(plan.customers), FALSE)}
  ELSE Solved(plan, late)

\* Mutant: whatever the model returned is remembered.
RememberAll(plan, answer) ==
  memo' = [r \in DOMAIN memo \cup {Request(plan)} |-> IF r = Request(plan) THEN answer.plan ELSE memo[r]]

\* publish_exact replaces what was known for the customer order.
Publish(plan) ==
  exactPlans' = IF plan.exact THEN (exactPlans \ KnownExact(plan.customers)) \cup {plan} ELSE exactPlans

Remember(plan, answer) ==
  memo' = IF answer.final
          THEN [r \in DOMAIN memo \cup {Request(plan)} |-> IF r = Request(plan) THEN answer.plan ELSE memo[r]]
          ELSE memo

Refines(new, old) == new.raw < old.raw \/ (new.exact /\ ~old.exact /\ new.raw <= old.raw)

\* One pass of the loop: a call under its own deadline, and its result.
Refine ==
  /\ InRound /\ ~Over /\ ~BudgetExhausted
  /\ \E time \in CallTimes :
       /\ clock + time <= LocalDeadline + Overrun
       /\ \E answer \in Answers(selected[index], clock + time >= LocalDeadline) :
            /\ Publish(answer.plan)
            /\ Remember(selected[index], answer)
            /\ IF Refines(answer.plan, assembled[index])
               THEN assembled' = [assembled EXCEPT ![index] = answer.plan] /\ columns' = columns \cup {answer.plan}
               ELSE UNCHANGED <<assembled, columns>>
       /\ clock' = clock + time /\ spent' = spent + time
  /\ index' = index + 1
  /\ UNCHANGED <<models, skipped, selected, rounds>>

Next == StartRound \/ LeaveRound \/ SkipRest \/ Refine

Spec == Init /\ [][Next]_vars
-----------------------------------------------------------------------------
(* Properties.                                                             *)

\* A plan that is called exact, in the cache, in the pool or in the answer,
\* is the cheapest way to charge its customer order, although the dominance
\* rule hides paths from the model (copt_models.cpp 1887-1900, 1288-1298).
ExactIsTrue ==
  \A p \in exactPlans \cup columns \cup Range(assembled) :
    p.exact => [customers |-> p.customers, raw |-> p.raw] \in models.least

\* What the memo answers to a request is an optimum of the model of that very
\* request, however little time the call had that stored it (1299-1315, 1372).
MemoIsFinal ==
  \A r \in DOMAIN memo : memo[r] \in {Certified(p) : p \in ModelOf(r).optima}

\* The budget is overdrawn by no more than the overrun of one call: a call
\* that starts from little or nothing left ends with the rest of the budget
\* (frvcp_active_budget.hpp 24-46, solver.cpp 623-685).
OverdrawnOnce == spent <= Limit + Overrun

\* Paths dropped by a bound (remaining travel, shared battery, duration of the
\* route) are of no use: only dominance may cost the model its optimum
\* (enumerate_frvcp_paths).
BoundsLoseNothing ==
  \A i \in DOMAIN selected :
    LET model == ModelOf(Request(selected[i])) IN LeastOf(model.optima) = model.unbounded
=============================================================================
