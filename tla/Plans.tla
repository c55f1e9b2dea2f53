------------------------------- MODULE Plans --------------------------------
(***************************************************************************)
(* PlanFactory (evaluator.cpp) and the representation of routes and        *)
(* solutions (core.cpp): a plan is a customer order with a path of         *)
(* stations, its gap, before, between and after the customers.             *)
(***************************************************************************)
EXTENDS Charging

\* expand_route: the visits of customers with n + 1 gaps.
ExpandRoute(customers, gaps) ==
  FlattenSeq([i \in DOMAIN customers |-> Append(gaps[i], customers[i])]) \o Last(gaps)

DirectGaps(n) == [g \in 1 .. n + 1 |-> << >>]

IsCustomer(node) == node \in Customers

CustomersOf(visits) == SelectSeq(visits, IsCustomer)

\* plan_visits: the stations before, between and after the customers.
GapsOf(visits) ==
  LET at == <<0>> \o SelectSeq([i \in DOMAIN visits |-> i], LAMBDA i : IsCustomer(visits[i]))
              \o <<Len(visits) + 1>>
  IN [g \in 1 .. Len(at) - 1 |-> SubSeq(visits, at[g] + 1, at[g + 1] - 1)]

\* normalize_adjacent_station_visits keeps the first of each run of one
\* station, and refuses a run that would make a difference.
Repeats(visits, i) == i > 1 /\ visits[i] = visits[i - 1] /\ visits[i] \in Stations

Normalizable(visits) == \A i \in DOMAIN visits : Repeats(visits, i) => CanonicalStation(visits[i])

Normalized(visits) ==
  Folded(LAMBDA kept, i : IF Repeats(visits, i) THEN kept ELSE Append(kept, visits[i]),
         << >>, [i \in DOMAIN visits |-> i])

\* assemble_plan
Plan(raw) ==
  LET visits == Normalized(raw)
  IN [customers |-> CustomersOf(visits), gaps |-> GapsOf(visits), visits |-> visits]

\* make_plan accepts simple paths of stations between distinct customers.
MakePlan(customers, gaps) == Plan(ExpandRoute(customers, gaps))

Anchors(customers) == <<Depot>> \o customers \o <<Depot>>

\* gap_map: the path between two anchors, in the direction of the route that
\* has them in a row; the first route that has them wins.
GapMap(solution) ==
  LET places == {<<p, g>> : p \in DOMAIN solution,
                            g \in UNION {DOMAIN solution[q].gaps : q \in DOMAIN solution}}
      used == {x \in places : x[2] \in DOMAIN solution[x[1]].gaps}
      pair(x) == LET a == Anchors(solution[x[1]].customers) IN <<a[x[2]], a[x[2] + 1]>>
      first(p) == CHOOSE x \in used : pair(x) = p /\ \A y \in used : pair(y) = p => x[1] <= y[1]
  IN [p \in {pair(x) : x \in used} |-> solution[first(p)[1]].gaps[first(p)[2]]]

\* plan_sequence: a customer order with the paths the reference has for it.
GapsFor(customers, map) ==
  LET a == Anchors(customers)
  IN [g \in 1 .. Len(customers) + 1 |->
        IF <<a[g], a[g + 1]>> \in DOMAIN map THEN map[<<a[g], a[g + 1]>>] ELSE << >>]

PlanSequence(customers, map) == MakePlan(customers, GapsFor(customers, map))

\* validate_partition: the plans are consistent and visit every customer once.
IsPartition(solution) ==
  /\ \A p \in DOMAIN solution :
       LET plan == solution[p]
       IN plan.customers # << >> /\ plan.visits = ExpandRoute(plan.customers, plan.gaps)
  /\ LET all == FlattenSeq([p \in DOMAIN solution |-> solution[p].customers])
     IN IsInjective(all) /\ Range(all) = Customers
=============================================================================
