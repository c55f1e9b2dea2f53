---------------------------- MODULE Destruction -----------------------------
(***************************************************************************)
(* The destroy half of Perturbation (search.cpp): which customers leave a  *)
(* solution, by one of four operators, and what remains of the routes.     *)
(***************************************************************************)
EXTENDS Plans, LexOrder

CONSTANTS
  RouteCost,      \* generalized cost of visit sequences at the current penalty
  Preserve,       \* preserve_station_visits: stations move, none is dropped
  RandomSubset    \* PartialRouteSubset::Random, else a prefix of the route

ASSUME NodeIds == Nodes \subseteq Int
ASSUME FlagTypes == {Preserve, RandomSubset} \subseteq BOOLEAN

\* In the order of the keys.
Sorted(S, key) ==
  [n \in 1 .. Cardinality(S) |->
     CHOOSE x \in S : Cardinality({y \in S : LexLess(key[y], key[x])}) = n - 1]

\* What a sequence has at some of its positions, in its order.
Entries(seq, positions) ==
  LET upTo[n \in 0 .. Len(seq)] ==
        IF n = 0 THEN << >>
        ELSE IF n \in positions THEN Append(upTo[n - 1], seq[n]) ELSE upTo[n - 1]
  IN upTo[Len(seq)]

Without(seq, S) == Entries(seq, {i \in DOMAIN seq : seq[i] \notin S})

CustomerSeqs(solution) == [p \in DOMAIN solution |-> solution[p].customers]
AllCustomers(solution) == FlattenSeq(CustomerSeqs(solution))

\* append_up_to_quota: the last route that is too long gives a part of its
\* customers, in their order.
Quota(removed, route, kappa) ==
  LET count == Smaller(Len(route), kappa - Len(removed))
      parts == IF RandomSubset
               THEN {Entries(route, positions) : positions \in kSubset(count, DOMAIN route)}
               ELSE {SubSeq(route, 1, count)}
  IN {removed \o part : part \in parts}

UpToQuota(removed, routes, kappa) ==
  LET after[n \in 0 .. Len(routes)] ==
        IF n = 0 THEN {removed} ELSE UNION {Quota(r, routes[n], kappa) : r \in after[n - 1]}
  IN after[Len(routes)]

RandomRemoval(solution, kappa) ==
  {s \in [1 .. kappa -> Range(AllCustomers(solution))] : IsInjective(s)}

RandomRoute(solution, kappa) ==
  UNION {UpToQuota(<< >>, [i \in DOMAIN order |-> solution[order[i]].customers], kappa) :
           order \in {o \in [DOMAIN solution -> DOMAIN solution] : IsInjective(o)}}

ClosestRemoval(solution, kappa) ==
  {SubSeq(<<seed>> \o Sorted(Range(AllCustomers(solution)) \ {seed},
                             [c \in Customers |-> <<Dist[<<seed, c>>], c>>]), 1, kappa) :
     seed \in Range(AllCustomers(solution))}

\* What a customer contributes to the cost of its route: without it the other
\* visits stay (Preserve; a station visited twice in a row counts once, see
\* PhysicalScorer), or the stations next to it go too.
Contribution(solution, p, c) ==
  LET plan == solution[p]
      rest == Without(plan.customers, {c})
      reduced == IF Preserve THEN Normalized(Without(plan.visits, {c}))
                 ELSE PlanSequence(rest, GapMap(solution)).visits
  IN RouteCost[plan.visits] - (IF rest = << >> THEN 0 ELSE RouteCost[reduced])

\* The routes by their distance to customer c, which route p served: its own
\* route, without it, comes last.
ByDistance(solution, c, p) ==
  LET near == [q \in DOMAIN solution |-> <<Min({Dist[<<c, d>>] : d \in Range(solution[q].customers)}), q>>]
      others == Sorted(DOMAIN solution \ {p}, near)
  IN [i \in DOMAIN others |-> solution[others[i]].customers]
       \o <<Without(solution[p].customers, {c})>>

\* The customer with the largest contribution leaves first, then those near it.
WorstRemoval(solution, kappa) ==
  LET served == {x \in (DOMAIN solution) \X Customers : x[2] \in Range(solution[x[1]].customers)}
      key(x) == <<-Contribution(solution, x[1], x[2]), x[2], x[1]>>
  IN UNION {UpToQuota(<<x[2]>>, ByDistance(solution, x[2], x[1]), kappa) :
              x \in {w \in served : \A y \in served \ {w} : LexLess(key(w), key(y))}}

Operators == {"random", "route", "closest", "worst"}

\* destroy: never more than there are.
Removals(operator, solution, count) ==
  LET kappa == Smaller(count, Len(AllCustomers(solution)))
  IN IF kappa = 0 THEN {<< >>}
     ELSE CASE operator = "random" -> RandomRemoval(solution, kappa)
            [] operator = "route" -> RandomRoute(solution, kappa)
            [] operator = "closest" -> ClosestRemoval(solution, kappa)
            [] operator = "worst" -> WorstRemoval(solution, kappa)

=============================================================================
