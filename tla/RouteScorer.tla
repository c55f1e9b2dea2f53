---------------------------- MODULE RouteScorer -----------------------------
(***************************************************************************)
(* RouteSequenceScorer (evaluator.cpp): candidate routes are scored from   *)
(* fragments of the incumbent's routes, whose labels are kept in segment   *)
(* trees in both directions.  The scorer outlives the incumbent: reset     *)
(* keeps the trees of the routes that did not change.  Positions of        *)
(* customers and slice bounds count from 0 as in the code.                 *)
(***************************************************************************)
EXTENDS LabelTree

CONSTANTS
  Solutions,  \* the incumbents the search may hand to the scorer
  Orders  \* the customer orders it may ask about

\* What validate_partition guarantees of the plans the factory made; a solution
\* under repair need not have all customers.
ASSUME SolutionsType ==
  \A solution \in Solutions :
    /\ solution \in Seq([customers : Seq(Customers), gaps : Seq(Seq(Stations)), visits : Seq(Nodes)])
    /\ \A i \in DOMAIN solution :
         /\ solution[i].customers # << >>
         /\ Len(solution[i].gaps) = Len(solution[i].customers) + 1
         /\ solution[i].gaps = GapsOf(solution[i].visits)
    /\ \A i, j \in DOMAIN solution :
         \A p \in DOMAIN solution[i].customers, q \in DOMAIN solution[j].customers :
           solution[i].customers[p] = solution[j].customers[q] => i = j /\ p = q
ASSUME OrdersType == \A order \in Orders : order \in Seq(Customers) /\ order # << >>

VARIABLES
  incumbent,  \* a sequence of plans
  profiles,   \* what is kept of each of its routes
  overrides   \* labels of the gaps of the incumbent that have stations

joinVars == <<incumbent, profiles, overrides>>

\* RouteProfile: the edges between the customers as the route has them, and
\* the direct edges the other way round.
Profile(plan) ==
  LET c == plan.customers
      n == Len(c)
  IN [visits |-> plan.visits, customers |-> c,
      forward |-> Tree([i \in 1 .. n - 1 |-> EdgeLabel(c[i], plan.gaps[i + 1], c[i + 1])]),
      reverse |-> Tree([i \in 1 .. n - 1 |-> EdgeLabel(c[n + 1 - i], << >>, c[n - i])])]

\* Mutant: a profile is taken over by any route with the same customers.
TakenByCustomers(plans, n) ==
  LET fits(i, q) == profiles[q].customers = plans[i].customers
      step(acc, i) == LET free == {q \in DOMAIN profiles \ acc.used : fits(i, q)}
                      IN IF free = {} THEN [acc EXCEPT !.of[i] = 0]
                         ELSE [acc EXCEPT !.of[i] = Min(free), !.used = @ \cup {Min(free)}]
  IN Folded(step, [used |-> {}, of |-> [i \in DOMAIN plans |-> 0]], [i \in DOMAIN plans |-> i]).of[n]

\* The profiles of a new incumbent: an old one is taken over, once, by a route
\* with the same visits and customers.
Taken(plans, n) ==
  LET fits(i, q) == profiles[q].visits = plans[i].visits /\ profiles[q].customers = plans[i].customers
      free(i, used) == {q \in DOMAIN profiles \ used : fits(i, q)}
      step(acc, i) == IF free(i, acc.used) = {} THEN [acc EXCEPT !.of[i] = 0]
                      ELSE [acc EXCEPT !.of[i] = Min(free(i, acc.used)),
                                       !.used = @ \cup {Min(free(i, acc.used))}]
  IN Folded(step, [used |-> {}, of |-> [i \in DOMAIN plans |-> 0]], [i \in DOMAIN plans |-> i]).of[n]

OverridesOf(map) ==
  [p \in {q \in DOMAIN map : map[q] # << >>} |-> EdgeLabel(p[1], map[p], p[2])]

Reset(solution) ==
  /\ incumbent' = solution
  /\ profiles' = [i \in DOMAIN solution |->
                    LET q == Taken(solution, i) IN IF q = 0 THEN Profile(solution[i]) ELSE profiles[q]]
  /\ overrides' = OverridesOf(GapMap(solution))

JoinInit ==
  \E solution \in Solutions :
    /\ incumbent = solution
    /\ profiles = [i \in DOMAIN solution |-> Profile(solution[i])]
    /\ overrides = OverridesOf(GapMap(solution))

JoinNext == \E solution \in Solutions : Reset(solution)

JoinSpec == JoinInit /\ [][JoinNext]_joinVars
-----------------------------------------------------------------------------
Bridge(a, b) == IF <<a, b>> \in DOMAIN overrides THEN overrides[<<a, b>>] ELSE EdgeLabel(a, << >>, b)

\* The label between the first and the last customer of the slice begin .. end - 1.
Slice(profile, begin, end, reversed) ==
  LET n == Len(profile.customers)
  IN IF reversed THEN RangeLabel(profile.reverse, n - end, n - begin - 1)
     ELSE RangeLabel(profile.forward, begin, end - 1)

\* Where the incumbent has a customer: all pairs <<route, position>>.
Located(c) == {x \in UNION {{i} \X (0 .. Len(profiles[i].customers) - 1) : i \in DOMAIN profiles} :
                 profiles[x[1]].customers[x[2] + 1] = c}
Location(c) == CHOOSE x \in Located(c) : TRUE

\* From position k of a candidate, the direction and the end of the fragment
\* of one route of the incumbent that is passed through.
Step(candidate, k) ==
  IF k = Len(candidate) \/ Located(candidate[k]) = {} \/ Located(candidate[k + 1]) = {} THEN 0
  ELSE LET here == Location(candidate[k])
           next == Location(candidate[k + 1])
       IN IF here[1] = next[1] /\ next[2] - here[2] \in {1, -1} THEN next[2] - here[2] ELSE 0

FragmentEnd(candidate, k) ==
  IF Step(candidate, k) = 0 THEN k
  ELSE Max({e \in k + 1 .. Len(candidate) :
              \A j \in k .. e - 1 : Step(candidate, j) = Step(candidate, k)})

FragmentLabel(candidate, k, end) ==
  LET first == Location(candidate[k])
      last == Location(candidate[end])
  IN IF Located(candidate[k]) = {} THEN NoLabel
     ELSE IF Step(candidate, k) >= 0
     THEN Slice(profiles[first[1]], first[2], last[2] + 1, FALSE)
     ELSE Slice(profiles[first[1]], last[2], first[2] + 1, TRUE)

SequenceLabel(candidate) ==
  LET n == Len(candidate)
      from[k \in 1 .. n + 1] ==
        IF k = n + 1 THEN <<Bridge(candidate[n], Depot)>>
        ELSE LET end == FragmentEnd(candidate, k)
             IN <<Bridge(IF k = 1 THEN Depot ELSE candidate[k - 1], candidate[k]),
                  FragmentLabel(candidate, k, end)>> \o from[end + 1]
  IN JoinAll(from[1])

\* label over slices [route, begin, end, reversed] of the incumbent.
FirstOf(slice) == profiles[slice.route].customers[IF slice.reversed THEN slice.end ELSE slice.begin + 1]
LastOf(slice) == profiles[slice.route].customers[IF slice.reversed THEN slice.begin + 1 ELSE slice.end]

SlicesLabel(slices) ==
  LET n == Len(slices)
      before(k) == IF k = 1 THEN Depot ELSE LastOf(slices[k - 1])
  IN JoinAll(FlattenSeq([k \in 1 .. n |->
               <<Bridge(before(k), FirstOf(slices[k])),
                 Slice(profiles[slices[k].route], slices[k].begin, slices[k].end, slices[k].reversed)>>])
             \o <<Bridge(before(n + 1), Depot)>>)

InsertedLabel(route, position, c) ==
  LET own == profiles[route]
      n == Len(own.customers)
      left == IF position = 0 THEN << >>
              ELSE <<Bridge(Depot, own.customers[1]), Slice(own, 0, position, FALSE)>>
      right == IF position = n THEN << >>
               ELSE <<Bridge(c, own.customers[position + 1]), Slice(own, position, n, FALSE)>>
      previous == IF position = 0 THEN Depot ELSE own.customers[position]
      last == IF position = n THEN c ELSE own.customers[n]
  IN JoinAll(left \o <<Bridge(previous, c)>> \o right \o <<Bridge(last, Depot)>>)
-----------------------------------------------------------------------------
\* What the search would build: the candidate with the incumbent's paths.
Built(candidate) ==
  RouteLabel(ExpandRoute(candidate, GapsFor(candidate, GapMap(incumbent))))

\* A customer order is scored as the plan the factory would make of it, after
\* any sequence of incumbents: no label of a former incumbent survives in a
\* kept profile, an override or a fragment passed through backwards.
SequencesScoredTrue ==
  \A candidate \in Orders : SequenceLabel(candidate) = Built(candidate)

\* So is an insertion in a route, and an exchange of the tails of two routes
\* or the reversal of a fragment, described by slices.
MovesScoredTrue ==
  /\ \A r \in DOMAIN incumbent :
       \A c \in Customers \ UNION {Range(incumbent[i].customers) : i \in DOMAIN incumbent} :
         \A p \in 0 .. Len(incumbent[r].customers) :
           InsertedLabel(r, p, c) = Built(InsertAt(incumbent[r].customers, p + 1, c))
  /\ \A r, q \in DOMAIN incumbent :
       \A i \in 1 .. Len(incumbent[r].customers), j \in 0 .. Len(incumbent[q].customers) - 1,
          flip \in BOOLEAN :
         LET tail == SubSeq(incumbent[q].customers, j + 1, Len(incumbent[q].customers))
         IN r # q =>
            SlicesLabel(<<[route |-> r, begin |-> 0, end |-> i, reversed |-> FALSE],
                          [route |-> q, begin |-> j, end |-> Len(incumbent[q].customers),
                           reversed |-> flip]>>)
              = Built(SubSeq(incumbent[r].customers, 1, i) \o (IF flip THEN Reverse(tail) ELSE tail))

\* What the scorer answers is true; before the first reset it is not asked.
FragmentsScoredTrue == incumbent # << >> => SequencesScoredTrue /\ MovesScoredTrue
=============================================================================
