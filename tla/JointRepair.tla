---------------------------- MODULE JointRepair -----------------------------
(***************************************************************************)
(* The station-preserving perturbation (search.cpp): customers and the     *)
(* station visits next to them are taken out of the routes and put back    *)
(* one by one, every visit as a token of its own.  Insertion costs are     *)
(* kept per token and route for as long as the route does not change; a    *)
(* dead end, or a result that fails a check, restores the original.        *)
(***************************************************************************)
EXTENDS Destruction

CONSTANTS
  Originals,   \* solutions to perturb
  Kappas,      \* removal counts
  Infinity     \* the regret of a token with one place

VARIABLES
  original, kappa,   \* the solution, as plans, and the number of removals
  removed,           \* the customers taken out
  regretful,         \* RepairOperator: 2-regret, else greedy
  phase,             \* "destroy", "repair" or "done"
  retained,          \* what was left of the routes, as visits
  routes,            \* the routes under repair
  tokens,            \* tokens [id, ordinal] to put back
  versions,          \* how often each route changed, plus 1; 0 if it does not exist
  ranks,             \* for <<ordinal, route>>: the two best places at a version
  reason             \* why the original was restored

jointVars == <<original, kappa, removed, regretful, phase, retained, routes, tokens,
               versions, ranks, reason>>

Times(visits, id) == Cardinality({i \in DOMAIN visits : visits[i] = id})

Occurrences(sequences, id) ==
  MapThenSumSet(LAMBDA r : Times(sequences[r], id), DOMAIN sequences)

VisitsOf(solution) == [p \in DOMAIN solution |-> solution[p].visits]

\* What validate_partition guarantees: every customer is served by one route,
\* once, and every route serves a customer.
ASSUME OriginalsAreSolutions ==
  \A s \in Originals :
    /\ CustomerSeqs(s) \in Seq(Seq(Customers) \ {<< >>})
    /\ \A p, q \in DOMAIN s : /\ IsInjective(s[p].customers)
                              /\ p # q => Range(s[p].customers) \cap Range(s[q].customers) = {}
    /\ VisitsOf(s) \in Seq(Seq(Customers \cup Stations))
    /\ \A c \in Customers : Occurrences(VisitsOf(s), c) = 1

ASSUME KappasType == Kappas \subseteq Nat

HasRepeat(visits) == \E i \in DOMAIN visits : Repeats(visits, i)
-----------------------------------------------------------------------------
(* destroy_joint_occurrences                                               *)

\* The gap a station visit is in, counted in customers before it.
GapIndex(visits, i) == Len(CustomersOf(SubSeq(visits, 1, i)))

\* It moves when a customer next to its gap is removed; a depot is not.
Damaged(plan, out, i) ==
  LET g == GapIndex(plan.visits, i)
      neighbours == {k \in {g, g + 1} : k \in DOMAIN plan.customers}
  IN \E k \in neighbours : plan.customers[k] \in out

Leaves(plan, out, i) == plan.visits[i] \in out \/ (plan.visits[i] \in Stations /\ Damaged(plan, out, i))

Remaining(plan, out) ==
  Entries(plan.visits, {i \in DOMAIN plan.visits : ~Leaves(plan, out, i)})

\* Mutant: a station that comes twice is put back once.
MovedOnce(plan, out) ==
  Entries(plan.visits, {i \in DOMAIN plan.visits :
                          /\ plan.visits[i] \in Stations /\ Leaves(plan, out, i)
                          /\ \A j \in 1 .. i - 1 : plan.visits[j] # plan.visits[i]})

MovedStations(plan, out) ==
  Entries(plan.visits, {i \in DOMAIN plan.visits :
                          plan.visits[i] \in Stations /\ Leaves(plan, out, i)})

TokensOf(ids) == [k \in DOMAIN ids |-> [id |-> ids[k], ordinal |-> k]]

JointInit ==
  /\ original \in Originals /\ kappa \in Kappas /\ regretful \in BOOLEAN
  /\ phase = "destroy" /\ reason = "none"
  /\ removed = << >> /\ retained = << >> /\ routes = << >> /\ tokens = << >>
  /\ versions = << >> /\ ranks = << >>

Destroy ==
  /\ phase = "destroy"
  /\ \E operator \in Operators : \E gone \in Removals(operator, original, kappa) :
       LET out == Range(gone)
           remains == [p \in DOMAIN original |-> Remaining(original[p], out)]
           left == Entries(remains, {p \in DOMAIN original : remains[p] # << >>})
           moved == FlattenSeq([p \in DOMAIN original |-> MovedStations(original[p], out)])
       IN /\ removed' = gone
          /\ retained' = left
          /\ routes' = left
          /\ tokens' = TokensOf(gone \o moved)
          /\ versions' = [r \in 1 .. Len(left) + Len(gone) |-> IF r <= Len(left) THEN 1 ELSE 0]
          /\ ranks' = [x \in (1 .. Len(gone) + Len(moved)) \X DOMAIN versions' |->
                         [version |-> 0, best |-> {}]]
  /\ phase' = "repair"
  /\ UNCHANGED <<original, kappa, regretful, reason>>
-----------------------------------------------------------------------------
(* repair_joint_occurrences.  A place is <<delta, id, route, slot>>, which *)
(* is also the key insertion_better compares.                              *)

\* A station is not put next to another visit of it.
Slots(id, visits) ==
  {slot \in 0 .. Len(visits) :
     id \in Stations => /\ slot > 0 => visits[slot] # id
                        /\ slot < Len(visits) => visits[slot + 1] # id}

Inserted(visits, slot, id) == InsertAt(visits, slot + 1, id)

Place(id, r, slot) == <<RouteCost[Inserted(routes[r], slot, id)] - RouteCost[routes[r]], id, r, slot>>

BestTwo(places) == {p \in places : Cardinality({q \in places : LexLess(q, p)}) <= 1}

FreshBest(id, r) == BestTwo({Place(id, r, slot) : slot \in Slots(id, routes[r])})

\* Every pending token looks at every route; the ranks of a route that has
\* not changed are taken from the last time.
RankedNow(token, r) ==
  LET kept == ranks[<<token.ordinal, r>>]
  IN IF kept.version = versions[r] THEN kept
     ELSE [version |-> versions[r], best |-> FreshBest(token.id, r)]

Places(token) ==
  (IF token.id \in Customers
   THEN {<<RouteCost[<<token.id>>], token.id, Len(routes) + 1, 0>>} ELSE {})
    \cup UNION {RankedNow(token, r).best : r \in DOMAIN routes}

Firsts(S, Key(_)) == {x \in S : \A y \in S \ {x} : LexLess(Key(x), Key(y))}

Regret(best, p) ==
  IF best = {p} THEN Infinity ELSE (CHOOSE q \in best \ {p} : TRUE)[1] - p[1]

\* The best place of each token that has one, and its regret.
Ranking(k) ==
  LET best == BestTwo(Places(tokens[k]))
  IN {[at |-> k, place |-> p, regret |-> Regret(best, p)] : p \in Firsts(best, LAMBDA q : q)}

Rankings == UNION {Ranking(k) : k \in DOMAIN tokens}

\* The first of the best tokens.
Chosen(rankings) ==
  Firsts(rankings,
         LAMBDA x : (IF regretful THEN <<-x.regret>> ELSE << >>) \o x.place \o <<x.at>>)

GiveBack(why) ==
  /\ phase' = "done" /\ reason' = why
  /\ routes' = VisitsOf(original)

\* Mutant: ranks are remembered by the token's place in the list.
RefreshByPlace ==
  ranks' = [x \in DOMAIN ranks |->
              IF x[2] \in DOMAIN routes /\ x[1] \in DOMAIN tokens THEN RankedNow(tokens[x[1]], x[2])
              ELSE ranks[x]]

Refresh ==
  ranks' = [x \in DOMAIN ranks |->
              IF x[2] \in DOMAIN routes /\ \E k \in DOMAIN tokens : tokens[k].ordinal = x[1]
              THEN RankedNow(tokens[CHOOSE k \in DOMAIN tokens : tokens[k].ordinal = x[1]], x[2])
              ELSE ranks[x]]

\* The chosen token enters a route or opens one.
PutBack(x) ==
  LET r == x.place[3]
      visits == Inserted(IF r \in DOMAIN routes THEN routes[r] ELSE << >>, x.place[4], tokens[x.at].id)
  IN IF HasRepeat(visits)
     THEN GiveBack("adjacent") /\ UNCHANGED <<tokens, versions>>
     ELSE /\ routes' = IF r \in DOMAIN routes THEN [routes EXCEPT ![r] = visits]
                       ELSE Append(routes, visits)
          /\ versions' = [versions EXCEPT ![r] = @ + 1]
          /\ tokens' = RemoveAt(tokens, x.at)
          /\ UNCHANGED <<phase, reason>>

Insert ==
  /\ phase = "repair" /\ tokens # << >>
  /\ Refresh
  /\ \E rankings \in {Rankings} :
       IF rankings = {}
       THEN GiveBack("blocked") /\ UNCHANGED <<tokens, versions>>
       ELSE \E x \in Chosen(rankings) : PutBack(x)
  /\ UNCHANGED <<original, kappa, removed, regretful, retained>>

SubsequenceOf(part, whole) ==
  LET matched == Folded(LAMBDA n, x : IF n < Len(part) /\ part[n + 1] = x THEN n + 1 ELSE n, 0, whole)
  IN matched = Len(part)

\* The checks at the end, in their order.
Verdict ==
  CASE \E id \in Nodes : Occurrences(routes, id) # Occurrences(VisitsOf(original), id) -> "occurrences"
    [] \E r \in DOMAIN routes : CustomersOf(routes[r]) = << >> \/ HasRepeat(routes[r]) -> "invalid route"
    [] \E r \in DOMAIN retained : ~SubsequenceOf(retained[r], routes[r]) -> "retained"
    [] OTHER -> "none"

Settle ==
  /\ phase = "repair" /\ tokens = << >>
  /\ IF Verdict = "none" THEN phase' = "done" /\ UNCHANGED <<routes, reason>> ELSE GiveBack(Verdict)
  /\ UNCHANGED <<original, kappa, removed, regretful, retained, tokens, versions, ranks>>

JointNext == Destroy \/ Insert \/ Settle

JointSpec == JointInit /\ [][JointNext]_jointVars
-----------------------------------------------------------------------------
\* The places a token remembers for a route are those of the route as it is,
\* however tokens before it were removed from the list and routes opened.
RanksAreFresh ==
  phase = "repair" =>
    \A k \in DOMAIN tokens : \A r \in DOMAIN routes :
      LET kept == ranks[<<tokens[k].ordinal, r>>]
      IN kept.version = versions[r] => kept.best = FreshBest(tokens[k].id, r)

\* No visit is ever lost or made up while tokens are moved.
VisitsConserved ==
  phase \in {"repair", "done"} =>
    \A id \in Customers \cup Stations :
      Occurrences(VisitsOf(original), id)
        = Occurrences(routes, id)
            + (IF phase = "repair" THEN Cardinality({k \in DOMAIN tokens : tokens[k].id = id}) ELSE 0)
=============================================================================
