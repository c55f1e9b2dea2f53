--------------------------- MODULE PhysicalScorer ---------------------------
(***************************************************************************)
(* PhysicalRouteScorer (evaluator.cpp): a route is edited one customer at  *)
(* a time, in slots of its physical visits, and every edit is scored       *)
(* before it is made, from labels of the route's prefixes, suffixes and    *)
(* ranges.  An action is an edit: promised is the label the scorer put     *)
(* together, visits is the route PlanFactory makes of the edited visits.   *)
(***************************************************************************)
EXTENDS LabelTree

CONSTANTS
  FirstRoutes, \* routes to begin with
  MaxVisits    \* bound: longest route

ASSUME RoutesType == FirstRoutes \subseteq Seq(Customers \cup Stations)

VARIABLES visits, promised

editVars == <<visits, promised>>

Path == Closed(visits)
Slots == 1 .. Len(visits) + 1
Occupied == {i \in DOMAIN visits : visits[i] \in Customers}
Absent == Customers \ Range(visits)

Edge(a, b) == EdgeLabel(a, << >>, b)

\* prefixes_ and suffixes_: the label up to, and from, a node of the path.
Prefix(i) == PathLabel(SubSeq(Path, 1, i))
Suffix(i) == PathLabel(SubSeq(Path, i, Len(Path)))

\* The label of the path between its nodes i and j (the edges between them).
Between(i, j) ==
  RangeLabel(Tree([e \in 1 .. Len(Path) - 1 |-> Edge(Path[e], Path[e + 1])]), i - 1, j - 1)

InsertionLabel(slot, c) ==
  JoinAll(<<Prefix(slot), Edge(Path[slot], c), Edge(c, Path[slot + 1]), Suffix(slot + 1)>>)

RemovalLabel(i) ==
  JoinAll(<<Prefix(i), Edge(Path[i], Path[i + 2]), Suffix(i + 2)>>)

ReplacementLabel(i, c) ==
  JoinAll(<<Prefix(i), Edge(Path[i], c), Edge(c, Path[i + 2]), Suffix(i + 2)>>)

\* a and b are the places of two customers that are not neighbours.
SwapLabel(a, b) ==
  LET p == a + 1
      q == b + 1
  IN JoinAll(<<Prefix(p - 1), Edge(Path[p - 1], Path[q]), Edge(Path[q], Path[p + 1]),
               Between(p + 1, q - 1),
               Edge(Path[q - 1], Path[p]), Edge(Path[p], Path[q + 1]), Suffix(q + 1)>>)

\* The customer at a goes to a slot of the route as it was.
RelocateLabel(a, slot) ==
  LET p == a + 1
      removal == Edge(Path[p - 1], Path[p + 1])
      in == Edge(Path[slot], Path[p])
      out == Edge(Path[p], Path[slot + 1])
  IN IF slot \in {p - 1, p} THEN Prefix(Len(Path))
     ELSE IF slot < p
     THEN JoinAll(<<Prefix(slot), in, out, Between(slot + 1, p - 1), removal, Suffix(p + 1)>>)
     ELSE JoinAll(<<Prefix(p - 1), removal, Between(p + 1, slot), in, out, Suffix(slot + 1)>>)

\* Inside a run of three or more visits of one station the slots after the
\* second visit score as the slot after the first.
Run(i) == {j \in DOMAIN Path : \A k \in Smaller(i, j) .. Larger(i, j) : Path[k] = Path[i]}

\* Mutant: the slot behind the last visit of a run counts as inside it.
RepresentativeOfAll(slot) ==
  LET run == Run(slot)
  IN IF slot = 1 \/ ~(Path[slot] \in Stations /\ CanonicalStation(Path[slot])) \/ Max(run) - Min(run) < 2
     THEN slot ELSE Min(run)

Representative(slot) ==
  LET run == Run(slot)
  IN IF slot = 1 \/ ~(Path[slot] \in Stations /\ CanonicalStation(Path[slot]))
        \/ Max(run) - Min(run) < 2 \/ slot = Max(run)
     THEN slot ELSE Min(run)

Canonical(label) == [label EXCEPT !.legs = CanonicalLegs(@)]

Edited(raw, label) ==
  /\ Normalizable(raw)
  /\ visits' = Plan(raw).visits
  /\ promised' = Canonical(label)

InsertCustomer ==
  /\ Occupied # {} /\ Len(visits) < MaxVisits
  /\ \E slot \in Slots, c \in Absent :
       Edited(InsertAt(visits, slot, c), InsertionLabel(Representative(slot), c))

\* A route that loses its last customer is given up with its stations.
RemoveCustomer ==
  \E i \in Occupied :
    IF Cardinality(Occupied) = 1 THEN visits' = << >> /\ promised' = NoLabel
    ELSE Edited(RemoveAt(visits, i), RemovalLabel(i))

ReplaceCustomer ==
  \E i \in Occupied, c \in Absent : Edited([visits EXCEPT ![i] = c], ReplacementLabel(i, c))

SwapCustomers ==
  \E a, b \in Occupied :
    /\ b > a + 1
    /\ Edited([visits EXCEPT ![a] = visits[b], ![b] = visits[a]], SwapLabel(a, b))

RelocateCustomer ==
  \E a \in Occupied, slot \in Slots :
    Edited(IF slot <= a THEN InsertAt(RemoveAt(visits, a), slot, visits[a])
           ELSE InsertAt(RemoveAt(visits, a), slot - 1, visits[a]),
           RelocateLabel(a, slot))

EditInit == visits \in FirstRoutes /\ promised = Canonical(RouteLabel(visits))

EditNext ==
  \/ InsertCustomer
  \/ RemoveCustomer
  \/ ReplaceCustomer
  \/ SwapCustomers
  \/ RelocateCustomer

EditSpec == EditInit /\ [][EditNext]_editVars
-----------------------------------------------------------------------------
\* The score of an edit is taken from what the kernel would be given for the
\* edited route itself, whatever edits made the route, where in a run of one
\* station the slot was and whether stations met and became one.
ScoresKeepTheirPromise == visits # << >> => promised = Canonical(RouteLabel(visits))
=============================================================================
