----------------------------- MODULE PathCatalog -----------------------------
(***************************************************************************)
(* The catalogue of charging-station paths between two nodes               *)
(* (PathSampler::path_catalog in search.cpp): every elementary path that   *)
(* some route may use is enumerated depth first and weighed against the    *)
(* paths kept so far, the survivors are sorted and weighed again.  And the *)
(* samplers that draw from it, one of which never builds it.               *)
(*                                                                         *)
(* Dominance has a tolerance, so it is not transitive, and what survives   *)
(* depends on the order in which paths come.                               *)
(***************************************************************************)
EXTENDS Integers, Sequences, FiniteSets, FiniteSetsExt, SequencesExt, Functions,
        LexOrder

CONSTANTS
  Nets,       \* [stations, dist, rank, capacity, rest, service, horizon, slow]
  Tolerances  \* kCostTolerance, in units of distance

Origin == 0   \* stations are numbered from 1
Target == -1

ASSUME NetAssumption ==
  \A n \in Nets :
    /\ n.stations \in Nat /\ n.slow \in Nat
    /\ {n.capacity, n.rest, n.service, n.horizon} \subseteq Int
    /\ \A i \in 1 .. n.stations : n.rank[i] \in Int
    /\ \A a, b \in Target .. n.stations : n.dist[<<a, b>>] \in Int

\* The pruning relies on it ("Triangle inequality lower-bounds those portions").
ASSUME TriangleInequality ==
  \A n \in Nets : \A a, b \in 1 .. n.stations :
    n.dist[<<a, Target>>] <= n.dist[<<a, b>>] + n.dist[<<b, Target>>]

ASSUME ToleranceAssumption == Tolerances \subseteq Nat

VARIABLES
  net, tolerance,
  pass,
  ahead,    \* paths of the running pass that are still to come
  kept      \* the paths of the running pass that survive so far

catalogVars == <<net, tolerance, pass, ahead, kept>>
-----------------------------------------------------------------------------
(* Paths, shown as sequences of station numbers; one distance unit takes   *)
(* one time unit and one energy unit.                                      *)

Leg(a, b) == net.dist[<<a, b>>]
Reachable(a, b) == Leg(a, b) <= net.capacity

Stations == 1 .. net.stations

Elementary ==
  {p \in SeqOf(Stations, net.stations) : p # << >> /\ IsInjective(p)}

Nodes(p) == <<Origin>> \o p
Driven(p) == FoldFunction(+, 0, [i \in DOMAIN p |-> Leg(Nodes(p)[i], p[i])])

First(p) == Leg(Origin, Head(p))
Back(p) == Leg(Last(p), Target)
Length(p) == Driven(p) + Back(p)
Ranks(p) == {net.rank[p[i]] : i \in DOMAIN p}
Fastest(p) == Min(Ranks(p))
Slowest(p) == Max(Ranks(p))

\* The shortest time of a route with a path of this length in it.
TimeLowerBound(distance) ==
  LET whole == distance + net.rest
  IN net.service + whole + Max({0, whole - net.capacity}) * net.slow

\* The depth-first search may pass through p.
Passable(p) ==
  \A i \in DOMAIN p :
    /\ Reachable(Nodes(p)[i], p[i])
    /\ TimeLowerBound(Length(SubSeq(p, 1, i))) <= net.horizon

Enumerated == {p \in Elementary : Passable(p) /\ Reachable(Last(p), Target)}

Dominates(p, q) ==
  /\ Slowest(p) <= Fastest(q)
  /\ First(p) <= First(q) + tolerance
  /\ Back(p) <= Back(q) + tolerance
  /\ Length(p) <= Length(q) + tolerance

SortKey(p) == <<First(p), Back(p), Length(p), Fastest(p), Slowest(p)>> \o p

-----------------------------------------------------------------------------
CatalogInit ==
  /\ net \in Nets /\ tolerance \in Tolerances
  /\ pass = "enumerate"
  /\ ahead = Enumerated
  /\ kept = {}

\* Mutant: buckets of slower curves are searched too, by lengths only.
RefusedAnyCurve(p) ==
  \E k \in kept : First(k) <= First(p) /\ Back(k) <= Back(p) /\ Length(k) <= Length(p)

\* Of two that dominate each other the smaller sequence stays.
Refused(p) == \E k \in kept : Dominates(k, p) /\ (Dominates(p, k) => LexLess(k, p))

With(p) == {k \in kept : ~Dominates(p, k)} \cup {p}

\* The depth-first search comes to its next path.
Offer ==
  /\ pass = "enumerate" /\ ahead # {}
  /\ LET p == Least(ahead, LAMBDA q : q)
     IN /\ kept' = IF Refused(p) THEN kept ELSE With(p)
        /\ ahead' = ahead \ {p}
  /\ UNCHANGED <<net, tolerance, pass>>

\* candidate_sort
Sort ==
  /\ pass = "enumerate" /\ ahead = {}
  /\ pass' = "filter"
  /\ ahead' = kept
  /\ kept' = {}
  /\ UNCHANGED <<net, tolerance>>

\* dominance_filter, in the order of the keys.
Filter ==
  /\ pass = "filter" /\ ahead # {}
  /\ LET p == Least(ahead, SortKey)
     IN /\ kept' = IF \E k \in kept : Dominates(k, p) THEN kept ELSE With(p)
        /\ ahead' = ahead \ {p}
  /\ UNCHANGED <<net, tolerance, pass>>

\* The direct path is always in the catalogue.
Materialize ==
  /\ pass = "filter" /\ ahead = {}
  /\ pass' = "done"
  /\ kept' = kept \cup {<< >>}
  /\ UNCHANGED <<net, tolerance, ahead>>

CatalogNext == Offer \/ Sort \/ Filter \/ Materialize

CatalogSpec == CatalogInit /\ [][CatalogNext]_catalogVars
-----------------------------------------------------------------------------
(* The samplers.                                                           *)

\* sample_explicit_path: any path of the catalogue but the current one.
ExplicitSupport(current) == kept \ {current}

\* Mutant: the search for a witness also stops at the last leg's length.
WitnessesShort(p) ==
  {w \in Elementary :
     /\ Reachable(Last(w), Target) /\ w # p
     /\ \A i \in DOMAIN w :
          /\ net.rank[w[i]] <= Fastest(p)
          /\ Reachable(Nodes(w)[i], w[i])
          /\ Length(SubSeq(w, 1, i)) <= Length(p) + tolerance
          /\ Back(SubSeq(w, 1, i)) <= Back(p) + tolerance
     /\ First(w) <= First(p) + tolerance}

\* What the depth-first search of path_dominated finds before a comparison.
Witnesses(p) ==
  {w \in Elementary :
     /\ Reachable(Last(w), Target) /\ w # p
     /\ \A i \in DOMAIN w :
          /\ net.rank[w[i]] <= Fastest(p)
          /\ Reachable(Nodes(w)[i], w[i])
          /\ Length(SubSeq(w, 1, i)) <= Length(p) + tolerance
     /\ First(w) <= First(p) + tolerance
     /\ Back(w) <= Back(p) + tolerance}

PathDominated(p) == \E w \in Witnesses(p) : Dominates(p, w) => LexLess(SortKey(w), SortKey(p))

\* sample_implicit_path: every path it can return.
ImplicitSupport(current) ==
  {p \in Enumerated : p # current /\ ~PathDominated(p)}
    \cup (IF current = << >> THEN {} ELSE {<< >>})
-----------------------------------------------------------------------------
Seen == IF pass = "enumerate" THEN Enumerated \ ahead ELSE Enumerated
Standing == IF pass = "filter" THEN kept \cup ahead ELSE kept \ {<< >>}

Dominated(S) == UNION {{q \in Enumerated : q = p \/ Dominates(p, q)} : p \in S}

Reach[n \in 0 .. Cardinality(Enumerated)] == IF n = 0 THEN Standing ELSE Dominated(Reach[n - 1])

(* However the passes go, every path that was enumerated is dominated by   *)
(* one that still stands, directly or through others: dominance that is    *)
(* not transitive never empties the catalogue of a way to go (path_catalog *)
(* of PathSampler).                                                        *)
NothingLost == \E n \in 0 .. Cardinality(Enumerated) : Seen \subseteq Reach[n]

(* Where no two lengths are closer than the tolerance, the sampler that    *)
(* never builds a catalogue (sample_implicit_path with path_dominated)     *)
(* draws from the very paths of the catalogue, whatever the current one.   *)
ImplicitAgrees ==
  pass = "done" /\ tolerance = 0 =>
    \A current \in kept : ImplicitSupport(current) = ExplicitSupport(current)
=============================================================================
