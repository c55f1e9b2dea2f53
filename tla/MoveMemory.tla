----------------------------- MODULE MoveMemory -----------------------------
(***************************************************************************)
(* best_customer_neighbor (search.cpp): a pass over all swaps, relocations *)
(* or exchanges of tails of the granular neighbourhood, and what it keeps  *)
(* to do less next time: the best move of every support (a route or a pair *)
(* of routes) under the versions of its routes, the summaries of children  *)
(* under the physical visits they come from, and within the pass the       *)
(* source of a relocation.  Accepted moves and path replacements change    *)
(* the solution between passes; improve decides what survives a call.      *)
(***************************************************************************)
EXTENDS Plans

CONSTANTS
  Score(_),      \* [raw, shortfall, excess] of a visit sequence
  Starts,        \* solutions a call of improve may be given
  Lambdas,       \* penalties
  Gamma,         \* neighbours of a customer that are promising
  Paths,         \* station paths of the path neighbourhood
  Tolerance,     \* kCostTolerance
  Infinity,      \* no cost
  MaxKeyVisits,  \* 256: longer routes are not remembered
  MaxVersion,    \* the largest route version
  MaxCalls,      \* bound: calls of improve
  MaxPasses,     \* bound: passes and path replacements
  Cuts           \* bound: after how many moves a deadline may pass

VARIABLES
  mode,          \* whose station visits a move keeps, see Modes
  timed,         \* calls have a deadline
  lambda,        \* the penalty of the running call, or Idle
  calls, passes,
  solution,      \* sequence of plans
  memory,        \* best moves [cost, move] by key
  stamp,         \* what the memory belongs to: [lambda, routes]
  versions,      \* route versions by visits
  nextVersion,
  tables         \* summaries by <<neighborhood, visits, visits, opens, row, child>>

vars == <<mode, timed, lambda, calls, passes, solution, memory, stamp, versions, nextVersion, tables>>

Idle == -1
Empty == [x \in {} |-> 0]
NoMove == << >>
Nothing == [cost |-> Infinity, move |-> NoMove]

Neighborhoods == {"swap", "relocate", "two-opt"}

\* Cooperative moves keep all of them; else the paths between customers that
\* stay together are kept, or all of them just when a route is opened.
Modes == {"cooperative", "projected", "by gaps"}
-----------------------------------------------------------------------------
(* GranularNeighborhood                                                    *)

SeqLess(s, t) ==
  \E k \in DOMAIN t : (k > Len(s) \/ s[k] < t[k]) /\ \A j \in 1 .. k - 1 : s[j] = t[j]

\* The elements of S by their keys, which differ.
Sorted(S, Key(_)) ==
  LET ranked(keys) == [x \in S |-> 1 + Cardinality({y \in S : SeqLess(keys[y], keys[x])})]
      listed(rank) == [i \in 1 .. Cardinality(S) |-> CHOOSE x \in S : rank[x] = i]
  IN With(With([x \in S |-> Key(x)], ranked), listed)

Nearest ==
  [c \in Customers |->
     Range(SubSeq(Sorted(Customers \ {c}, LAMBDA x : <<Dist[c, x], x>>), 1, Gamma))]

Promising(a, b) == a \in Customers /\ b \in Customers /\ b \in Nearest[a]
PromisingNeighbors(c) == {n \in Customers : Promising(c, n) \/ Promising(n, c)}
-----------------------------------------------------------------------------
(* A move is <<neighborhood, route, k, route, k>>: two customers by their  *)
(* ordinals, a customer and the one it goes behind, or two cuts.  A        *)
(* literal move edits the physical visits, others the customers, which get *)
(* the paths of the solution afterwards.                                   *)

R == Len(solution)
Order(r) == solution[r].customers

Literal(m) == mode = "cooperative" \/ (mode = "projected" /\ m[4] > R)

\* Where the k-th customer is in a line, and the depot before the first.
Slot(line, k) ==
  IF k = 0 THEN 0 ELSE CHOOSE i \in DOMAIN line : line[i] = CustomersOf(line)[k]

Prefix(line, k) == SubSeq(line, 1, Slot(line, k))
Suffix(line, k) == SubSeq(line, Slot(line, k) + 1, Len(line))
Put(line, k, c) == [line EXCEPT ![Slot(line, k)] = c]
Drop(line, k) == RemoveAt(line, Slot(line, k))
Behind(line, k, c) == Prefix(line, k) \o <<c>> \o Suffix(line, k)

Line(m, r) == IF r > R THEN << >> ELSE IF Literal(m) THEN solution[r].visits ELSE Order(r)

Lines(m) ==
  LET r == m[2]
      k == m[3]
      q == m[4]
      j == m[5]
      from == Line(m, r)
      to == Line(m, q)
      c == Order(r)[k]
  IN CASE m[1] = "swap" /\ r = q -> r :> [from EXCEPT ![Slot(from, k)] = Order(q)[j],
                                                       ![Slot(from, j)] = c]
       [] m[1] = "swap" /\ r # q -> r :> Put(from, k, Order(q)[j]) @@ q :> Put(to, j, c)
       [] m[1] = "relocate" /\ r = q /\ j < k -> r :> Behind(Drop(from, k), j, c)
       [] m[1] = "relocate" /\ r = q /\ j > k -> r :> Behind(Drop(from, k), j - 1, c)
       [] m[1] = "relocate" /\ r = q /\ j = k -> r :> from
       [] m[1] = "relocate" /\ r # q -> r :> Drop(from, k) @@ q :> Behind(to, j, c)
       [] m[1] = "two-opt" -> r :> (Prefix(from, k) \o Suffix(to, j))
                                @@ q :> (Prefix(to, j) \o Suffix(from, k))

\* The visits of the routes a move makes, by slot; one without customers is
\* not driven.
Children(m, gaps) ==
  LET line == Lines(m)
      drive(l) == IF CustomersOf(l) = << >> THEN << >>
                  ELSE IF Literal(m) THEN l ELSE ExpandRoute(l, GapsFor(l, gaps))
  IN [r \in DOMAIN line |-> drive(line[r])]

\* described_move_less
Description(m) ==
  LET line == Lines(m)
      slots == Sorted(DOMAIN line, LAMBDA r : <<r>>)
  IN FlattenSeq([i \in DOMAIN slots |-> <<slots[i]>> \o CustomersOf(line[slots[i]]) \o <<-1>>])

MoveLess(m, n) == n # NoMove /\ SeqLess(Description(m), Description(n))

\* The routes a move changes: <<first, second or 0, opens a route>>.
Support(m) ==
  IF m[2] = m[4] THEN <<m[2], 0, FALSE>>
  ELSE IF m[4] > R THEN <<m[2], 0, TRUE>>
  ELSE <<Smaller(m[2], m[4]), Larger(m[2], m[4]), FALSE>>

SupportIndex(s) ==
  IF s[3] THEN R + s[1] ELSE IF s[2] = 0 THEN s[1] ELSE 2 * R + s[1] * (R + 1) + s[2]

Supports(hood) ==
  {<<a, b, FALSE>> : <<a, b>> \in {x \in (1 .. R) \X (1 .. R) : x[1] < x[2]}}
    \cup (IF hood = "two-opt" THEN {} ELSE {<<a, 0, FALSE>> : a \in 1 .. R})
    \cup (IF hood = "relocate" THEN {<<a, 0, TRUE>> : a \in {r \in 1 .. R : Len(Order(r)) > 1}}
          ELSE {})
-----------------------------------------------------------------------------
(* The moves of a pass, in the order in which they are considered, when    *)
(* these supports are open.                                                *)

Where == [c \in UNION {Range(Order(r)) : r \in 1 .. R} |->
            CHOOSE x \in UNION {{r} \X DOMAIN Order(r) : r \in 1 .. R} : Order(x[1])[x[2]] = c]

PairSupport(a, b) == IF a = b THEN <<a, 0, FALSE>> ELSE <<Smaller(a, b), Larger(a, b), FALSE>>

SwapMoves(open, at) ==
  LET beside(c) == {Order(at[c][1])[i] : i \in {at[c][2] - 1, at[c][2] + 1} \cap DOMAIN Order(at[c][1])}
      found(c, d) == /\ PairSupport(at[c][1], at[d][1]) \in open
                     /\ \E x \in beside(c) : d \in PromisingNeighbors(x)
      pairs == {p \in Customers \X Customers :
                  /\ p[1] < p[2] /\ (found(p[1], p[2]) \/ found(p[2], p[1]))
                  /\ at[p[1]][1] = at[p[2]][1] => at[p[1]][2] - at[p[2]][2] \notin -1 .. 1}
      sorted == Sorted(pairs, LAMBDA p : p)
  IN [i \in DOMAIN sorted |-> <<"swap">> \o at[sorted[i][1]] \o at[sorted[i][2]]]

RelocateMoves(open, at) ==
  LET behind == {<<c, at[n][1], at[n][2]>> :
                   <<c, n>> \in {p \in Customers \X Customers :
                     Promising(p[2], p[1]) /\ PairSupport(at[p[1]][1], at[p[2]][1]) \in open}}
      opening == {<<c, R + 1, 0>> : c \in {d \in Customers : <<at[d][1], 0, TRUE>> \in open}}
      stays(t) == /\ t[2] = at[t[1]][1]
                  /\ LET line == IF mode = "cooperative" THEN solution[t[2]].visits ELSE Order(t[2])
                         slot == Slot(line, at[t[1]][2])
                     IN Slot(line, t[3]) \in {slot - 1, slot}
      sorted == Sorted({t \in behind \cup opening : ~stays(t)}, LAMBDA t : t)
  IN [i \in DOMAIN sorted |-> <<"relocate">> \o at[sorted[i][1]] \o <<sorted[i][2], sorted[i][3]>>]

TwoOptMoves(open, at) ==
  LET near == {p \in Customers \X Customers :
                 /\ at[p[1]][1] < at[p[2]][1] /\ <<at[p[1]][1], at[p[2]][1], FALSE>> \in open
                 /\ p[2] \in PromisingNeighbors(p[1])}
      cuts == {<<at[p[1]][1], at[p[2]][1], at[p[1]][2], at[p[2]][2] - 1>> : p \in near}
                \cup {<<at[p[1]][1], at[p[2]][1], at[p[1]][2] - 1, at[p[2]][2]>> : p \in near}
      sorted == Sorted(cuts, LAMBDA t : t)
  IN [i \in DOMAIN sorted |-> <<"two-opt", sorted[i][1], sorted[i][3], sorted[i][2], sorted[i][4]>>]

Moves(hood, open) ==
  CASE hood = "swap" -> SwapMoves(open, Where)
    [] hood = "relocate" -> RelocateMoves(open, Where)
    [] hood = "two-opt" -> TwoOptMoves(open, Where)

\* The granular rule: one of the arcs into a moved customer is promising.
Allowed(m) ==
  LET before(r, k) == IF k > 1 THEN Order(r)[k - 1] ELSE Depot
      joins(r, k, q, j) == k > 0 /\ j < Len(Order(q)) /\ Promising(Order(r)[k], Order(q)[j + 1])
  IN CASE m[1] = "swap" -> \/ Promising(before(m[2], m[3]), Order(m[4])[m[5]])
                           \/ Promising(before(m[4], m[5]), Order(m[2])[m[3]])
       [] m[1] = "relocate" -> m[4] > R \/ (m[5] > 0 /\ Promising(Order(m[4])[m[5]], Order(m[2])[m[3]]))
       [] m[1] = "two-opt" -> joins(m[2], m[3], m[4], m[5]) \/ joins(m[4], m[5], m[2], m[3])
-----------------------------------------------------------------------------
(* What a pass remembers.                                                  *)

\* Versions at the start of a pass; when they run out everything is dropped.
Renumber == nextVersion > MaxVersion - R

Registered ==
  LET known == IF Renumber THEN Empty ELSE versions
      first == IF Renumber THEN 1 ELSE nextVersion
      new == SelectSeq([r \in 1 .. R |-> solution[r].visits],
                       LAMBDA v : Len(v) <= MaxKeyVisits /\ v \notin DOMAIN known)
  IN [of |-> [v \in Range(new) |-> first - 1 + CHOOSE i \in DOMAIN new : new[i] = v] @@ known,
      next |-> first + Len(new)]

Key(hood, s, of) == <<hood, s, of[solution[s[1]].visits],
                      IF s[2] = 0 THEN 0 ELSE of[solution[s[2]].visits]>>

Short(s) == \A r \in {s[1], s[2]} \ {0} : Len(solution[r].visits) <= MaxKeyVisits

\* A support whose best move is known is closed for the pass.
Remembered(hood, of, kept) == {s \in Supports(hood) : Short(s) /\ Key(hood, s, of) \in DOMAIN kept}

Row(m) ==
  LET r == m[2]
      q == m[4]
      size(x) == Len(Order(x))
      low == Smaller(r, q)
      high == Larger(r, q)
  IN CASE m[1] = "swap" /\ r = q -> (Smaller(m[3], m[5]) - 1) * size(r) + Larger(m[3], m[5]) - 1
       [] m[1] = "swap" /\ r # q -> ((IF r < q THEN m[3] ELSE m[5]) - 1) * size(high)
                                       + (IF r < q THEN m[5] ELSE m[3]) - 1
       [] m[1] = "relocate" /\ r = q -> (m[3] - 1) * (size(r) + 1) + m[5]
       [] m[1] = "relocate" /\ q > R -> m[3] - 1
       [] m[1] = "relocate" /\ r # q /\ q <= R ->
            IF r = low THEN (m[3] - 1) * (size(high) + 1) + m[5]
            ELSE size(low) * (size(high) + 1) + (m[3] - 1) * (size(low) + 1) + m[5]
       [] m[1] = "two-opt" -> 2 * (m[3] * (size(q) + 1) + m[5])

TableKey(m, slot) ==
  LET s == Support(m)
  IN <<m[1], solution[s[1]].visits, IF s[2] = 0 THEN << >> ELSE solution[s[2]].visits, s[3],
       Row(m), IF slot = s[1] THEN 1 ELSE 2>>

\* The route a relocated customer leaves is the same wherever it goes, unless
\* just the opening of a route keeps its station visits.
SharesSource(m, slot) ==
  m[1] = "relocate" /\ m[2] # m[4] /\ slot = m[2] /\ (m[4] > R => mode = "by gaps")

\* A child with stations costs something, so a first child that is worse than
\* the best move already settles it; not with a deadline.
HasStations(s) == \E r \in {s[1], s[2]} : Range(solution[r].visits) \cap Stations # {}

RejectsChild(m, cost, best) ==
  LET s == Support(m)
  IN /\ ~timed /\ s[2] # 0 /\ Short(s)
     /\ (m[1] = "swap" /\ mode = "cooperative" /\ Range(solution[s[2]].visits) \cap Stations # {})
          \/ (m[1] = "two-opt" /\ HasStations(s))
     /\ best # Infinity /\ cost > best + Tolerance

Better(cost, m, entry) ==
  cost < entry.cost - Tolerance
    \/ (cost - entry.cost \in -Tolerance .. Tolerance /\ MoveLess(m, entry.move))

\* One child of a move, in [cost, tables, sources, rejected].
ScoreChild(m, children, best, acc, slot) ==
  LET key == TableKey(m, slot)
      c == Order(m[2])[m[3]]
      shared == SharesSource(m, slot)
      summary == IF shared /\ c \in DOMAIN acc.sources THEN acc.sources[c]
                 ELSE IF key \in DOMAIN acc.tables THEN acc.tables[key]
                 ELSE Score(children[slot])
  IN IF acc.rejected \/ children[slot] = << >> THEN acc
     ELSE IF /\ key[6] = 2 /\ key \notin DOMAIN acc.tables /\ children[Support(m)[1]] # << >>
             /\ RejectsChild(m, acc.cost, best)
     THEN [acc EXCEPT !.rejected = TRUE]
     ELSE [acc EXCEPT !.cost = @ + GeneralizedCost(summary, lambda),
                      !.sources = IF shared THEN c :> summary @@ @ ELSE @,
                      !.tables = IF Short(Support(m)) THEN key :> summary @@ @ ELSE @]

\* consider_move, in [entry, tables, sources].
Consider(gaps, acc, m) ==
  LET s == Support(m)
      entry == IF s \in DOMAIN acc.entry THEN acc.entry[s] ELSE Nothing
      slots == Sorted(DOMAIN Lines(m), LAMBDA r : <<r>>)
      scored(children) ==
        Folded(LAMBDA a, slot : ScoreChild(m, children, entry.cost, a, slot),
               [cost |-> 0, tables |-> acc.tables, sources |-> acc.sources, rejected |-> FALSE],
               slots)
      update(a) == [entry |-> s :> (IF ~a.rejected /\ Better(a.cost, m, entry)
                                    THEN [cost |-> a.cost, move |-> m] ELSE entry) @@ acc.entry,
                    tables |-> a.tables, sources |-> a.sources]
  IN IF ~Allowed(m) THEN [acc EXCEPT !.entry = s :> entry @@ @]
     ELSE With(With(Children(m, gaps), scored), update)

RouteCost(r) == GeneralizedCost(Score(solution[r].visits), lambda)

\* The best of the supports' moves that improves the solution.
Select(entries) ==
  LET sorted == Sorted(DOMAIN entries, LAMBDA s : <<SupportIndex(s)>>)
      delta(s) == entries[s].cost - RouteCost(s[1]) - (IF s[2] = 0 THEN 0 ELSE RouteCost(s[2]))
      step(acc, s) ==
        IF /\ entries[s].cost # Infinity /\ delta(s) < -Tolerance
           /\ acc.move = NoMove \/ Better(delta(s), entries[s].move, acc)
        THEN [cost |-> delta(s), move |-> entries[s].move] ELSE acc
  IN Folded(step, Nothing, sorted)

\* The pass, cut off by its deadline after so many moves.
Outcome(hood, cut, registered) ==
  LET kept == IF Renumber THEN Empty ELSE memory
      closed == Remembered(hood, registered.of, kept)
      moves == Moves(hood, Supports(hood) \ closed)
      done == cut >= Len(moves)
      finish(acc) ==
        LET new == {s \in DOMAIN acc.entry : Short(s) /\ done}
        IN [winner |-> Select([s \in closed |-> kept[Key(hood, s, registered.of)]] @@ acc.entry),
            memory |-> [k \in {Key(hood, s, registered.of) : s \in new} |->
                          acc.entry[CHOOSE s \in new : Key(hood, s, registered.of) = k]] @@ kept,
            tables |-> acc.tables]
      scan(gaps) ==
        Folded(LAMBDA acc, m : Consider(gaps, acc, m),
               [entry |-> Empty, tables |-> tables, sources |-> Empty],
               SubSeq(moves, 1, Smaller(cut, Len(moves))))
  IN With(With(GapMap(solution), scan), finish)

\* The solution with the routes of a move.
Applied(m) ==
  LET child == Children(m, GapMap(solution))
      routes == [r \in 1 .. R + 1 |-> IF r \in DOMAIN child THEN child[r]
                                      ELSE IF r <= R THEN solution[r].visits ELSE << >>]
      driven == SelectSeq(routes, LAMBDA v : v # << >>)
  IN [i \in DOMAIN driven |-> Plan(driven[i])]

TotalCost(plans) ==
  SumOver(plans, LAMBDA p : GeneralizedCost(Score(p.visits), lambda))

Accepts(plans) == TotalCost(plans) < TotalCost(solution) - Tolerance

\* Mutant: the best moves outlive a change of the number of routes.
AcceptAndKeep(plans, kept) ==
  solution' = plans /\ memory' = kept /\ stamp' = [stamp EXCEPT !.routes = Len(plans)]

\* accept: a changed number of routes drops the best moves.
Accept(plans, kept) ==
  /\ solution' = plans
  /\ IF Len(plans) = R THEN memory' = kept /\ UNCHANGED stamp
     ELSE memory' = Empty /\ stamp' = [stamp EXCEPT !.routes = Len(plans)]
-----------------------------------------------------------------------------
Init ==
  /\ mode \in Modes /\ timed \in BOOLEAN
  /\ solution \in Starts
  /\ lambda = Idle /\ stamp = [lambda |-> Idle, routes |-> 0] /\ calls = 0 /\ passes = 0
  /\ memory = Empty /\ versions = Empty /\ nextVersion = 1 /\ tables = Empty

\* improve: the memory survives for the same penalty and number of routes.
Improve ==
  /\ lambda = Idle /\ calls < MaxCalls /\ calls' = calls + 1
  /\ lambda' \in Lambdas
  /\ solution' \in Starts \cup {solution}
  /\ stamp' = [lambda |-> lambda', routes |-> Len(solution')]
  /\ IF mode = "cooperative" /\ stamp = stamp' THEN UNCHANGED <<memory, versions, nextVersion>>
     ELSE memory' = Empty /\ versions' = Empty /\ nextVersion' = 1
  /\ UNCHANGED <<mode, timed, passes, tables>>

\* A pass that ends after the deadline has nothing accepted, and ends the call.
Pass ==
  /\ lambda # Idle /\ passes < MaxPasses /\ passes' = passes + 1
  /\ \E hood \in Neighborhoods, cut \in (IF timed THEN Cuts ELSE {}) \cup {Infinity},
        registered \in {Registered} : \E out \in {Outcome(hood, cut, registered)} :
       /\ versions' = registered.of /\ nextVersion' = registered.next
       /\ tables' = out.tables
       /\ IF cut = Infinity /\ out.winner.move # NoMove /\ Accepts(Applied(out.winner.move))
          THEN Accept(Applied(out.winner.move), out.memory)
          ELSE memory' = out.memory /\ UNCHANGED <<solution, stamp>>
       /\ lambda' = IF cut = Infinity THEN lambda ELSE Idle
  /\ UNCHANGED <<mode, timed, calls>>

\* The path neighbourhood replaces the stations of a gap.
ReplacePath ==
  /\ lambda # Idle /\ passes < MaxPasses /\ passes' = passes + 1
  /\ \E r \in 1 .. R, path \in Paths : \E g \in DOMAIN solution[r].gaps :
       LET plans == [solution EXCEPT ![r] = MakePlan(Order(r), [@.gaps EXCEPT ![g] = path])]
       IN Accepts(plans) /\ Accept(plans, memory)
  /\ UNCHANGED <<mode, timed, lambda, calls, versions, nextVersion, tables>>

\* The descent has no neighbourhood left, or its deadline passed.
Return ==
  /\ lambda # Idle /\ lambda' = Idle
  /\ UNCHANGED <<mode, timed, calls, passes, solution, memory, stamp, versions, nextVersion, tables>>

Next == Improve \/ Pass \/ ReplacePath \/ Return

Spec == Init /\ [][Next]_vars
-----------------------------------------------------------------------------
\* The best moves found by looking at every allowed one with its own cost.
FreshEntries(hood) ==
  LET cost(child) == SumOver(SetToSeq({r \in DOMAIN child : child[r] # << >>}),
                             LAMBDA r : GeneralizedCost(Score(child[r]), lambda))
      update(acc, m, s, c) ==
        s :> (IF Allowed(m) /\ Better(c, m, acc[s]) THEN [cost |-> c, move |-> m] ELSE acc[s]) @@ acc
  IN With(GapMap(solution),
          LAMBDA gaps : Folded(LAMBDA acc, m : update(acc, m, Support(m), cost(Children(m, gaps))),
                               [s \in Supports(hood) |-> Nothing], Moves(hood, Supports(hood))))

\* Whatever was kept, from earlier passes, calls, penalties and solutions, a
\* complete pass finds the move, and promises the gain, of one that looks at
\* every move again; so does each support that is skipped.
MemoryNeverMisleads ==
  lambda # Idle =>
    \A hood \in Neighborhoods : \A fresh \in {FreshEntries(hood)}, registered \in {Registered} :
      /\ Outcome(hood, Infinity, registered).winner = Select(fresh)
      /\ \A s \in Remembered(hood, registered.of, IF Renumber THEN Empty ELSE memory) :
           memory[Key(hood, s, registered.of)] = fresh[s]

=============================================================================
