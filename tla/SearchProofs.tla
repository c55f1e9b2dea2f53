---------------------------- MODULE SearchProofs ----------------------------
(***************************************************************************)
(* Proofs about the searches.                                              *)
(*                                                                         *)
(* The descent (Vnd), for every graph of solutions, profile and removal    *)
(* count: the token kept for the first opened route is backed by the       *)
(* budget, and a descent that is not cut off ends exhausted.               *)
(*                                                                         *)
(* The charging refinement (Frvcp), for every instance, budget and         *)
(* duration of calls: the wall budget is overdrawn by one call at most,    *)
(* and the memo holds nothing but proved optima.                           *)
(*                                                                         *)
(* The next insertion (InsertionChoice), for all moves, bounds and orders: *)
(* what is never evaluated does not change the choice.                     *)
(*                                                                         *)
(* The scorer of edits (PhysicalScorer), for every instance and any routes *)
(* and edits: labels of stretches of a path may be joined in any grouping, *)
(* the tree answers with the join of a range, every edit is scored as the  *)
(* edited route, and neither normalisation nor the choice of one slot for  *)
(* a run of a station changes the score.                                   *)
(*                                                                         *)
(* The scorer of joined fragments (RouteScorer), for every instance, any   *)
(* incumbents one after the other and any orders: a route is made of the   *)
(* links of its customers, a fragment of the incumbent in either direction *)
(* has the label of its links, and what is taken over at a reset is what   *)
(* would be computed anew.                                                 *)
(***************************************************************************)
EXTENDS Vnd, Frvcp, InsertionChoice, PhysicalScorer, RouteScorer, FoldTheorems

Typed ==
  /\ graph \in Graphs
  /\ current \in DOMAIN graph
  /\ profile \in Profiles
  /\ kappa \in Nat
  /\ pc \in {"start", "select", "propose", "stage", "inserted", "final", "done"}
  /\ phase \in {"none", "entry", "ordinary", "opening", "tail"}
  /\ budget \in Nat /\ allowance \in Nat
  /\ held \in BOOLEAN /\ late \in BOOLEAN
  /\ active \subseteq Customer \cup {PathNeighborhood}

\* Only cooperative calls own tokens and probe; only adaptive ones have stages.
ByProfile ==
  /\ profile # "cooperative" => budget = 0 /\ held = FALSE
  /\ pc = "propose" => profile = "cooperative"
  /\ pc \in {"stage", "inserted", "final"} => profile = "adaptive"
  /\ pc \in {"stage", "inserted"} => active \subseteq Customer

\* A customer neighbourhood is closed only while the solution is the one it
\* failed on.
ClosedHasFailed ==
  ~late /\ (pc = "select" \/ (pc = "propose" /\ phase \in {"ordinary", "tail"}))
    => \A n \in Customer \ active : ~Improves(At(current).move[n])

\* The path neighbourhood is closed only without a proposal it may make.
ClosedIsSpent ==
  ~late /\ pc = "select" /\ profile = "cooperative" /\ PathNeighborhood \notin active
    => OrdinaryAllowance(budget, held) = 0 \/ drawn = Gaps(current)

\* An ordinary probe may use all that is not kept back, the tail probe all
\* that is left.
ProbesSpendAll ==
  /\ pc = "propose" /\ phase = "ordinary" => allowance = OrdinaryAllowance(budget, held)
  /\ pc = "propose" /\ phase = "tail"
       => ~held /\ active = {} /\ (budget <= allowance \/ drawn = Gaps(current))

IInv ==
  /\ Typed /\ ByProfile
  /\ ReserveBacked
  /\ ClosedHasFailed /\ ClosedIsSpent /\ ProbesSpendAll
  /\ EndsExhausted
-----------------------------------------------------------------------------
(* The minimum of the sets of two and three numbers the budget is cut to.  *)
LEMMA MinPair ==
  ASSUME NEW a \in Nat, NEW b \in Nat
  PROVE  Min({a, b}) \in Nat /\ Min({a, b}) <= a /\ Min({a, b}) <= b
<1>1. \E x \in {a, b} : \A y \in {a, b} : x <= y
  OBVIOUS
<1>2. Min({a, b}) \in {a, b} /\ \A y \in {a, b} : Min({a, b}) <= y
  BY <1>1 DEF Min
<1>3. QED
  BY <1>2

\* The smallest of three numbers is below each of them.
LEMMA MinTriple ==
  ASSUME NEW a \in Nat, NEW b \in Nat, NEW c \in Nat
  PROVE  /\ Min({a, b, c}) \in Nat
         /\ Min({a, b, c}) <= a /\ Min({a, b, c}) <= b /\ Min({a, b, c}) <= c
<1>1. \E x \in {a, b, c} : \A y \in {a, b, c} : x <= y
  OBVIOUS
<1>2. Min({a, b, c}) \in {a, b, c} /\ \A y \in {a, b, c} : Min({a, b, c}) <= y
  BY <1>1 DEF Min
<1>3. QED
  BY <1>2

(* The proposals a call may make are a number.                             *)
LEMMA LifetimeIsNat ==
  ASSUME NEW gaps \in Nat, NEW k \in Nat
  PROVE  Lifetime(gaps, k) \in Nat
<1>1. Min({k, gaps}) \in Nat /\ Min({k, gaps}) <= gaps
  BY MinPair
<1>2. Min({k, gaps - Min({k, gaps})}) \in Nat
  BY <1>1, MinPair
<1>3. QED
  BY <1>1, <1>2 DEF Lifetime

(* A move the descent accepts is a solution of the graph.                  *)
LEMMA MovesStayInGraph ==
  ASSUME Typed, NEW n \in Customer, Improves(At(current).move[n])
  PROVE  At(current).move[n] \in DOMAIN graph
BY GraphsAreSolutions DEF Typed, Improves, At

\* The proposals of a solution are solutions of the graph.
LEMMA PathsStayInGraph ==
  ASSUME Typed, NEW g \in Gaps(current), NEW t \in At(current).path[g]
  PROVE  t \in DOMAIN graph
BY GraphsAreSolutions DEF Typed, Gaps, At

(* Every neighbourhood but, without a free proposal, that of the paths.    *)
LEMMA ReopenedNeighborhoods ==
  ASSUME NEW left \in Nat, NEW reserved \in BOOLEAN
  PROVE  /\ Customer \subseteq ActiveNeighborhoods(left, reserved)
         /\ ActiveNeighborhoods(left, reserved) \subseteq Customer \cup {PathNeighborhood}
         /\ PathNeighborhood \notin ActiveNeighborhoods(left, reserved)
              => profile = "cooperative" /\ OrdinaryAllowance(left, reserved) = 0
         /\ OrdinaryAllowance(left, FALSE) = left
BY DEF ActiveNeighborhoods, OrdinaryAllowance
-----------------------------------------------------------------------------
\* A descent starts in the invariant.
LEMMA InitIsInv == DescentInit => IInv
<1> SUFFICES ASSUME DescentInit PROVE IInv
  OBVIOUS
<1>1. kappa \in Nat
  BY ProfilesAssumption DEF DescentInit
<1>2. graph \in Graphs /\ current \in DOMAIN graph
  BY GraphsAreSolutions DEF DescentInit
<1>3. Typed
  BY <1>1, <1>2 DEF DescentInit, Typed
<1>4. QED
  BY <1>3 DEF DescentInit, IInv, ByProfile, ReserveBacked, ClosedHasFailed,
              ClosedIsSpent, ProbesSpendAll, EndsExhausted
-----------------------------------------------------------------------------
(* One lemma per part of the loop: the actions keep the invariant.         *)

LEMMA EnterKeepsInv == IInv /\ Enter => IInv'
<1> SUFFICES ASSUME IInv, Enter PROVE IInv'
  OBVIOUS
<1> DEFINE total == Lifetime(At(current).gaps, kappa)
           spare == OrdinaryAllowance(total, total # 0)
           entry == Min({kappa, At(current).gaps, spare})
<1>1. total \in Nat
  BY LifetimeIsNat, GraphsAreSolutions DEF IInv, Typed, At
<1>2. spare \in Nat
  BY <1>1 DEF OrdinaryAllowance
<1>3. entry \in Nat /\ entry <= spare
  BY <1>2, MinTriple, GraphsAreSolutions DEF IInv, Typed, At
<1>4. budget' = total /\ profile = "cooperative"
  BY DEF Enter
<1>5. held' = (total # 0)
  BY DEF Enter
<1>6. UNCHANGED <<graph, profile, kappa, current, drawn, late>>
  BY DEF Enter, question
<1>7. \/ /\ late
         /\ pc' = "select" /\ phase' = "none" /\ allowance' = 0 /\ active' = {}
      \/ /\ ~late
         /\ pc' = "propose" /\ phase' = "entry" /\ allowance' = entry /\ active' = active
  BY DEF Enter, BackToSelect, Probe
<1> HIDE DEF total, entry
<1>8. held' \in BOOLEAN /\ (held' => total # 0)
  BY ONLY <1>5, Zenon
<1>9. spare = OrdinaryAllowance(budget', held')
  BY <1>4, <1>5, Zenon
<1>10. Typed'
  BY <1>1, <1>3, <1>4, <1>6, <1>7, <1>8 DEF IInv, Typed
<1>11. ByProfile'
  BY <1>4, <1>6, <1>7 DEF IInv, ByProfile
<1>12. ReserveBacked'
  BY <1>1, <1>3, <1>4, <1>7, <1>8, <1>9 DEF ReserveBacked
<1>13. ClosedHasFailed' /\ ClosedIsSpent' /\ ProbesSpendAll' /\ EndsExhausted'
  BY <1>6, <1>7 DEF ClosedHasFailed, ClosedIsSpent, ProbesSpendAll, EndsExhausted
<1>14. QED
  BY <1>10, <1>11, <1>12, <1>13 DEF IInv

(* A proposal costs one token of the probe and one of the budget.          *)
LEMMA ProposalSpendsOne ==
  ASSUME IInv, NEW g, NEW t, Proposal(g, t)
  PROVE  /\ budget' = budget - 1 /\ allowance' = allowance - 1
         /\ budget' \in Nat /\ allowance' \in Nat
         /\ held => budget' > 0
         /\ allowance' <= OrdinaryAllowance(budget', held)
         /\ phase = "ordinary" => allowance' = OrdinaryAllowance(budget', held)
         /\ profile = "cooperative"
BY DEF IInv, Typed, ByProfile, ReserveBacked, ProbesSpendAll, Proposal, OrdinaryAllowance

\* A proposal that finds nothing keeps the invariant.
LEMMA ProposeInVainKeepsInv ==
  ASSUME IInv, NEW g, NEW t, ProposeInVain(g, t)
  PROVE  IInv'
<1>1. /\ budget' = budget - 1 /\ allowance' = allowance - 1
      /\ budget' \in Nat /\ allowance' \in Nat
      /\ held => budget' > 0
      /\ allowance' <= OrdinaryAllowance(budget', held)
      /\ phase = "ordinary" => allowance' = OrdinaryAllowance(budget', held)
      /\ profile = "cooperative"
  BY ProposalSpendsOne DEF ProposeInVain
<1>2. /\ pc = "propose" /\ g \in Gaps(current) \ drawn
      /\ UNCHANGED <<graph, profile, kappa, pc, current, held, phase, active, late>>
  BY DEF ProposeInVain, Proposal, question
<1>3. Typed' /\ ByProfile'
  BY <1>1, <1>2 DEF IInv, Typed, ByProfile
<1>4. ReserveBacked'
  BY <1>1, <1>2 DEF ReserveBacked
<1>5. ClosedHasFailed'
  BY <1>2 DEF IInv, ClosedHasFailed, Improves, At
<1>6. ProbesSpendAll'
  BY <1>1, <1>2 DEF IInv, Typed, ProbesSpendAll
<1>7. ClosedIsSpent' /\ EndsExhausted'
  BY <1>2 DEF ClosedIsSpent, EndsExhausted
<1>8. QED
  BY <1>3, <1>4, <1>5, <1>6, <1>7 DEF IInv

\* A proposal that is taken keeps the invariant.
LEMMA ProposeWellKeepsInv ==
  ASSUME IInv, NEW g, NEW t, ProposeWell(g, t)
  PROVE  IInv'
<1>1. /\ budget' = budget - 1 /\ budget' \in Nat /\ allowance' \in Nat
      /\ held => budget' > 0
      /\ profile = "cooperative"
  BY ProposalSpendsOne DEF ProposeWell
<1>2. /\ UNCHANGED <<graph, profile, kappa, held, late>>
      /\ pc' = "select" /\ phase' = "none" /\ current' = t
      /\ active' = ActiveNeighborhoods(budget', held)
  BY <1>1 DEF ProposeWell, AcceptMove, question
<1>3. t \in DOMAIN graph
  <2>1. g \in Gaps(current) /\ t # NoCandidate
    BY DEF ProposeWell, Proposal, AcceptMove, Improves
  <2>2. t \in At(current).path[g]
    BY <2>1 DEF ProposeWell, Proposal
  <2>3. QED
    BY <2>1, <2>2, PathsStayInGraph DEF IInv
<1>4. held \in BOOLEAN
  BY DEF IInv, Typed
<1>5. /\ Customer \subseteq active' /\ active' \subseteq Customer \cup {PathNeighborhood}
      /\ PathNeighborhood \notin active' => OrdinaryAllowance(budget', held') = 0
  BY <1>1, <1>2, <1>4, ReopenedNeighborhoods
<1>6. Typed' /\ ByProfile'
  BY <1>1, <1>2, <1>3, <1>5 DEF IInv, Typed, ByProfile
<1>7. ReserveBacked' /\ ProbesSpendAll' /\ EndsExhausted'
  BY <1>1, <1>2 DEF ReserveBacked, ProbesSpendAll, EndsExhausted
<1>8. ClosedHasFailed' /\ ClosedIsSpent'
  BY <1>5 DEF ClosedHasFailed, ClosedIsSpent
<1>9. QED
  BY <1>6, <1>7, <1>8 DEF IInv

\* A probe that ends without a candidate keeps the invariant.
LEMMA ProbeFailsKeepsInv == IInv /\ ProbeFails => IInv'
<1> SUFFICES ASSUME IInv, ProbeFails PROVE IInv'
  OBVIOUS
<1>1. /\ UNCHANGED <<graph, profile, kappa, current, budget, held, drawn, late>>
      /\ pc = "propose" /\ pc' = IF phase = "tail" THEN "done" ELSE "select"
      /\ phase' = "none" /\ allowance' = 0 /\ active' = AfterFailure
      /\ late \/ allowance = 0 \/ budget = 0 \/ drawn = Gaps(current)
  BY DEF ProbeFails, question
<1>2. budget \in Nat /\ held \in BOOLEAN /\ late \in BOOLEAN /\ profile = "cooperative"
  BY <1>1 DEF IInv, Typed, ByProfile
<1>3. /\ active' \subseteq Customer \cup {PathNeighborhood}
      /\ \/ phase = "ordinary" /\ active' = active \ {PathNeighborhood}
         \/ /\ phase # "ordinary" /\ Customer \subseteq active'
            /\ PathNeighborhood \notin active' => OrdinaryAllowance(budget, held) = 0
  BY <1>1, <1>2, ReopenedNeighborhoods DEF AfterFailure, IInv, Typed
<1>4. Typed' /\ ByProfile'
  BY <1>1, <1>2, <1>3 DEF IInv, Typed, ByProfile
<1>5. ReserveBacked' /\ ProbesSpendAll'
  BY <1>1 DEF IInv, ReserveBacked, ProbesSpendAll
<1>6. ClosedHasFailed'
  <2> SUFFICES ASSUME ~late', pc' = "select", NEW n \in Customer \ active'
               PROVE  ~Improves(At(current).move[n])'
    BY <1>1 DEF ClosedHasFailed
  <2>1. phase = "ordinary" /\ n \in Customer \ active
    BY <1>3 DEF Customer, PathNeighborhood
  <2>2. ~Improves(At(current).move[n])
    BY <1>1, <2>1 DEF IInv, ClosedHasFailed
  <2>3. QED
    BY <1>1, <2>2 DEF Improves, At
<1>7. OrdinaryAllowance(0, held) = 0
  BY DEF OrdinaryAllowance
<1>8. ClosedIsSpent'
  <2> SUFFICES ASSUME ~late', pc' = "select", PathNeighborhood \notin active'
               PROVE  (OrdinaryAllowance(budget, held) = 0 \/ drawn = Gaps(current))'
    BY DEF ClosedIsSpent
  <2>1. \/ OrdinaryAllowance(budget, held) = 0 \/ drawn = Gaps(current)
    BY <1>1, <1>3, <1>7 DEF IInv, ProbesSpendAll
  <2>2. QED
    BY <1>1, <2>1 DEF Gaps, At
<1>9. EndsExhausted'
  <2> SUFFICES ASSUME pc' = "done", ~late'
               PROVE  /\ \A n \in Customer : ~Improves(At(current).move[n])'
                      /\ (budget = 0 \/ drawn = Gaps(current))'
    BY DEF EndsExhausted
  <2>1. phase = "tail" /\ active = {}
    BY <1>1 DEF IInv, ProbesSpendAll
  <2>2. \A n \in Customer : ~Improves(At(current).move[n])
    BY <1>1, <2>1 DEF IInv, ClosedHasFailed
  <2>3. budget = 0 \/ drawn = Gaps(current)
    BY <1>1, <1>2, <2>1 DEF IInv, Typed, ProbesSpendAll
  <2>4. QED
    BY <1>1, <2>2, <2>3 DEF Improves, At, Gaps
<1>10. QED
  BY <1>4, <1>5, <1>6, <1>8, <1>9 DEF IInv
-----------------------------------------------------------------------------
\* A move of any neighbourhood keeps the invariant.
LEMMA ImproveByKeepsInv ==
  ASSUME IInv, NEW n \in Customer, ImproveBy(n)
  PROVE  IInv'
<1> DEFINE t == At(current).move[n]
           opening == held /\ Opens(t)
<1>1. /\ UNCHANGED <<graph, profile, kappa, budget, late>>
      /\ pc = "select" /\ current' = t /\ Improves(t)
      /\ active' = ActiveNeighborhoods(budget, held)
  BY DEF ImproveBy, AcceptMove, question
<1>2. held' = (held /\ ~Opens(t))
  BY DEF ImproveBy
<1>3. \/ opening /\ pc' = "propose" /\ phase' = "opening" /\ allowance' = 1
      \/ ~opening /\ UNCHANGED <<pc, phase, allowance>>
  BY DEF ImproveBy, Probe
<1>4. t \in DOMAIN graph
  BY <1>1, MovesStayInGraph DEF IInv
<1>5. held' \in BOOLEAN /\ (held' => held) /\ (opening => held /\ ~held') /\ (~opening => held' = held)
  <2>1. held \in BOOLEAN
    BY DEF IInv, Typed
  <2>2. QED
    BY <1>2, <2>1, Zenon
<1> HIDE DEF t, opening
<1>6. budget \in Nat /\ (held => budget > 0 /\ profile = "cooperative")
  BY DEF IInv, Typed, ByProfile, ReserveBacked
<1>7. /\ Customer \subseteq active' /\ active' \subseteq Customer \cup {PathNeighborhood}
      /\ PathNeighborhood \notin active' => OrdinaryAllowance(budget, held) = 0
      /\ OrdinaryAllowance(budget, FALSE) = budget
  BY <1>1, ReopenedNeighborhoods DEF IInv, Typed
<1>8. Typed' /\ ByProfile'
  BY <1>1, <1>3, <1>4, <1>5, <1>6, <1>7 DEF IInv, Typed, ByProfile
<1>9. ReserveBacked'
  <2>1. CASE opening
    <3>1. held' = FALSE
      BY <1>5, <2>1
    <3>2. OrdinaryAllowance(budget', held') = budget
      BY <1>1, <1>7, <3>1
    <3>3. QED
      BY <1>3, <1>5, <1>6, <2>1, <3>1, <3>2 DEF ReserveBacked
  <2>2. CASE ~opening
    BY <1>1, <1>3, <1>5, <1>6, <2>2 DEF ReserveBacked
  <2>3. QED
    BY <2>1, <2>2
<1>10. ClosedHasFailed' /\ ProbesSpendAll' /\ EndsExhausted'
  BY <1>1, <1>3, <1>7 DEF ClosedHasFailed, ProbesSpendAll, EndsExhausted
<1>11. ClosedIsSpent'
  BY <1>1, <1>3, <1>5, <1>7 DEF ClosedIsSpent
<1>12. QED
  BY <1>8, <1>9, <1>10, <1>11 DEF IInv

\* A neighbourhood found exhausted keeps the invariant.
LEMMA ExhaustKeepsInv ==
  ASSUME IInv, NEW n \in Customer, Exhaust(n)
  PROVE  IInv'
<1>1. /\ UNCHANGED <<graph, profile, kappa, pc, current, budget, held, drawn, phase,
                      allowance, late>>
      /\ pc = "select" /\ active' = active \ {n} /\ ~late
      /\ ~Improves(At(current).move[n])
  BY DEF Exhaust, question
<1>2. Typed' /\ ByProfile' /\ ReserveBacked' /\ ProbesSpendAll' /\ EndsExhausted'
  BY <1>1 DEF IInv, Typed, ByProfile, ReserveBacked, ProbesSpendAll, EndsExhausted
<1>3. ClosedHasFailed'
  BY <1>1 DEF IInv, ClosedHasFailed, Improves, At
<1>4. ClosedIsSpent'
  BY <1>1 DEF IInv, ClosedIsSpent, Gaps, At, Customer, PathNeighborhood
<1>5. QED
  BY <1>2, <1>3, <1>4 DEF IInv

\* Opening an ordinary probe keeps the invariant.
LEMMA OrdinaryProbeKeepsInv == IInv /\ OrdinaryProbe => IInv'
<1> SUFFICES ASSUME IInv, OrdinaryProbe PROVE IInv'
  OBVIOUS
<1>1. /\ UNCHANGED <<graph, profile, kappa, current, budget, held, drawn, active, late>>
      /\ pc = "select" /\ profile = "cooperative" /\ ~late
      /\ pc' = "propose" /\ phase' = "ordinary"
      /\ allowance' = OrdinaryAllowance(budget, held)
  BY DEF OrdinaryProbe, Probe, question
<1>2. allowance' \in Nat
  BY <1>1 DEF IInv, Typed, OrdinaryAllowance
<1>3. Typed' /\ ByProfile'
  BY <1>1, <1>2 DEF IInv, Typed, ByProfile
<1>4. ReserveBacked'
  BY <1>1, <1>2 DEF IInv, ReserveBacked
<1>5. ClosedHasFailed'
  BY <1>1 DEF IInv, ClosedHasFailed, Improves, At
<1>6. ClosedIsSpent' /\ ProbesSpendAll' /\ EndsExhausted'
  BY <1>1 DEF ClosedIsSpent, ProbesSpendAll, EndsExhausted
<1>7. QED
  BY <1>3, <1>4, <1>5, <1>6 DEF IInv

\* One replaced path of the fixed profile keeps the invariant.
LEMMA ReplaceOnceKeepsInv ==
  ASSUME IInv, NEW g, NEW t, ReplaceOnce(g, t)
  PROVE  IInv'
<1>1. /\ UNCHANGED <<graph, profile, kappa, pc, budget, held, phase, allowance, late>>
      /\ pc = "select" /\ profile = "fixed" /\ g \in Gaps(current)
      /\ t \in At(current).path[g] \/ t = NoCandidate
      /\ ~late
  BY DEF ReplaceOnce, question
<1>2. \/ /\ current' = t /\ t # NoCandidate
         /\ active' = ActiveNeighborhoods(0, FALSE)
      \/ current' = current /\ active' = active \ {PathNeighborhood}
  BY DEF ReplaceOnce, AcceptMove, Improves
<1>3. current' \in DOMAIN graph
  BY <1>1, <1>2, PathsStayInGraph DEF IInv, Typed
<1>4. ActiveNeighborhoods(0, FALSE) = Customer \cup {PathNeighborhood}
  BY <1>1 DEF ActiveNeighborhoods
<1>5. Typed' /\ ByProfile' /\ ReserveBacked' /\ ProbesSpendAll' /\ ClosedIsSpent' /\ EndsExhausted'
  BY <1>1, <1>2, <1>3, <1>4
  DEF IInv, Typed, ByProfile, ReserveBacked, ProbesSpendAll, ClosedIsSpent, EndsExhausted
<1>6. ClosedHasFailed'
  <2>1. CASE Customer \subseteq active'
    BY <2>1 DEF ClosedHasFailed
  <2>2. CASE current' = current /\ active' = active \ {PathNeighborhood}
    <3>1. Customer \ active' = Customer \ active
      BY <2>2 DEF Customer, PathNeighborhood
    <3>2. QED
      BY <1>1, <2>2, <3>1 DEF IInv, ClosedHasFailed, Improves, At
  <2>3. QED
    BY <1>2, <1>4, <2>1, <2>2
<1>7. QED
  BY <1>5, <1>6 DEF IInv

\* Spending the token at stagnation keeps the invariant.
LEMMA StagnateKeepsInv == IInv /\ Stagnate => IInv'
<1> SUFFICES ASSUME IInv, Stagnate PROVE IInv'
  OBVIOUS
<1>1. /\ UNCHANGED <<graph, profile, kappa, current, budget, drawn, active, late>>
      /\ pc = "select" /\ ~late /\ active = {} /\ held /\ held' = FALSE
      /\ pc' = "propose" /\ phase' = "tail" /\ allowance' = 1
  BY DEF Stagnate, Probe, question
<1>2. budget \in Nat /\ budget > 0 /\ profile = "cooperative"
  BY <1>1 DEF IInv, Typed, ReserveBacked, ByProfile
<1>3. Typed' /\ ByProfile'
  BY <1>1, <1>2 DEF IInv, Typed, ByProfile
<1>4. OrdinaryAllowance(budget', held') = budget
  BY <1>1 DEF OrdinaryAllowance
<1>5. ReserveBacked'
  BY <1>1, <1>2, <1>4 DEF ReserveBacked
<1>6. ClosedHasFailed'
  BY <1>1 DEF IInv, ClosedHasFailed, Improves, At
<1>7. OrdinaryAllowance(budget, held) = 0 \/ drawn = Gaps(current)
  BY <1>1, <1>2 DEF IInv, ClosedIsSpent
<1>8. ProbesSpendAll'
  <2>1. budget <= 1 \/ drawn = Gaps(current)
    BY <1>1, <1>2, <1>7 DEF OrdinaryAllowance
  <2>2. QED
    BY <1>1, <2>1 DEF ProbesSpendAll, Gaps, At
<1>9. ClosedIsSpent' /\ EndsExhausted'
  BY <1>1 DEF ClosedIsSpent, EndsExhausted
<1>10. QED
  BY <1>3, <1>5, <1>6, <1>8, <1>9 DEF IInv

\* Leaving the descent keeps the invariant.
LEMMA LeaveKeepsInv == IInv /\ Leave => IInv'
<1> SUFFICES ASSUME IInv, Leave PROVE IInv'
  OBVIOUS
<1>1. /\ UNCHANGED <<graph, profile, kappa, current, budget, held, drawn, phase, allowance,
                      active, late>>
      /\ pc = "select" /\ pc' = "done" /\ (late \/ (active = {} /\ ~held))
  BY DEF Leave, question
<1>2. Typed' /\ ByProfile' /\ ReserveBacked' /\ ClosedHasFailed' /\ ClosedIsSpent' /\ ProbesSpendAll'
  BY <1>1 DEF IInv, Typed, ByProfile, ReserveBacked, ClosedHasFailed, ClosedIsSpent, ProbesSpendAll
<1>3. EndsExhausted'
  <2> SUFFICES ASSUME ~late
               PROVE  /\ \A n \in Customer : ~Improves(At(current).move[n])'
                      /\ profile = "cooperative" => (budget = 0 \/ drawn = Gaps(current))'
    BY <1>1 DEF EndsExhausted
  <2>1. \A n \in Customer : ~Improves(At(current).move[n])
    BY <1>1 DEF IInv, ClosedHasFailed
  <2>2. profile = "cooperative" => budget = 0 \/ drawn = Gaps(current)
    BY <1>1 DEF IInv, ClosedIsSpent, OrdinaryAllowance
  <2>3. QED
    BY <1>1, <2>1, <2>2 DEF Improves, At, Gaps
<1>4. QED
  BY <1>2, <1>3 DEF IInv
-----------------------------------------------------------------------------
(* The fixed-order and the adaptive profile own no tokens.                 *)
LEMMA OtherStepsKeepInv ==
  ASSUME IInv,
         StartFixed \/ StartAdaptive \/ StageImprove \/ StageEnds
           \/ PathImproves \/ PathStageEnds \/ StagesEnd
  PROVE  IInv'
<1>1. CASE StartFixed
  <2>1. /\ UNCHANGED <<graph, profile, kappa, current, budget, held, drawn, phase, allowance, late>>
        /\ profile = "fixed" /\ pc' = "select"
        /\ active' = Customer \cup {PathNeighborhood}
    BY <1>1 DEF StartFixed, ActiveNeighborhoods, question
  <2>2. QED
    BY <2>1 DEF IInv, Typed, ByProfile, ReserveBacked, ClosedHasFailed, ClosedIsSpent,
                ProbesSpendAll, EndsExhausted
<1>2. CASE StageImprove \/ PathImproves
  <2>1. /\ UNCHANGED <<graph, profile, kappa, pc, budget, held, phase, allowance, active, late>>
        /\ pc \in {"stage", "inserted", "final"}
    BY <1>2 DEF StageImprove, PathImproves, question
  <2>2. current' \in DOMAIN graph
    <3>1. CASE StageImprove
      <4>1. Min(active) \in active
        <5>1. active \subseteq 1 .. 4 /\ active # {}
          BY <3>1 DEF StageImprove, IInv, Typed, Customer, PathNeighborhood
        <5>2. \E x \in active : \A y \in active : x <= y
          <6>1. CASE 1 \in active
            BY <5>1, <6>1
          <6>2. CASE 1 \notin active /\ 2 \in active
            BY <5>1, <6>2
          <6>3. CASE 1 \notin active /\ 2 \notin active /\ 3 \in active
            BY <5>1, <6>3
          <6>4. CASE 1 \notin active /\ 2 \notin active /\ 3 \notin active
            <7>1. \A x \in active : x \in Int /\ 1 <= x /\ x <= 4 /\ x # 1 /\ x # 2 /\ x # 3
              BY <5>1, <6>4
            <7>2. \A x \in active : x = 4
              BY <7>1
            <7>3. PICK x \in active : TRUE
              BY <5>1
            <7>4. QED
              BY <7>2, <7>3
          <6>5. QED
            BY <6>1, <6>2, <6>3, <6>4
        <5>3. QED
          BY <5>2 DEF Min
      <4>2. Min(active) \in Customer
        <5>1. pc = "stage"
          BY <3>1 DEF StageImprove
        <5>2. active \subseteq Customer
          BY <5>1 DEF IInv, ByProfile
        <5>3. QED
          BY <4>1, <5>2
      <4>3. /\ Improves(At(current).move[Min(active)])
            /\ current' = At(current).move[Min(active)]
        BY <3>1 DEF StageImprove, AcceptMove
      <4>4. QED
        BY <4>2, <4>3, MovesStayInGraph DEF IInv
    <3>2. CASE PathImproves
      <4>1. PICK g \in Gaps(current) : \E t \in At(current).path[g] : AcceptMove(t)
        BY <3>2 DEF PathImproves
      <4>2. PICK t \in At(current).path[g] : AcceptMove(t)
        BY <4>1
      <4>3. t \in DOMAIN graph
        BY PathsStayInGraph DEF IInv
      <4>4. QED
        BY <4>2, <4>3 DEF AcceptMove
    <3>3. QED
      BY <1>2, <3>1, <3>2
  <2>3. QED
    BY <2>1, <2>2 DEF IInv, Typed, ByProfile, ReserveBacked, ClosedHasFailed, ClosedIsSpent,
                      ProbesSpendAll, EndsExhausted
<1>3. CASE StartAdaptive \/ StageEnds \/ PathStageEnds \/ StagesEnd
  <2>1. /\ UNCHANGED <<graph, profile, kappa, current, budget, held, drawn, phase, allowance, late>>
        /\ profile = "adaptive" /\ pc' \in {"stage", "inserted", "final", "done"}
        /\ active' \subseteq active \cup Customer
        /\ pc' \in {"stage", "inserted"} => active' \subseteq Customer
    BY <1>3 DEF StartAdaptive, StageEnds, PathStageEnds, StagesEnd, question, IInv, ByProfile
  <2>2. QED
    BY <2>1 DEF IInv, Typed, ByProfile, ReserveBacked, ClosedHasFailed, ClosedIsSpent,
                ProbesSpendAll, EndsExhausted
<1>4. QED
  BY <1>1, <1>2, <1>3

(* A deadline that passes, and a step of nothing.                          *)
LEMMA ExpireKeepsInv == IInv /\ (Expire \/ UNCHANGED descentVars) => IInv'
<1> SUFFICES ASSUME IInv, Expire \/ UNCHANGED descentVars PROVE IInv'
  OBVIOUS
<1>1. UNCHANGED <<graph, profile, kappa, pc, current, budget, held, drawn, phase, allowance, active>>
  BY DEF Expire, descentVars, question
<1>2. late' = late \/ (late' = TRUE)
  BY DEF Expire, descentVars
<1>3. Typed' /\ ByProfile' /\ ReserveBacked' /\ ProbesSpendAll'
  BY <1>1, <1>2 DEF IInv, Typed, ByProfile, ReserveBacked, ProbesSpendAll, At, Gaps
<1>4. ClosedHasFailed' /\ ClosedIsSpent'
  BY <1>1, <1>2 DEF IInv, ClosedHasFailed, ClosedIsSpent, Improves, At, Gaps
<1>5. EndsExhausted'
  BY <1>1, <1>2 DEF IInv, EndsExhausted, Improves, At, Gaps
<1>6. QED
  BY <1>3, <1>4, <1>5 DEF IInv
-----------------------------------------------------------------------------
(* Every step of the descent keeps the invariant.                          *)
LEMMA StepKeepsInv == IInv /\ [DescentNext]_descentVars => IInv'
<1> SUFFICES ASSUME IInv, [DescentNext]_descentVars PROVE IInv'
  OBVIOUS
<1>1. CASE Enter
  BY <1>1, EnterKeepsInv
<1>2. CASE \E g \in Gaps(current) : \E t \in DOMAIN graph \cup {NoCandidate} :
             ProposeInVain(g, t) \/ ProposeWell(g, t) \/ ReplaceOnce(g, t)
  BY <1>2, ProposeInVainKeepsInv, ProposeWellKeepsInv, ReplaceOnceKeepsInv
<1>3. CASE ProbeFails
  BY <1>3, ProbeFailsKeepsInv
<1>4. CASE \E n \in Customer : ImproveBy(n) \/ Exhaust(n)
  BY <1>4, ImproveByKeepsInv, ExhaustKeepsInv
<1>5. CASE OrdinaryProbe \/ Stagnate \/ Leave
  BY <1>5, OrdinaryProbeKeepsInv, StagnateKeepsInv, LeaveKeepsInv
<1>6. CASE \/ StartFixed \/ StartAdaptive \/ StageImprove \/ StageEnds
           \/ PathImproves \/ PathStageEnds \/ StagesEnd
  BY <1>6, OtherStepsKeepInv
<1>7. CASE Expire \/ UNCHANGED descentVars
  BY <1>7, ExpireKeepsInv
<1>8. QED
  BY <1>1, <1>2, <1>3, <1>4, <1>5, <1>6, <1>7 DEF DescentNext, Advance

(* The inductive invariant of the descent, for every graph of solutions,   *)
(* profile and removal count (improve of search.cpp).                      *)
THEOREM DescentInvariant == DescentSpec => []IInv
BY InitIsInv, StepKeepsInv, PTL DEF DescentSpec

(* The token kept for the first opened route is backed by the budget, and  *)
(* no probe may spend it (opening_reserve of improve).                     *)
THEOREM TokensAreBacked == DescentSpec => []ReserveBacked
<1>1. IInv => ReserveBacked
  BY DEF IInv
<1>2. QED
  BY <1>1, DescentInvariant, PTL

(* A descent that the deadline does not cut off leaves no neighbourhood    *)
(* with an improvement and no proposal unspent.                            *)
THEOREM DescentEndsExhausted == DescentSpec => []EndsExhausted
<1>1. IInv => EndsExhausted
  BY DEF IInv
<1>2. QED
  BY <1>1, DescentInvariant, PTL
-----------------------------------------------------------------------------
Clocked == clock \in Nat /\ spent \in Nat

\* The types of the constants of the budget.
LEMMA Constants ==
  /\ Limit \in Nat /\ Guard \in Nat /\ Deadline \in Nat /\ Overrun \in Nat
  /\ CallTimes \subseteq Nat
BY BudgetType
-----------------------------------------------------------------------------
(* The budget.                                                             *)

\* A call is given what is left of the budget, and overruns its deadline by
\* no more than Overrun.
LEMMA CallStaysInBudget ==
  ASSUME Clocked, NEW time \in Nat, ~BudgetExhausted, clock + time <= LocalDeadline + Overrun
  PROVE  spent + time <= Limit + Overrun
<1>1. Limit - spent > 0 /\ Limit - spent \in Int
  BY Constants DEF Clocked, BudgetExhausted
<1>2. Larger(0, Limit - spent) = Limit - spent
  BY <1>1 DEF Larger
<1>3. LocalDeadline <= clock + (Limit - spent)
  BY <1>1, <1>2, Constants DEF LocalDeadline, Smaller, Clocked
<1>4. LocalDeadline \in Int
  BY <1>1, <1>2, Constants DEF LocalDeadline, Smaller, Clocked
<1> QED BY <1>1, <1>3, <1>4, Constants DEF Clocked

\* No call of the charging model breaks the budget.
LEMMA BudgetKept ==
  ASSUME Clocked, OverdrawnOnce, [Next]_vars
  PROVE  Clocked' /\ OverdrawnOnce'
<1>1. CASE Refine
  <2>1. PICK time \in CallTimes : /\ clock + time <= LocalDeadline + Overrun
                                  /\ clock' = clock + time /\ spent' = spent + time
    BY <1>1 DEF Refine
  <2>2. time \in Nat /\ ~BudgetExhausted
    BY <1>1, Constants DEF Refine
  <2>3. spent + time <= Limit + Overrun
    BY <2>1, <2>2, CallStaysInBudget
  <2> QED BY <2>1, <2>2, <2>3 DEF Clocked, OverdrawnOnce
<1>2. CASE StartRound
  BY <1>2 DEF StartRound, Clocked, OverdrawnOnce
<1>3. CASE LeaveRound \/ SkipRest \/ UNCHANGED vars
  BY <1>3 DEF LeaveRound, SkipRest, EndRound, vars, Clocked, OverdrawnOnce
<1> QED BY <1>1, <1>2, <1>3 DEF Next

\* The wall budget of a run is overdrawn by no more than one call's overrun
\* (frvcp_active_budget.hpp, and the loop of assemble_routes).
THEOREM BudgetHolds == Spec => []OverdrawnOnce
<1>1. Init => Clocked /\ OverdrawnOnce
  BY Constants DEF Init, Clocked, OverdrawnOnce
<1>2. Clocked /\ OverdrawnOnce /\ [Next]_vars => (Clocked /\ OverdrawnOnce)'
  BY BudgetKept
<1> QED BY <1>1, <1>2, PTL DEF Spec
-----------------------------------------------------------------------------
(* The memo.                                                               *)

\* Only an optimum that the model proved is final.
LEMMA FinalIsOptimal ==
  ASSUME NEW plan, NEW isLate, NEW answer \in Answers(plan, isLate), answer.final
  PROVE  answer.plan \in {Certified(p) : p \in ModelOf(Request(plan)).optima}
<1>1. answer \in Solved(plan, isLate)
  BY DEF Answers, Answer
<1>2. \E p \in ModelOf(Request(plan)).optima : answer = Answer(Certified(p), TRUE)
  BY <1>1 DEF Solved, Answer
<1> QED BY <1>2 DEF Answer

\* No call puts anything in the memo but a proved optimum of its request.
LEMMA MemoKept ==
  ASSUME MemoIsFinal, [Next]_vars
  PROVE  MemoIsFinal'
<1>1. models' = models
  BY DEF Next, StartRound, LeaveRound, SkipRest, EndRound, Refine, vars
<1>2. CASE memo' = memo
  BY <1>1, <1>2 DEF MemoIsFinal, ModelOf
<1>3. CASE Refine
  <2> DEFINE plan == selected[index]
  <2>1. \E isLate : \E answer \in Answers(plan, isLate) : Remember(plan, answer)
    <3>1. PICK time \in CallTimes :
            \E answer \in Answers(plan, clock + time >= LocalDeadline) : Remember(plan, answer)
      BY <1>3 DEF Refine
    <3> QED BY <3>1
  <2>2. PICK isLate : \E answer \in Answers(plan, isLate) : Remember(plan, answer)
    BY <2>1
  <2>3. PICK answer \in Answers(plan, isLate) : Remember(plan, answer)
    BY <2>2
  <2>4. CASE answer.final
    <3> HIDE DEF plan
    <3>1. memo' = [r \in DOMAIN memo \cup {Request(plan)} |->
                     IF r = Request(plan) THEN answer.plan ELSE memo[r]]
      BY <2>3, <2>4 DEF Remember
    <3>2. answer.plan \in {Certified(p) : p \in ModelOf(Request(plan)).optima}
      BY <2>3, <2>4, FinalIsOptimal
    <3>3. ASSUME NEW r \in DOMAIN memo'
          PROVE  memo'[r] \in {Certified(p) : p \in ModelOf(r).optima}
      <4>1. CASE r = Request(plan)
        BY <3>1, <3>2, <4>1
      <4>2. CASE r # Request(plan)
        BY <3>1, <3>3, <4>2 DEF MemoIsFinal
      <4> QED BY <4>1, <4>2
    <3> QED BY <1>1, <3>3 DEF MemoIsFinal, ModelOf
  <2>5. CASE ~answer.final
    BY <1>2, <2>3, <2>5 DEF Remember
  <2> QED BY <2>4, <2>5
<1> QED BY <1>2, <1>3 DEF Next, StartRound, LeaveRound, SkipRest, EndRound, vars

\* What the memo answers to a request is a proved optimum of the model of that
\* request, however little time the call had that stored it (model_cache_).
THEOREM MemoHolds == Spec => []MemoIsFinal
<1>1. Init => MemoIsFinal
  BY DEF Init, MemoIsFinal
<1>2. MemoIsFinal /\ [Next]_vars => MemoIsFinal'
  BY MemoKept
<1> QED BY <1>1, <1>2, PTL DEF Spec
-----------------------------------------------------------------------------
(* The next insertion.  Keys of moves are triples of integers.             *)

\* How triples are ordered.
TripleBefore(s, t) ==
  s[1] < t[1] \/ (s[1] = t[1] /\ (s[2] < t[2] \/ (s[2] = t[2] /\ s[3] < t[3])))

\* On triples the lexicographic order is the nested comparison of std::tie.
LEMMA TripleOrder ==
  ASSUME NEW s \in Int \X Int \X Int, NEW t \in Int \X Int \X Int
  PROVE  LexLess(s, t) <=> TripleBefore(s, t)
<1>1. PICK a \in Int, b \in Int, c \in Int : s = <<a, b, c>>
  OBVIOUS
<1>2. PICK d \in Int, e \in Int, f \in Int : t = <<d, e, f>>
  OBVIOUS
<1>3. Len(s) = 3 /\ DOMAIN s = 1..3 /\ DOMAIN t = 1..3
  BY <1>1, <1>2
<1>4. ASSUME NEW k \in 1..3
      PROVE  LessAt(s, t, k) <=> s[k] < t[k] /\ \A j \in 1 .. k - 1 : s[j] = t[j]
  BY <1>3 DEF LessAt
<1>5. LessAt(s, t, 1) <=> s[1] < t[1]
  BY <1>4
<1>6. LessAt(s, t, 2) <=> s[2] < t[2] /\ s[1] = t[1]
  <2>1. 1 .. 2 - 1 = {1}
    OBVIOUS
  <2> QED BY <1>4, <2>1
<1>7. LessAt(s, t, 3) <=> s[3] < t[3] /\ s[1] = t[1] /\ s[2] = t[2]
  <2>1. 1 .. 3 - 1 = {1, 2}
    OBVIOUS
  <2> QED BY <1>4, <2>1
<1>8. LexLess(s, t) <=> LessAt(s, t, 1) \/ LessAt(s, t, 2) \/ LessAt(s, t, 3)
  <2>1. DOMAIN t = {1, 2, 3}
    BY <1>3
  <2> QED BY <2>1 DEF LexLess
<1> QED BY <1>5, <1>6, <1>7, <1>8 DEF TripleBefore

Moves == UNION {MovesOf(c) : c \in DOMAIN board}

ChoiceTyped ==
  /\ board \in Boards
  /\ order \in [DOMAIN board -> DOMAIN board]
  /\ twoRegret \in BOOLEAN
  /\ turn \in 1 .. Len(order) + 1

\* A board lists moves for every customer.
LEMMA BoardFacts ==
  ASSUME board \in Boards
  PROVE  /\ Len(board) \in Nat \ {0} /\ DOMAIN board = 1 .. Len(board)
         /\ \A c \in DOMAIN board :
              /\ Len(board[c]) \in Nat \ {0} /\ DOMAIN board[c] = 1 .. Len(board[c])
              /\ \A i \in DOMAIN board[c] :
                   /\ board[c][i].direct \in Int /\ board[c][i].bound \in Int
                   /\ board[c][i].delta \in Int /\ board[c][i].delta # Unrivalled
                   /\ board[c][i].bound <= board[c][i].delta + Safety
<1>1. PICK M : M = [direct : Int, bound : Int, delta : Int \ {Unrivalled}]
  OBVIOUS
<1>2. board \in Seq(Seq(M)) /\ board # << >> /\ \A c \in DOMAIN board : board[c] # << >>
  BY <1>1, ChoiceAssumption
<1>3. Len(board) \in Nat /\ DOMAIN board = 1 .. Len(board)
  BY <1>2
<1>4. Len(board) # 0
  BY <1>2, <1>3
<1>5. ASSUME NEW c \in DOMAIN board
      PROVE  /\ board[c] \in Seq(M) /\ board[c] # << >>
             /\ Len(board[c]) \in Nat \ {0} /\ DOMAIN board[c] = 1 .. Len(board[c])
  <2>1. board[c] \in Seq(M) /\ board[c] # << >>
    BY <1>2
  <2> QED BY <2>1
<1>6. ASSUME NEW c \in DOMAIN board, NEW i \in DOMAIN board[c]
      PROVE  /\ board[c][i].direct \in Int /\ board[c][i].bound \in Int
             /\ board[c][i].delta \in Int /\ board[c][i].delta # Unrivalled
  <2>1. board[c][i] \in M
    BY <1>5
  <2> QED BY <1>1, <2>1
<1> QED BY <1>3, <1>4, <1>5, <1>6, BoundsAreSafe

\* Some of the moves of a board, at least one.
Some(S) == S \subseteq Moves /\ S # {}

\* What is known of a move.
LEMMA MoveFacts ==
  ASSUME board \in Boards
  PROVE  /\ IsFiniteSet(Moves)
         /\ \A c \in DOMAIN board : Some(MovesOf(c))
         /\ \A m \in Moves :
              /\ m = <<m[1], m[2]>> /\ m[1] \in Int /\ m[2] \in Int /\ m[1] \in DOMAIN board
              /\ m # None.move
              /\ Entry(m).direct \in Int /\ Entry(m).bound \in Int
              /\ Entry(m).delta \in Int /\ Entry(m).delta # Unrivalled
              /\ Entry(m).bound <= Entry(m).delta + Safety
<1>1. ASSUME NEW c \in DOMAIN board
      PROVE  IsFiniteSet(MovesOf(c)) /\ Some(MovesOf(c))
  <2>1. IsFiniteSet({c})
    BY FS_Singleton
  <2>2. IsFiniteSet(DOMAIN board[c])
    BY BoardFacts, FS_Interval
  <2>3. <<c, 1>> \in MovesOf(c)
    BY BoardFacts DEF MovesOf
  <2>4. IsFiniteSet(MovesOf(c))
    BY <2>1, <2>2, FS_Product DEF MovesOf
  <2> QED BY <2>3, <2>4 DEF Some, Moves
<1>2. PICK F : F = [c \in DOMAIN board |-> MovesOf(c)]
  OBVIOUS
<1>3. IsFiniteSet({MovesOf(c) : c \in DOMAIN board})
  <2>1. IsFiniteSet(DOMAIN board)
    BY BoardFacts, FS_Interval
  <2>2. F \in Surjection(DOMAIN board, {MovesOf(c) : c \in DOMAIN board})
    BY <1>2 DEF Surjection
  <2> QED BY <2>1, <2>2, FS_Surjection
<1>4. IsFiniteSet(Moves)
  BY <1>1, <1>3, FS_UNION DEF Moves
<1>5. ASSUME NEW m \in Moves
      PROVE  /\ m = <<m[1], m[2]>> /\ m[1] \in DOMAIN board /\ m[2] \in DOMAIN board[m[1]]
             /\ m[1] \in Int /\ m[2] \in Int /\ m[1] # 0
  <2>1. PICK c \in DOMAIN board : m \in {c} \X DOMAIN board[c]
    BY DEF Moves, MovesOf
  <2>2. m[1] = c /\ m[2] \in DOMAIN board[c] /\ m = <<m[1], m[2]>>
    BY <2>1
  <2> QED BY <2>2, BoardFacts
<1>6. \A m \in Moves : m # None.move
  BY <1>5 DEF None
<1> QED BY <1>1, <1>4, <1>5, <1>6, BoardFacts DEF Entry

\* The first of some moves by a key that begins with a value.
First(m, S, value) == \A n \in S \ {m} : TripleBefore(<<value[m], m[1], m[2]>>, <<value[n], n[1], n[2]>>)

\* Some moves have a first one, and it has the least value.
LEMMA FirstOfSome ==
  ASSUME board \in Boards, NEW S, Some(S), NEW value, \A m \in S : value[m] \in Int
  PROVE  \E m \in S : First(m, S, value)
<1>1. PICK key : key = [m \in S |-> <<value[m], m[1], m[2]>>]
  OBVIOUS
<1>2. \A m \in S : /\ m = <<m[1], m[2]>> /\ m[1] \in Int /\ m[2] \in Int
                   /\ key[m] = <<value[m], m[1], m[2]>> /\ key[m] \in Int \X Int \X Int
  BY <1>1, MoveFacts DEF Some
<1>3. TellsApart(key, S)
  <2>1. ASSUME NEW m \in S
        PROVE  key[m] \in Seq(Int)
    <3>1. PICK a \in Int, b \in Int, c \in Int : key[m] = <<a, b, c>>
      BY <1>2
    <3> QED BY <3>1
  <2>2. ASSUME NEW m \in S, NEW n \in S, key[m] = key[n]
        PROVE  m = n
    <3>1. m[1] = n[1] /\ m[2] = n[2]
      BY <1>2, <2>2
    <3> QED BY <1>2, <3>1
  <2> QED BY <2>1, <2>2 DEF TellsApart
<1>4. IsFiniteSet(S) /\ S # {}
  BY MoveFacts, FS_Subset DEF Some
<1>5. PICK m \in S : \A n \in S \ {m} : LexLess(key[m], key[n])
  BY <1>3, <1>4, LeastByKey
<1>6. ASSUME NEW n \in S \ {m}
      PROVE  TripleBefore(key[m], key[n])
  BY <1>2, <1>5, TripleOrder
<1> QED BY <1>2, <1>6 DEF First

\* The best of some moves is one of them, has the least cost, and is the only
\* one before all others.
LEMMA BestOfSome ==
  ASSUME board \in Boards, NEW S, Some(S)
  PROVE  /\ Best(S) \in S
         /\ \A n \in S : Entry(Best(S)).delta <= Entry(n).delta
         /\ \A m \in S : First(m, S, [n \in S |-> Entry(n).delta]) => m = Best(S)
<1>1. PICK value : value = [n \in S |-> Entry(n).delta]
  OBVIOUS
<1>2. \A m \in S : /\ value[m] \in Int /\ value[m] = Entry(m).delta
                   /\ m[1] \in Int /\ m[2] \in Int
                   /\ DeltaKey(m) = <<value[m], m[1], m[2]>> /\ DeltaKey(m) \in Int \X Int \X Int
  BY <1>1, MoveFacts DEF Some, DeltaKey
<1>3. ASSUME NEW m \in S
      PROVE  (\A n \in S \ {m} : LexLess(DeltaKey(m), DeltaKey(n))) <=> First(m, S, value)
  <2>1. \A n \in S \ {m} : LexLess(DeltaKey(m), DeltaKey(n)) <=> TripleBefore(DeltaKey(m), DeltaKey(n))
    BY <1>2, TripleOrder
  <2> QED BY <1>2, <2>1 DEF First
<1>4. \E m \in S : First(m, S, value)
  BY <1>2, FirstOfSome
<1>5. Best(S) \in S /\ First(Best(S), S, value)
  <2>1. \E m \in S : \A n \in S \ {m} : LexLess(DeltaKey(m), DeltaKey(n))
    BY <1>3, <1>4
  <2>2. Best(S) \in S /\ \A n \in S \ {Best(S)} : LexLess(DeltaKey(Best(S)), DeltaKey(n))
    BY <2>1 DEF Best, Least
  <2> QED BY <1>3, <2>2
<1>6. ASSUME NEW n \in S
      PROVE  value[Best(S)] <= value[n]
  BY <1>2, <1>5 DEF First, TripleBefore
<1>7. ASSUME NEW m \in S, First(m, S, value), m # Best(S)
      PROVE  FALSE
  <2>1. /\ TripleBefore(<<value[m], m[1], m[2]>>, <<value[Best(S)], Best(S)[1], Best(S)[2]>>)
        /\ TripleBefore(<<value[Best(S)], Best(S)[1], Best(S)[2]>>, <<value[m], m[1], m[2]>>)
    BY <1>5, <1>7 DEF First
  <2>2. PICK b \in S : b = Best(S)
    BY <1>5
  <2> QED BY <1>2, <2>1, <2>2 DEF TripleBefore
<1> QED BY <1>1, <1>2, <1>5, <1>6, <1>7

\* The first by the direct cost is one of the moves.
LEMMA DirectOfSome ==
  ASSUME board \in Boards, NEW S, Some(S)
  PROVE  Least(S, DirectKey) \in S
<1>1. PICK value : value = [n \in S |-> Entry(n).direct]
  OBVIOUS
<1>2. \A m \in S : /\ value[m] \in Int /\ m[1] \in Int /\ m[2] \in Int
                   /\ DirectKey(m) = <<value[m], m[1], m[2]>> /\ DirectKey(m) \in Int \X Int \X Int
  BY <1>1, MoveFacts DEF Some, DirectKey
<1>3. PICK m \in S : First(m, S, value)
  BY <1>2, FirstOfSome
<1>4. \A n \in S \ {m} : LexLess(DirectKey(m), DirectKey(n))
  BY <1>2, <1>3, TripleOrder DEF First
<1> QED BY <1>4 DEF Least

\* The queue gives out a move with the least bound.
LEMMA BoundOfSome ==
  ASSUME board \in Boards, NEW S, Some(S)
  PROVE  /\ Least(S, BoundKey) \in S
         /\ \A n \in S : Entry(Least(S, BoundKey)).bound <= Entry(n).bound
<1>1. PICK value : value = [n \in S |-> Entry(n).bound]
  OBVIOUS
<1>2. \A m \in S : /\ value[m] \in Int /\ m[1] \in Int /\ m[2] \in Int /\ value[m] = Entry(m).bound
                   /\ BoundKey(m) = <<value[m], m[1], m[2]>> /\ BoundKey(m) \in Int \X Int \X Int
  BY <1>1, MoveFacts DEF Some, BoundKey
<1>3. PICK m \in S : First(m, S, value)
  BY <1>2, FirstOfSome
<1>4. \A n \in S \ {m} : LexLess(BoundKey(m), BoundKey(n))
  BY <1>2, <1>3, TripleOrder DEF First
<1>5. PICK b : b = Least(S, BoundKey)
  OBVIOUS
<1>6. b \in S /\ \A n \in S \ {b} : LexLess(BoundKey(b), BoundKey(n))
  BY <1>4, <1>5 DEF Least
<1>7. ASSUME NEW n \in S
      PROVE  value[b] <= value[n]
  <2>1. CASE n = b
    BY <1>2, <1>6, <2>1
  <2>2. CASE n # b
    <3>1. TripleBefore(BoundKey(b), BoundKey(n))
      BY <1>2, <1>6, <2>2, TripleOrder
    <3> QED BY <1>2, <1>6, <3>1 DEF TripleBefore
  <2> QED BY <2>1, <2>2
<1> QED BY <1>2, <1>5, <1>6, <1>7

\* Dearer moves do not change the best.
LEMMA DearerLose ==
  ASSUME board \in Boards, NEW S, Some(S), NEW E, E \subseteq S, E # {},
         \A n \in S \ E : Entry(n).delta > Entry(Best(E)).delta
  PROVE  Best(S) = Best(E)
<1>1. Some(E)
  BY DEF Some
<1>2. PICK b : b = Best(E)
  OBVIOUS
<1>3. b \in E
  BY <1>1, <1>2, BestOfSome
<1>4. PICK value : value = [n \in S |-> Entry(n).delta]
  OBVIOUS
<1>5. \A m \in S : /\ value[m] \in Int /\ value[m] = Entry(m).delta /\ m[1] \in Int /\ m[2] \in Int
                   /\ DeltaKey(m) = <<value[m], m[1], m[2]>> /\ DeltaKey(m) \in Int \X Int \X Int
  BY <1>4, MoveFacts DEF Some, DeltaKey
<1>6. First(b, S, value)
  <2> SUFFICES ASSUME NEW n \in S \ {b}
               PROVE  TripleBefore(<<value[b], b[1], b[2]>>, <<value[n], n[1], n[2]>>)
    BY DEF First
  <2>1. CASE n \in E
    <3>1. \E m \in E : \A k \in E \ {m} : LexLess(DeltaKey(m), DeltaKey(k))
      <4>1. PICK m \in E : First(m, E, value)
        BY <1>1, <1>5, FirstOfSome
      <4>2. \A k \in E \ {m} : LexLess(DeltaKey(m), DeltaKey(k))
        BY <1>5, <4>1, TripleOrder DEF First
      <4> QED BY <4>2
    <3>2. LexLess(DeltaKey(b), DeltaKey(n))
      BY <1>2, <2>1, <3>1 DEF Best, Least
    <3> QED BY <1>3, <1>5, <3>2, TripleOrder
  <2>2. CASE n \notin E
    <3>1. value[n] > value[b]
      BY <1>2, <1>3, <1>5, <2>2
    <3> QED BY <1>3, <1>5, <3>1 DEF TripleBefore
  <2> QED BY <2>1, <2>2
<1> QED BY <1>2, <1>3, <1>4, <1>6, BestOfSome

\* A set has another element than its best exactly when its size is not one.
LEMMA SizeOfSome ==
  ASSUME board \in Boards, NEW S, Some(S)
  PROVE  /\ Cardinality(S) = 1 <=> S \ {Best(S)} = {}
         /\ Cardinality(S) \in Nat \ {0}
         /\ Cardinality(S) # 1 => Some(S \ {Best(S)}) /\ Second(S) \in Int /\ Second(S) # Unrivalled
                                  /\ Entry(Best(S)).delta <= Second(S)
         /\ Cardinality(S) = 1 => Second(S) = Unrivalled
<1>1. IsFiniteSet(S)
  BY MoveFacts, FS_Subset DEF Some
<1>2. Best(S) \in S
  BY BestOfSome
<1>3. Cardinality(S) = 1 <=> S \ {Best(S)} = {}
  BY <1>1, <1>2, FS_Singleton
<1>4. Cardinality(S) \in Nat \ {0}
  BY <1>1, <1>2, FS_CardinalityType, FS_EmptySet
<1>5. ASSUME Cardinality(S) # 1
      PROVE  Some(S \ {Best(S)}) /\ Second(S) \in Int /\ Second(S) # Unrivalled
             /\ Entry(Best(S)).delta <= Second(S)
  <2>1. PICK T : T = S \ {Best(S)}
    OBVIOUS
  <2>2. Some(T)
    BY <1>3, <1>5, <2>1 DEF Some
  <2>3. Best(T) \in T
    BY <2>2, BestOfSome
  <2>4. Second(S) = Entry(Best(T)).delta
    BY <1>5, <2>1 DEF Second
  <2>5. Best(T) \in Moves /\ Best(T) \in S
    BY <2>1, <2>3 DEF Some
  <2> QED BY <2>1, <2>2, <2>4, <2>5, MoveFacts, BestOfSome
<1> QED BY <1>3, <1>4, <1>5 DEF Second

\* Moves dearer than the second do not change the best two.
LEMMA SecondStays ==
  ASSUME board \in Boards, NEW S, Some(S), NEW E, E \subseteq S, E # {}, Cardinality(E) # 1,
         \A n \in S \ E : Entry(n).delta > Second(E)
  PROVE  Best(S) = Best(E) /\ Second(S) = Second(E) /\ Cardinality(S) # 1
<1>1. Some(E)
  BY DEF Some
<1>2. PICK b : b = Best(E)
  OBVIOUS
<1>3. /\ b \in E /\ Some(E \ {b}) /\ Second(E) \in Int /\ Entry(b).delta <= Second(E)
      /\ Second(E) = Entry(Best(E \ {b})).delta
  BY <1>1, <1>2, SizeOfSome, BestOfSome DEF Second
<1>4. \A n \in S : Entry(n).delta \in Int
  BY MoveFacts DEF Some
<1>5. Best(S) = b
  <2>1. \A n \in S \ E : Entry(n).delta > Entry(Best(E)).delta
    BY <1>2, <1>3, <1>4
  <2> QED BY <1>2, <2>1, DearerLose
<1>6. PICK T : T = S \ {b}
  OBVIOUS
<1>7. PICK F : F = E \ {b}
  OBVIOUS
<1>8. Best(T) = Best(F)
  <2>1. F \subseteq T /\ Some(F) /\ F # {} /\ T \ F = S \ E /\ Some(T)
    BY <1>3, <1>6, <1>7 DEF Some
  <2>2. \A n \in T \ F : Entry(n).delta > Entry(Best(F)).delta
    BY <1>3, <1>7, <2>1
  <2> QED BY <2>1, <2>2, DearerLose
<1>9. Cardinality(S) # 1
  BY <1>3, <1>5, SizeOfSome DEF Some
<1> QED BY <1>2, <1>3, <1>5, <1>6, <1>7, <1>8, <1>9 DEF Second

\* More moves never raise the second best, nor lower the best below what the
\* added ones cost.
LEMMA RegretShrinks ==
  ASSUME board \in Boards, NEW S, Some(S), NEW E, E \subseteq S, E # {}, Cardinality(E) # 1,
         NEW low \in Int, \A n \in S \ E : low <= Entry(n).delta
  PROVE  /\ Cardinality(S) # 1 /\ Second(S) <= Second(E)
         /\ Entry(Best(S)).delta >= low \/ Entry(Best(S)).delta >= Entry(Best(E)).delta
<1>1. Some(E)
  BY DEF Some
<1>2. /\ Some(E \ {Best(E)}) /\ Second(E) = Entry(Best(E \ {Best(E)})).delta
      /\ Best(E) \in E /\ Entry(Best(E)).delta <= Second(E)
  BY <1>1, SizeOfSome, BestOfSome DEF Second
<1>3. PICK x \in E : x = Best(E)
  BY <1>2
<1>4. PICK y \in E \ {x} : y = Best(E \ {Best(E)})
  BY <1>2, <1>3, BestOfSome
<1>5. PICK b \in S : b = Best(S)
  BY BestOfSome
<1>6. Cardinality(S) # 1 /\ Second(S) = Entry(Best(S \ {b})).delta /\ Some(S \ {b})
  <2>1. S \ {b} # {}
    BY <1>3, <1>4
  <2> QED BY <1>5, <2>1, SizeOfSome DEF Second
<1>7. \A n \in S : Entry(n).delta \in Int
  BY MoveFacts DEF Some
<1>8. Second(S) <= Second(E)
  <2>1. PICK t \in S \ {b} : t = Best(S \ {b}) /\ \A n \in S \ {b} : Entry(t).delta <= Entry(n).delta
    BY <1>6, BestOfSome
  <2>2. CASE b # y
    BY <1>2, <1>4, <1>6, <2>1, <2>2
  <2>3. CASE b = y
    <3>1. Entry(t).delta <= Entry(x).delta /\ Entry(x).delta <= Entry(y).delta
      BY <1>2, <1>3, <1>4, <2>1, <2>3
    <3> QED BY <1>2, <1>3, <1>4, <1>6, <1>7, <2>1, <3>1
  <2> QED BY <2>2, <2>3
<1>9. Entry(b).delta >= low \/ Entry(b).delta >= Entry(x).delta
  <2>1. CASE b \in E
    BY <1>1, <1>3, <1>7, <2>1, BestOfSome
  <2>2. CASE b \notin E
    BY <1>7, <2>2
  <2> QED BY <2>1, <2>2
<1> QED BY <1>3, <1>5, <1>6, <1>8, <1>9
-----------------------------------------------------------------------------
(* The ranking of one customer.                                            *)

\* Every customer is listed.
LEMMA OrderFacts ==
  ASSUME ChoiceTyped
  PROVE  /\ Len(order) \in Nat \ {0} /\ DOMAIN order = 1 .. Len(order)
         /\ \A k \in 1 .. Len(order) : order[k] \in DOMAIN board
<1>1. PICK n \in Nat \ {0} : DOMAIN board = 1 .. n
  BY BoardFacts DEF ChoiceTyped
<1>2. order \in [1 .. n -> DOMAIN board]
  BY <1>1 DEF ChoiceTyped
<1>3. order \in Seq(DOMAIN board) /\ Len(order) = n
  BY <1>1, <1>2
<1> QED BY <1>1, <1>2, <1>3

\* There is something to choose from.
LEMMA CandidatesAreSome ==
  ASSUME ChoiceTyped, Choosing
  PROVE  Some(Candidates)
<1>1. turn \in 1 .. Len(order)
  BY OrderFacts DEF ChoiceTyped, Choosing
<1>2. Some(MovesOf(order[turn]))
  BY <1>1, OrderFacts, MoveFacts DEF ChoiceTyped
<1>3. Some(Moves)
  BY <1>2 DEF Some
<1> QED BY <1>2, <1>3 DEF Candidates, Moves

\* What has been looked at; one move alone is looked at only when it is the
\* only one.
LooksAt(E, S) ==
  /\ E \subseteq S /\ E # {}
  /\ twoRegret /\ (\E m : E = {m}) => E = S

LookInv == Choosing => LooksAt(evaluated, Candidates)

\* The first look is at one move or two.
LEMMA FirstLookIsLook ==
  ASSUME board \in Boards, NEW S, Some(S)
  PROVE  LooksAt(FirstLook(S), S)
<1>1. PICK first : first = Least(S, DirectKey)
  OBVIOUS
<1>2. first \in S
  BY <1>1, DirectOfSome
<1>3. CASE twoRegret /\ S # {first}
  <2>1. PICK second : second = Least(S \ {first}, DirectKey)
    OBVIOUS
  <2>2. second \in S \ {first}
    <3>1. Some(S \ {first})
      BY <1>2, <1>3 DEF Some
    <3> QED BY <2>1, <3>1, DirectOfSome
  <2>3. FirstLook(S) = {first, second}
    BY <1>1, <1>3, <2>1 DEF FirstLook, BestTwoDirect
  <2> QED BY <1>2, <2>2, <2>3 DEF LooksAt
<1>4. CASE twoRegret /\ S = {first}
  BY <1>1, <1>2, <1>4 DEF FirstLook, BestTwoDirect, LooksAt
<1>5. CASE ~twoRegret
  BY <1>1, <1>2, <1>5 DEF FirstLook, LooksAt
<1> QED BY <1>3, <1>4, <1>5

\* The bound of the queue's next move bounds the cost of all that wait.
LEMMA WaitingCost ==
  ASSUME ChoiceTyped, Choosing, Waiting # {}
  PROVE  /\ Popped \in Waiting /\ Entry(Popped).bound \in Int /\ Safety \in Nat
         /\ \A n \in Waiting : /\ Entry(n).delta \in Int
                               /\ Entry(Popped).bound - Safety <= Entry(n).delta
<1>1. Some(Waiting)
  BY CandidatesAreSome DEF Waiting, Some
<1>2. Popped \in Waiting /\ \A n \in Waiting : Entry(Popped).bound <= Entry(n).bound
  BY <1>1, BoundOfSome DEF Popped, ChoiceTyped
<1>3. Waiting \subseteq Moves
  BY <1>1 DEF Some
<1>4. /\ Entry(Popped).bound \in Int
      /\ \A n \in Waiting : /\ Entry(n).delta \in Int /\ Entry(n).bound \in Int
                            /\ Entry(n).bound <= Entry(n).delta + Safety
  BY <1>2, <1>3, MoveFacts DEF ChoiceTyped
<1> QED BY <1>2, <1>4, ChoiceAssumption

Ranked == [move |-> Best(evaluated),
           regret |-> IF Second(evaluated) = Unrivalled THEN Unrivalled
                      ELSE Second(evaluated) - Entry(Best(evaluated)).delta]

\* When the queue holds nothing that could matter the ranking is the full one.
LEMMA RankedIsFull ==
  ASSUME ChoiceTyped, LookInv, Choosing, Exhausted, twoRegret
  PROVE  Ranked = FullRanking(order[turn])
<1>1. PICK S : S = Candidates
  OBVIOUS
<1>2. PICK E : E = evaluated
  OBVIOUS
<1>3. /\ board \in Boards /\ Some(S) /\ S = MovesOf(order[turn]) /\ Waiting = S \ E
      /\ E \subseteq S /\ E # {} /\ ((\E m : E = {m}) => E = S)
  BY <1>1, <1>2, CandidatesAreSome DEF ChoiceTyped, Candidates, Waiting, LookInv, LooksAt
<1>4. Best(S) = Best(E) /\ Second(S) = Second(E)
  <2>1. CASE Waiting = {}
    BY <1>3, <2>1
  <2>2. CASE Waiting # {}
    <3>1. Some(E)
      BY <1>3 DEF Some
    <3>2. Cardinality(E) # 1
      <4>1. E \ {Best(E)} = {} => E = {Best(E)}
        BY <1>3
      <4> QED BY <1>3, <2>2, <3>1, <4>1, SizeOfSome
    <3>3. Second(E) \in Int /\ Entry(Popped).bound > Second(E) + Safety
      BY <1>2, <1>3, <2>2, <3>1, <3>2, SizeOfSome DEF Exhausted, Threshold
    <3>4. \A n \in S \ E : Entry(n).delta > Second(E)
      BY <1>3, <2>2, <3>3, WaitingCost
    <3> QED BY <1>3, <3>2, <3>4, SecondStays
  <2> QED BY <2>1, <2>2
<1>5. (Cardinality(S) = 1) <=> (Second(S) = Unrivalled)
  BY <1>3, SizeOfSome
<1> QED BY <1>2, <1>3, <1>4, <1>5 DEF Ranked, FullRanking

\* The smaller of two integers, and the larger.
LEMMA PairBounds ==
  ASSUME NEW a \in Int, NEW b \in Int
  PROVE  /\ Min({a, b}) \in Int /\ Min({a, b}) <= a /\ Min({a, b}) <= b
         /\ Max({a, b}) \in Int /\ a <= Max({a, b}) /\ b <= Max({a, b})
<1>1. \E x \in {a, b} : \A y \in {a, b} : x <= y
  OBVIOUS
<1>2. \E x \in {a, b} : \A y \in {a, b} : x >= y
  OBVIOUS
<1>3. Min({a, b}) \in {a, b} /\ \A y \in {a, b} : Min({a, b}) <= y
  BY <1>1 DEF Min
<1>4. Max({a, b}) \in {a, b} /\ \A y \in {a, b} : Max({a, b}) >= y
  BY <1>2 DEF Max
<1> QED BY <1>3, <1>4

\* Who is given up would have lost, tolerance included.
LEMMA HopelessWouldLose ==
  ASSUME ChoiceTyped, LookInv, Choosing, ~Exhausted, Hopeless, winner.regret \in Int
  PROVE  ~RegretBetter(FullRanking(order[turn]), winner, DeltaKey)
<1>1. PICK S : S = Candidates
  OBVIOUS
<1>2. PICK E : E = evaluated
  OBVIOUS
<1>3. /\ board \in Boards /\ Some(S) /\ S = MovesOf(order[turn]) /\ Waiting = S \ E /\ Waiting # {}
      /\ E \subseteq S /\ E # {} /\ Some(E)
  BY <1>1, <1>2, CandidatesAreSome
     DEF ChoiceTyped, Candidates, Waiting, LookInv, LooksAt, Hopeless, Exhausted, Some
<1>4. PICK low \in Int : low = Entry(Popped).bound - Safety
  BY <1>3, WaitingCost
<1>5. PICK a \in Int : a = Entry(Best(E)).delta
  <2>1. Best(E) \in Moves
    BY <1>3, BestOfSome DEF Some
  <2> QED BY <1>3, <2>1, MoveFacts
<1>6. Cardinality(E) # 1
  BY <1>2, <1>3, SizeOfSome DEF Hopeless
<1>7. PICK e2 \in Int : e2 = Second(E)
  BY <1>3, <1>6, SizeOfSome
<1>8. \A n \in S \ E : low <= Entry(n).delta
  BY <1>3, <1>4, WaitingCost
<1>9. Cardinality(S) # 1 /\ Second(S) <= e2
      /\ (Entry(Best(S)).delta >= low \/ Entry(Best(S)).delta >= a)
  BY <1>3, <1>5, <1>6, <1>7, <1>8, RegretShrinks
<1>10. PICK s2 \in Int : s2 = Second(S)
  BY <1>3, <1>9, SizeOfSome
<1>11. PICK s1 \in Int : s1 = Entry(Best(S)).delta
  <2>1. Best(S) \in Moves
    BY <1>3, BestOfSome DEF Some
  <2> QED BY <1>3, <2>1, MoveFacts
<1>12. PICK w \in Int : w = winner.regret
  OBVIOUS
<1>13. PICK least \in Int : least = Min({a, low}) /\ least <= a /\ least <= low
  BY PairBounds
<1>14. PICK most \in Int : most = Max({0, e2 - least}) /\ e2 - least <= most
  <2>1. PICK d \in Int : d = e2 - least
    OBVIOUS
  <2>2. PICK zero \in Int : zero = 0
    OBVIOUS
  <2>3. Max({zero, d}) \in Int /\ d <= Max({zero, d})
    BY PairBounds
  <2> QED BY <2>1, <2>2, <2>3
<1>15. w > most + Tolerance
  BY <1>2, <1>4, <1>5, <1>7, <1>12, <1>13, <1>14 DEF Hopeless
<1>16. FullRanking(order[turn]).regret = s2 - s1
  BY <1>3, <1>9, <1>10, <1>11 DEF FullRanking
<1>17. s2 - s1 <= most /\ Tolerance \in Nat
  BY <1>9, <1>10, <1>11, <1>13, <1>14, ChoiceAssumption
<1>18. ~(s2 - s1 > w + Tolerance) /\ ~(s2 - s1 - w \in -Tolerance .. Tolerance)
  BY <1>15, <1>17
<1> QED BY <1>12, <1>16, <1>18 DEF RegretBetter
-----------------------------------------------------------------------------
(* The ranking of all customers.                                           *)

\* The winners after 0, 1, 2, ... customers when each is ranked completely.
Winners(p) ==
  /\ p[0] = None
  /\ \A k \in 1 .. Len(order) : p[k] = Prefer(p[k - 1], order[k])

WinnerInv ==
  twoRegret => /\ winner.regret \in Int
               /\ \E p : Winners(p) /\ winner = p[turn - 1]

GreedyInv == ~twoRegret => Choosing \/ winner.move = Best(Moves)

ChoiceInv == ChoiceTyped /\ LookInv /\ WinnerInv /\ GreedyInv

ChoiceFold(g) ==
  g = [s \in SUBSET DOMAIN order |->
         IF s = {} THEN None
         ELSE LET k == Max(s) IN Prefer(g[s \ {k}], order[k])]

\* The fold over the customers goes through the winners one by one.
LEMMA FoldIsLastWinner ==
  ASSUME ChoiceTyped
  PROVE  \E p : Winners(p) /\ p[Len(order)] = FoldLeft(Prefer, None, order)
<1>1. PICK result : result = FoldLeft(Prefer, None, order)
  OBVIOUS
<1>2. result = (CHOOSE g : ChoiceFold(g))[DOMAIN order]
  BY <1>1 DEF FoldLeft, MapThenFoldSet, ChoiceFold
<1>3. PICK n \in Nat : n = Len(order) /\ DOMAIN order = 1..n /\ \A k \in 1..n : order[k] \in DOMAIN board
  BY OrderFacts
<1>4. PICK V : V = {None} \cup {FullRanking(c) : c \in DOMAIN board}
  OBVIOUS
<1>5. PICK step : step = [k \in 1..n |-> [v \in V |-> Prefer(v, order[k])]]
  OBVIOUS
<1>6. \A k \in 1..n, v \in V : step[k][v] = Prefer(v, order[k]) /\ Prefer(v, order[k]) \in V
  BY <1>3, <1>4, <1>5 DEF Prefer
<1>7. StepsInto(step, 1..n, V) /\ None \in V
  BY <1>4, <1>6 DEF StepsInto
<1>8. \A s \in SUBSET (1..n) : s # {} => Max(s) \in 1..n
  BY LastPosition
<1>9. ASSUME NEW g, FoldsLeft(g, n, V, None, step)
      PROVE  ChoiceFold(g)
  <2>1. g = [s \in SUBSET (1..n) |-> g[s]] /\ g[{}] = None
    BY <1>9 DEF FoldsLeft
  <2>2. ASSUME NEW s \in SUBSET (1..n), s # {}
        PROVE  g[s] = Prefer(g[s \ {Max(s)}], order[Max(s)])
    <3>1. g[s \ {Max(s)}] \in V /\ g[s] = step[Max(s)][g[s \ {Max(s)}]]
      BY <1>9, <2>2 DEF FoldsLeft
    <3> QED BY <1>6, <1>8, <2>2, <3>1
  <2> QED BY <1>3, <2>1, <2>2 DEF ChoiceFold
<1>10. ASSUME NEW g, ChoiceFold(g)
       PROVE  FoldsAlong(g, n, V, None, step)
  <2>1. g[{}] = None
    BY <1>3, <1>10 DEF ChoiceFold
  <2>2. ASSUME NEW s \in SUBSET (1..n), s # {}, g[s \ {Max(s)}] \in V
        PROVE  g[s] = step[Max(s)][g[s \ {Max(s)}]]
    <3>1. g[s] = Prefer(g[s \ {Max(s)}], order[Max(s)])
      BY <1>3, <1>10, <2>2 DEF ChoiceFold
    <3> QED BY <1>6, <1>8, <2>2, <3>1
  <2> QED BY <2>1, <2>2 DEF FoldsAlong
<1>11. PICK g : ChoiceFold(g) /\ result = g[1..n]
  BY <1>2, <1>3, <1>7, <1>9, LeftFoldExists
<1>12. PICK p : Running(p, n, V, None, step) /\ p[n] = result
  <2>1. FoldsAlong(g, n, V, None, step)
    BY <1>10, <1>11
  <2>2. \E p : Running(p, n, V, None, step) /\ p[n] = g[1..n]
    BY <1>7, <2>1, LeftFoldPrefixes
  <2> QED BY <1>11, <2>2
<1>13. Winners(p)
  <2>1. ASSUME NEW k \in 1..n
        PROVE  p[k] = Prefer(p[k - 1], order[k])
    <3>1. k - 1 \in 0..n
      OBVIOUS
    <3>2. p[k - 1] \in V /\ p[k] = step[k][p[k - 1]]
      BY <1>12, <3>1 DEF Running
    <3> QED BY <1>6, <3>2
  <2> QED BY <1>3, <1>12, <2>1 DEF Winners, Running
<1> QED BY <1>1, <1>3, <1>12, <1>13

\* There is one such sequence of winners.
LEMMA WinnersAgree ==
  ASSUME ChoiceTyped, NEW p, Winners(p), NEW q, Winners(q)
  PROVE  p[Len(order)] = q[Len(order)]
<1>1. PICK n \in Nat : n = Len(order)
  BY OrderFacts
<1>2. PICK K : K = {k \in 0..n : p[k] = q[k]}
  OBVIOUS
<1>3. 0 \in K
  BY <1>2 DEF Winners
<1>4. \A k \in 1..n : k - 1 \in K => k \in K
  BY <1>1, <1>2 DEF Winners
<1>5. \A k \in 0..n : k \in K
  BY <1>3, <1>4, UpTo
<1> QED BY <1>1, <1>2, <1>5

\* The regret of a complete ranking is a number.
LEMMA RegretType ==
  ASSUME board \in Boards, NEW c \in DOMAIN board
  PROVE  FullRanking(c).regret \in Int /\ FullRanking(c) # None
<1>1. PICK S : S = MovesOf(c) /\ Some(S)
  BY MoveFacts
<1>2. Best(S) \in Moves
  BY <1>1, BestOfSome DEF Some
<1>3. Entry(Best(S)).delta \in Int /\ Best(S) # None.move
  BY <1>2, MoveFacts
<1>4. Cardinality(S) # 1 => Second(S) \in Int
  BY <1>1, SizeOfSome
<1> QED BY <1>1, <1>3, <1>4, ChoiceAssumption DEF FullRanking, None

\* As long as the question stays, so do its moves and rankings.
LEMMA QuestionStays ==
  ASSUME UNCHANGED <<board, order, twoRegret>>
  PROVE  /\ Moves' = Moves /\ Best(Moves)' = Best(Moves)
         /\ \A c : MovesOf(c)' = MovesOf(c)
         /\ \A E, S : LooksAt(E, S)' = LooksAt(E, S)
         /\ \A p : Winners(p)' = Winners(p)
<1>1. Moves' = Moves /\ \A c : MovesOf(c)' = MovesOf(c)
  BY DEF Moves, MovesOf
<1>2. Best(Moves)' = Best(Moves)
  BY <1>1 DEF Best, Least, DeltaKey, Entry
<1>3. \A E, S : LooksAt(E, S)' = LooksAt(E, S)
  BY DEF LooksAt
<1>4. \A p : Winners(p)' = Winners(p)
  <2>1. \A v, c : Prefer(v, c)' = Prefer(v, c)
    BY DEF Prefer, RegretBetter, FullRanking, MovesOf, Best, Second, Least, DeltaKey, Entry
  <2> QED BY <2>1 DEF Winners
<1> QED BY <1>1, <1>2, <1>3, <1>4
-----------------------------------------------------------------------------
(* Every step keeps the invariant.                                         *)

\* It holds when the choice begins.
LEMMA ChoiceInitIsInv == ChoiceInit => ChoiceInv
<1> SUFFICES ASSUME ChoiceInit PROVE ChoiceInv
  OBVIOUS
<1>1. board \in Boards /\ order \in [DOMAIN board -> DOMAIN board] /\ twoRegret \in BOOLEAN /\ turn = 1
  BY DEF ChoiceInit
<1>2. PICK n \in Nat \ {0} : DOMAIN board = 1 .. n
  BY <1>1, BoardFacts
<1>3. order \in Seq(DOMAIN board) /\ Len(order) = n
  BY <1>1, <1>2
<1>4. ChoiceTyped /\ Choosing
  BY <1>1, <1>3 DEF ChoiceTyped, Choosing
<1>5. LookInv
  BY <1>1, <1>4, CandidatesAreSome, FirstLookIsLook DEF ChoiceInit, LookInv
<1>6. WinnerInv
  <2>1. PICK p : Winners(p)
    BY <1>4, FoldIsLastWinner
  <2>2. winner = None /\ None.regret \in Int /\ p[turn - 1] = None
    BY <1>1, <2>1 DEF ChoiceInit, None, Winners
  <2> QED BY <2>1, <2>2 DEF WinnerInv
<1>7. GreedyInv
  BY <1>4 DEF GreedyInv
<1> QED BY <1>4, <1>5, <1>6, <1>7 DEF ChoiceInv

\* A move is evaluated.
LEMMA EvaluateMoveKeepsInv == ChoiceInv /\ EvaluateMove => ChoiceInv'
<1> SUFFICES ASSUME ChoiceInv, EvaluateMove PROVE ChoiceInv'
  OBVIOUS
<1>1. /\ ChoiceTyped /\ LookInv /\ WinnerInv /\ GreedyInv /\ Choosing /\ Waiting # {}
      /\ evaluated' = evaluated \cup {Popped}
      /\ UNCHANGED <<board, order, twoRegret, turn, winner>>
  BY DEF ChoiceInv, EvaluateMove, Exhausted
<1>2. Popped \in Candidates \ evaluated
  BY <1>1, WaitingCost DEF Waiting
<1>3. LooksAt(evaluated, Candidates)
  BY <1>1 DEF LookInv
<1>4. LooksAt(evaluated', Candidates)
  BY <1>1, <1>2, <1>3 DEF LooksAt
<1>5. Candidates' = Candidates
  BY <1>1 DEF Candidates, MovesOf
<1>6. LookInv'
  BY <1>1, <1>4, <1>5 DEF LookInv, LooksAt
<1>7. ChoiceTyped' /\ Choosing'
  BY <1>1 DEF ChoiceTyped, Choosing
<1>8. WinnerInv'
  BY <1>1, QuestionStays DEF WinnerInv
<1> QED BY <1>6, <1>7, <1>8 DEF ChoiceInv, GreedyInv

\* A customer is done with: the winner is the one a complete ranking makes.
LEMMA CustomerDone ==
  ASSUME ChoiceInv, Choosing, twoRegret, NEW best, best = Prefer(winner, order[turn]), NextCustomer(best)
  PROVE  ChoiceInv'
<1>1. /\ ChoiceTyped /\ WinnerInv
      /\ winner' = best /\ turn' = turn + 1 /\ UNCHANGED <<board, order, twoRegret>>
  BY DEF ChoiceInv, NextCustomer
<1>2. PICK n \in Nat : n = Len(order)
  BY OrderFacts, <1>1
<1>3. PICK t \in 1 .. n : t = turn
  BY <1>1, <1>2 DEF ChoiceTyped, Choosing
<1>4. order[turn] \in DOMAIN board
  BY <1>1, <1>2, <1>3, OrderFacts
<1>5. ChoiceTyped'
  BY <1>1, <1>2, <1>3 DEF ChoiceTyped
<1>6. WinnerInv'
  <2>1. PICK p : Winners(p) /\ winner = p[t - 1]
    BY <1>1, <1>3 DEF WinnerInv
  <2>2. p[t] = best
    BY <1>2, <1>3, <2>1 DEF Winners
  <2>3. Winners(p)' /\ winner' = p[turn' - 1]
    BY <1>1, <1>3, <2>1, <2>2, QuestionStays
  <2>4. best.regret \in Int
    BY <1>1, <1>4, RegretType DEF WinnerInv, Prefer, ChoiceTyped
  <2> QED BY <1>1, <2>3, <2>4 DEF WinnerInv
<1>7. LookInv'
  <2> SUFFICES ASSUME Choosing' PROVE LooksAt(evaluated, Candidates)'
    BY DEF LookInv
  <2>1. t + 1 \in 1 .. n /\ turn < Len(order)
    BY <1>1, <1>2, <1>3 DEF Choosing
  <2>2. evaluated' = FirstLook(MovesOf(order[turn + 1]))
    BY <2>1 DEF NextCustomer
  <2>3. order[turn + 1] \in DOMAIN board
    BY <1>1, <1>2, <1>3, <2>1, OrderFacts
  <2>4. LooksAt(evaluated', MovesOf(order[turn + 1]))
    BY <1>1, <2>2, <2>3, MoveFacts, FirstLookIsLook DEF ChoiceTyped
  <2>5. Candidates' = MovesOf(order[turn + 1])
    BY <1>1 DEF Candidates, MovesOf
  <2> QED BY <1>1, <2>4, <2>5 DEF LooksAt
<1>8. GreedyInv'
  BY <1>1 DEF GreedyInv
<1> QED BY <1>5, <1>6, <1>7, <1>8 DEF ChoiceInv

\* No step breaks the invariant.
LEMMA ChoiceStepKeepsInv == ChoiceInv /\ [ChoiceNext]_choiceVars => ChoiceInv'
<1> SUFFICES ASSUME ChoiceInv, [ChoiceNext]_choiceVars PROVE ChoiceInv'
  OBVIOUS
<1>1. CASE EvaluateMove
  BY <1>1, EvaluateMoveKeepsInv
<1>2. CASE GiveUp
  <2>1. /\ Choosing /\ ~Exhausted /\ Hopeless /\ twoRegret /\ winner # None
        /\ winner.regret \in Int /\ NextCustomer(winner)
    BY <1>2 DEF GiveUp, Hopeless, ChoiceInv, WinnerInv
  <2>2. ~RegretBetter(FullRanking(order[turn]), winner, DeltaKey)
    BY <2>1, HopelessWouldLose DEF ChoiceInv
  <2>3. winner = Prefer(winner, order[turn])
    BY <2>1, <2>2 DEF Prefer
  <2> QED BY <2>1, <2>3, CustomerDone
<1>3. CASE RankCustomer
  <2>1. /\ Choosing /\ Exhausted /\ twoRegret
        /\ NextCustomer(IF winner = None \/ RegretBetter(Ranked, winner, DeltaKey) THEN Ranked ELSE winner)
    BY <1>3 DEF RankCustomer, Ranked
  <2>2. Ranked = FullRanking(order[turn])
    BY <2>1, RankedIsFull DEF ChoiceInv
  <2>3. NextCustomer(Prefer(winner, order[turn]))
    BY <2>1, <2>2 DEF Prefer
  <2> QED BY <2>1, <2>3, CustomerDone
<1>4. CASE ChooseGreedy
  <2>1. /\ ChoiceTyped /\ LookInv /\ Choosing /\ Exhausted /\ ~twoRegret
        /\ winner' = [move |-> Best(evaluated), regret |-> 0]
        /\ turn' = Len(order) + 1 /\ UNCHANGED <<board, order, twoRegret>>
    BY <1>4 DEF ChooseGreedy, ChoiceInv
  <2>2. PICK E : E = evaluated
    OBVIOUS
  <2>3. /\ Candidates = Moves /\ Some(Moves) /\ E \subseteq Moves /\ E # {} /\ Waiting = Moves \ E
        /\ board \in Boards
    BY <2>1, <2>2, CandidatesAreSome DEF Candidates, Moves, LookInv, LooksAt, Waiting, ChoiceTyped
  <2>4. Best(Moves) = Best(E)
    <3>1. CASE Waiting = {}
      BY <2>3, <3>1
    <3>2. CASE Waiting # {}
      <4>1. Entry(Popped).bound > Entry(Best(E)).delta + Safety
        BY <2>1, <2>2, <3>2 DEF Exhausted, Threshold
      <4>2. Best(E) \in Moves
        BY <2>3, BestOfSome DEF Some
      <4>3. Entry(Best(E)).delta \in Int
        BY <2>3, <4>2, MoveFacts
      <4>4. \A n \in Moves \ E : Entry(n).delta > Entry(Best(E)).delta
        BY <2>1, <2>3, <3>2, <4>1, <4>3, WaitingCost
      <4> QED BY <2>3, <4>4, DearerLose
    <3> QED BY <3>1, <3>2
  <2>5. Len(order) \in Nat
    BY <2>1, OrderFacts
  <2>6. ~Choosing' /\ ChoiceTyped'
    BY <2>1, <2>5 DEF Choosing, ChoiceTyped
  <2>7. GreedyInv'
    BY <2>1, <2>2, <2>4, QuestionStays DEF GreedyInv
  <2> QED BY <2>1, <2>6, <2>7 DEF ChoiceInv, LookInv, WinnerInv
<1>5. CASE UNCHANGED choiceVars
  <2>1. UNCHANGED <<board, order, twoRegret, turn, evaluated, winner>>
    BY <1>5 DEF choiceVars
  <2>2. ChoiceTyped' /\ Choosing' = Choosing
    BY <2>1 DEF ChoiceInv, ChoiceTyped, Choosing
  <2>3. LookInv'
    <3>1. Candidates' = Candidates
      BY <2>1 DEF Candidates, MovesOf
    <3> QED BY <2>1, <2>2, <3>1 DEF ChoiceInv, LookInv, LooksAt
  <2>4. WinnerInv' /\ GreedyInv'
    BY <2>1, <2>2, QuestionStays DEF ChoiceInv, WinnerInv, GreedyInv
  <2> QED BY <2>2, <2>3, <2>4 DEF ChoiceInv
<1> QED BY <1>1, <1>2, <1>3, <1>4, <1>5 DEF ChoiceNext

\* Bounds and pruned customers never change the choice: it is the one made when
\* every move of every customer is evaluated, for all moves, bounds and orders
\* (choose_linked_greedy, rank_virtual_customer, choose_lazy_path_two_regret).
THEOREM ChoicesAreExhaustive == ChoiceSpec => []ChoiceIsExhaustive
<1>1. ChoiceInv => ChoiceIsExhaustive
  <2> SUFFICES ASSUME ChoiceInv, ~Choosing
               PROVE  IF twoRegret THEN winner = FoldLeft(Prefer, None, order)
                      ELSE winner.move = Best(Moves)
    BY DEF ChoiceIsExhaustive, Moves
  <2>1. CASE twoRegret
    <3>1. PICK p : Winners(p) /\ winner = p[turn - 1]
      BY <2>1 DEF ChoiceInv, WinnerInv
    <3>2. PICK q : Winners(q) /\ q[Len(order)] = FoldLeft(Prefer, None, order)
      BY FoldIsLastWinner DEF ChoiceInv
    <3>3. PICK n \in Nat : n = Len(order)
      BY OrderFacts DEF ChoiceInv
    <3>4. turn - 1 = n
      BY <3>3 DEF ChoiceInv, ChoiceTyped, Choosing
    <3> QED BY <2>1, <3>1, <3>2, <3>3, <3>4, WinnersAgree DEF ChoiceInv
  <2>2. CASE ~twoRegret
    BY <2>2 DEF ChoiceInv, GreedyInv
  <2> QED BY <2>1, <2>2
<1> QED BY <1>1, ChoiceInitIsInv, ChoiceStepKeepsInv, PTL DEF ChoiceSpec
-----------------------------------------------------------------------------
(* What a label is, and how labels join (append in evaluator.cpp).         *)

Leg == [station : Stations, energy : Nat, adjacent : BOOLEAN]

Labelled == [from : Nodes, to : Nodes, legs : Seq(Leg), tail : Nat,
             travel : Nat, service : Nat, initialized : {TRUE}]

Label == Labelled \cup {NoLabel}

\* Two sequences with the same entries are the same.
LEMMA SameEntries ==
  ASSUME NEW S, NEW s \in Seq(S), NEW t \in Seq(S), Len(s) = Len(t),
         \A i \in 1..Len(s) : s[i] = t[i]
  PROVE  s = t
  OBVIOUS

\* What a concatenation consists of.
LEMMA Concatenated ==
  ASSUME NEW S, NEW s \in Seq(S), NEW t \in Seq(S)
  PROVE  /\ s \o t \in Seq(S) /\ Len(s \o t) = Len(s) + Len(t)
         /\ \A i \in 1..Len(s) : (s \o t)[i] = s[i]
         /\ \A i \in 1..Len(t) : (s \o t)[Len(s) + i] = t[i]
  OBVIOUS

\* A sequence of one entry.
LEMMA OneEntry ==
  ASSUME NEW S, NEW x \in S
  PROVE  <<x>> \in Seq(S)
  OBVIOUS

\* Concatenation is associative.
LEMMA ConcatAssociative ==
  ASSUME NEW S, NEW s \in Seq(S), NEW t \in Seq(S), NEW u \in Seq(S)
  PROVE  (s \o t) \o u = s \o (t \o u)
<1>1. PICK v : v = s \o t
  OBVIOUS
<1>2. PICK w : w = t \o u
  OBVIOUS
<1>3. /\ v \in Seq(S) /\ Len(v) = Len(s) + Len(t)
      /\ \A i \in 1..Len(s) : v[i] = s[i]
      /\ \A i \in 1..Len(t) : v[Len(s) + i] = t[i]
  BY <1>1, Concatenated
<1>4. /\ w \in Seq(S) /\ Len(w) = Len(t) + Len(u)
      /\ \A i \in 1..Len(t) : w[i] = t[i]
      /\ \A i \in 1..Len(u) : w[Len(t) + i] = u[i]
  BY <1>2, Concatenated
<1>5. PICK x : x = v \o u
  OBVIOUS
<1>6. PICK y : y = s \o w
  OBVIOUS
<1>7. /\ x \in Seq(S) /\ Len(x) = Len(v) + Len(u)
      /\ \A i \in 1..Len(v) : x[i] = v[i]
      /\ \A i \in 1..Len(u) : x[Len(v) + i] = u[i]
  BY <1>3, <1>5, Concatenated
<1>8. /\ y \in Seq(S) /\ Len(y) = Len(s) + Len(w)
      /\ \A i \in 1..Len(s) : y[i] = s[i]
      /\ \A i \in 1..Len(w) : y[Len(s) + i] = w[i]
  BY <1>4, <1>6, Concatenated
<1>9. PICK a \in Nat, b \in Nat, c \in Nat : a = Len(s) /\ b = Len(t) /\ c = Len(u)
  OBVIOUS
<1>10. Len(x) = a + b + c /\ Len(y) = a + b + c
  BY <1>3, <1>4, <1>7, <1>8, <1>9
<1>11. ASSUME NEW i \in 1..(a + b + c) PROVE x[i] = y[i]
  <2>1. CASE i <= a
    BY <1>3, <1>7, <1>8, <1>9, <2>1
  <2>2. CASE a < i /\ i <= a + b
    <3>1. i - a \in 1..b /\ i = a + (i - a)
      BY <1>9, <2>2
    <3>2. x[i] = v[i] /\ v[i] = t[i - a]
      BY <1>3, <1>7, <1>9, <2>2, <3>1
    <3>3. y[i] = w[i - a] /\ w[i - a] = t[i - a]
      BY <1>4, <1>8, <1>9, <2>2, <3>1
    <3> QED BY <3>2, <3>3
  <2>3. CASE a + b < i
    <3>1. i - a - b \in 1..c /\ i - a \in 1..(b + c) /\ i - a = b + (i - a - b) /\ i = (a + b) + (i - a - b)
      BY <1>9, <2>3
    <3>2. x[i] = u[i - a - b]
      BY <1>3, <1>7, <1>9, <3>1
    <3>3. y[i] = w[i - a] /\ w[i - a] = u[i - a - b]
      BY <1>4, <1>8, <1>9, <2>3, <3>1
    <3> QED BY <3>2, <3>3
  <2> QED BY <1>9, <2>1, <2>2, <2>3
<1>12. x = y
  BY <1>7, <1>8, <1>10, <1>11, SameEntries
<1> QED BY <1>1, <1>2, <1>5, <1>6, <1>12

\* Only the first leg spends more.
LEMMA SpendingIs ==
  ASSUME NEW s \in Seq(Leg), s # << >>, NEW x \in Nat
  PROVE  /\ Spending(s, x) \in Seq(Leg) /\ Len(Spending(s, x)) = Len(s)
         /\ Spending(s, x)[1] = [s[1] EXCEPT !.energy = @ + x]
         /\ \A i \in 2..Len(s) : Spending(s, x)[i] = s[i]
<1>1. s[1] \in Leg /\ 1 \in DOMAIN s
  OBVIOUS
<1>2. [s[1] EXCEPT !.energy = @ + x] \in Leg
  BY <1>1 DEF Leg
<1>3. PICK l : l = [s[1] EXCEPT !.energy = @ + x]
  OBVIOUS
<1>4. Spending(s, x) = [s EXCEPT ![1] = l]
  BY <1>1, <1>3 DEF Spending
<1> QED BY <1>1, <1>2, <1>3, <1>4

\* What is spent by a first leg adds up.
LEMMA SpendingTwice ==
  ASSUME NEW s \in Seq(Leg), s # << >>, NEW x \in Nat, NEW y \in Nat
  PROVE  Spending(Spending(s, x), y) = Spending(s, x + y)
<1>1. PICK t : t = Spending(s, x)
  OBVIOUS
<1>2. t \in Seq(Leg) /\ Len(t) = Len(s) /\ t # << >> /\ x + y \in Nat
  <2>1. t \in Seq(Leg) /\ Len(t) = Len(s)
    BY <1>1, SpendingIs
  <2>2. Len(s) # 0
    OBVIOUS
  <2> QED BY <2>1, <2>2
<1>3. PICK u : u = Spending(t, y)
  OBVIOUS
<1>4. PICK v : v = Spending(s, x + y)
  OBVIOUS
<1>5. /\ u \in Seq(Leg) /\ Len(u) = Len(s) /\ u[1] = [t[1] EXCEPT !.energy = @ + y]
      /\ \A i \in 2..Len(s) : u[i] = t[i]
  BY <1>2, <1>3, SpendingIs
<1>6. /\ v \in Seq(Leg) /\ Len(v) = Len(s) /\ v[1] = [s[1] EXCEPT !.energy = @ + (x + y)]
      /\ \A i \in 2..Len(s) : v[i] = s[i]
  BY <1>2, <1>4, SpendingIs
<1>7. t[1] = [s[1] EXCEPT !.energy = @ + x] /\ \A i \in 2..Len(s) : t[i] = s[i]
  BY <1>1, SpendingIs
<1>8. s[1] \in Leg
  OBVIOUS
<1>9. u[1] = v[1]
  <2>1. PICK l \in Leg : l = s[1]
    BY <1>8
  <2>2. [[l EXCEPT !.energy = @ + x] EXCEPT !.energy = @ + y] = [l EXCEPT !.energy = @ + (x + y)]
    <3>1. (l.energy + x) + y = l.energy + (x + y)
      BY DEF Leg
    <3> QED BY <3>1 DEF Leg
  <2> QED BY <1>5, <1>6, <1>7, <2>1, <2>2
<1>10. \A i \in 1..Len(s) : u[i] = v[i]
  BY <1>5, <1>6, <1>7, <1>9
<1> QED BY <1>1, <1>3, <1>4, <1>5, <1>6, <1>10

\* What the first of two parts spends, their concatenation spends.
LEMMA SpendingConcat ==
  ASSUME NEW s \in Seq(Leg), s # << >>, NEW t \in Seq(Leg), NEW x \in Nat
  PROVE  Spending(s \o t, x) = Spending(s, x) \o t
<1>1. PICK u : u = s \o t
  OBVIOUS
<1>2. u \in Seq(Leg) /\ Len(u) = Len(s) + Len(t) /\ u # << >> /\ Len(s) >= 1
  BY <1>1
<1>3. PICK v : v = Spending(s, x)
  OBVIOUS
<1>4. /\ v \in Seq(Leg) /\ Len(v) = Len(s) /\ v[1] = [s[1] EXCEPT !.energy = @ + x]
      /\ \A i \in 2..Len(s) : v[i] = s[i]
  BY <1>3, SpendingIs
<1>5. PICK w : w = Spending(u, x)
  OBVIOUS
<1>6. /\ w \in Seq(Leg) /\ Len(w) = Len(u) /\ w[1] = [u[1] EXCEPT !.energy = @ + x]
      /\ \A i \in 2..Len(u) : w[i] = u[i]
  BY <1>2, <1>5, SpendingIs
<1>7. PICK y : y = v \o t
  OBVIOUS
<1>8. /\ y \in Seq(Leg) /\ Len(y) = Len(u)
      /\ \A i \in 1..Len(s) : y[i] = v[i]
      /\ \A i \in 1..Len(t) : y[Len(s) + i] = t[i]
  <2>1. /\ y \in Seq(Leg) /\ Len(y) = Len(v) + Len(t)
        /\ \A i \in 1..Len(v) : y[i] = v[i]
        /\ \A i \in 1..Len(t) : y[Len(v) + i] = t[i]
    <3>1. v \in Seq(Leg)
      BY <1>4
    <3> QED BY <1>7, <3>1, Concatenated
  <2>2. Len(v) = Len(s)
    BY <1>4
  <2> QED BY <1>2, <2>1, <2>2
<1>9. /\ \A i \in 1..Len(s) : u[i] = s[i]
      /\ \A i \in 1..Len(t) : u[Len(s) + i] = t[i]
  BY <1>1, Concatenated
<1>10. PICK a \in Nat, b \in Nat : a = Len(s) /\ b = Len(t) /\ a >= 1 /\ Len(u) = a + b
  BY <1>2
<1>11. ASSUME NEW i \in 1..(a + b) PROVE w[i] = y[i]
  <2>1. CASE i = 1
    <3>1. 1 \in 1..Len(s)
      BY <1>10
    <3>2. y[1] = v[1] /\ u[1] = s[1]
      BY <1>8, <1>9, <3>1
    <3> QED BY <1>4, <1>6, <2>1, <3>2
  <2>2. CASE i # 1 /\ i <= a
    <3>1. i \in 2..Len(s) /\ i \in 1..Len(s) /\ i \in 2..Len(u)
      BY <1>10, <2>2
    <3> QED BY <1>4, <1>6, <1>8, <1>9, <3>1
  <2>3. CASE i > a
    <3>1. i - a \in 1..Len(t) /\ i = Len(s) + (i - a) /\ i \in 2..Len(u)
      BY <1>10, <2>3
    <3> QED BY <1>6, <1>8, <1>9, <3>1
  <2> QED BY <1>10, <2>1, <2>2, <2>3
<1>12. w = y
  BY <1>6, <1>8, <1>10, <1>11, SameEntries
<1> QED BY <1>1, <1>3, <1>5, <1>7, <1>12

\* The parts of a label.
LEMMA LabelParts ==
  ASSUME NEW v \in Label
  PROVE  /\ v.initialized \in BOOLEAN /\ v.legs \in Seq(Leg) /\ v.tail \in Nat
         /\ v.travel \in Nat /\ v.service \in Nat /\ v.from \in Nodes /\ v.to \in Nodes
         /\ ~v.initialized => v = NoLabel
         /\ v.initialized => v \in Labelled
<1>1. CASE v \in Labelled
  BY <1>1 DEF Labelled
<1>2. CASE v = NoLabel
  <2>1. Depot \in Nodes /\ << >> \in Seq(Leg)
    BY DEF Nodes
  <2> QED BY <1>2, <2>1 DEF NoLabel
<1> QED BY <1>1, <1>2 DEF Label

\* Joining is concatenation: it has a unit ...
LEMMA JoinUnit ==
  ASSUME NEW v \in Label
  PROVE  Join(NoLabel, v) = v /\ Join(v, NoLabel) = v
  BY LabelParts DEF Join, NoLabel

Joined(v, w, legs, tail) ==
  [from |-> v.from, to |-> w.to, legs |-> legs, tail |-> tail, travel |-> v.travel + w.travel,
   service |-> v.service + w.service, initialized |-> TRUE]

\* A join, with and without a leg on the right.
LEMMA JoinIs ==
  ASSUME NEW v \in Labelled, NEW w \in Labelled
  PROVE  /\ w.legs = << >> => Join(v, w) = Joined(v, w, v.legs, v.tail + w.tail)
         /\ w.legs # << >> => Join(v, w) = Joined(v, w, v.legs \o Spending(w.legs, v.tail), w.tail)
  BY DEF Join, Labelled, Joined

JoinsTo(l, v, w) ==
  /\ l = Join(v, w)
  /\ l.from = v.from /\ l.to = w.to /\ l.travel = v.travel + w.travel
  /\ l.service = v.service + w.service
  /\ w.legs = << >> => l.legs = v.legs /\ l.tail = v.tail + w.tail
  /\ w.legs # << >> => l.legs = v.legs \o Spending(w.legs, v.tail) /\ l.tail = w.tail

\* What a join consists of.
LEMMA JoinParts ==
  ASSUME NEW v \in Labelled, NEW w \in Labelled
  PROVE  \E l : JoinsTo(l, v, w)
<1>0. PICK l : l = Join(v, w)
  OBVIOUS
<1>1. ASSUME NEW legs, NEW tail, l = Joined(v, w, legs, tail)
      PROVE  /\ l.from = v.from /\ l.to = w.to /\ l.travel = v.travel + w.travel
             /\ l.service = v.service + w.service /\ l.legs = legs /\ l.tail = tail
  BY <1>1 DEF Joined
<1>2. CASE w.legs = << >>
  <2>1. l = Joined(v, w, v.legs, v.tail + w.tail)
    BY <1>0, <1>2, JoinIs
  <2> QED BY <1>0, <1>1, <1>2, <2>1 DEF JoinsTo
<1>3. CASE w.legs # << >>
  <2>1. l = Joined(v, w, v.legs \o Spending(w.legs, v.tail), w.tail)
    BY <1>0, <1>3, JoinIs
  <2> QED BY <1>0, <1>1, <1>3, <2>1 DEF JoinsTo
<1> QED BY <1>0, <1>2, <1>3 DEF JoinsTo

\* Two labels join to a label.
LEMMA JoinedType ==
  ASSUME NEW v \in Labelled, NEW w \in Labelled
  PROVE  Join(v, w) \in Labelled
<1>1. /\ v.from \in Nodes /\ w.to \in Nodes /\ v.legs \in Seq(Leg) /\ w.legs \in Seq(Leg)
      /\ v.tail \in Nat /\ w.tail \in Nat /\ v.travel + w.travel \in Nat
      /\ v.service + w.service \in Nat /\ v.tail + w.tail \in Nat
  BY DEF Labelled
<1>2. ASSUME NEW legs \in Seq(Leg), NEW tail \in Nat
      PROVE  Joined(v, w, legs, tail) \in Labelled
  BY <1>1 DEF Labelled, Joined
<1>3. CASE w.legs = << >>
  BY <1>1, <1>2, <1>3, JoinIs
<1>4. CASE w.legs # << >>
  <2>1. Spending(w.legs, v.tail) \in Seq(Leg)
    BY <1>1, <1>4, SpendingIs
  <2>2. PICK legs \in Seq(Leg) : legs = v.legs \o Spending(w.legs, v.tail)
    BY <1>1, <2>1, Concatenated
  <2> QED BY <1>1, <1>2, <1>4, <2>2, JoinIs
<1> QED BY <1>3, <1>4

\* So do two labels of which either may be the empty one.
LEMMA JoinType ==
  ASSUME NEW v \in Label, NEW w \in Label
  PROVE  Join(v, w) \in Label
<1>1. CASE v = NoLabel \/ w = NoLabel
  BY <1>1, JoinUnit
<1>2. CASE v \in Labelled /\ w \in Labelled
  BY <1>2, JoinedType DEF Label
<1> QED BY <1>1, <1>2 DEF Label

\* Labels of stretches of a path may be joined in any grouping.
LEMMA JoinedAssociative ==
  ASSUME NEW u \in Labelled, NEW v \in Labelled, NEW w \in Labelled
  PROVE  Join(Join(u, v), w) = Join(u, Join(v, w))
<1>1. PICK l : JoinsTo(l, u, v)
  BY JoinParts
<1>2. PICK r : JoinsTo(r, v, w)
  BY JoinParts
<1> USE DEF JoinsTo
<1>3. l \in Labelled /\ r \in Labelled
  BY <1>1, <1>2, JoinedType
<1>4. /\ u.legs \in Seq(Leg) /\ v.legs \in Seq(Leg) /\ w.legs \in Seq(Leg)
      /\ u.tail \in Nat /\ v.tail \in Nat /\ w.tail \in Nat
      /\ u.travel \in Nat /\ v.travel \in Nat /\ w.travel \in Nat
      /\ u.service \in Nat /\ v.service \in Nat /\ w.service \in Nat
  BY DEF Labelled
<1>6. ASSUME NEW legs, NEW tail
      PROVE  Joined(l, w, legs, tail) = Joined(u, r, legs, tail)
  <2>1. l.from = u.from /\ r.to = w.to
    BY <1>1, <1>2
  <2>2. l.travel + w.travel = u.travel + r.travel
    BY <1>1, <1>2, <1>4
  <2>3. l.service + w.service = u.service + r.service
    BY <1>1, <1>2, <1>4
  <2> QED BY <2>1, <2>2, <2>3 DEF Joined
<1>8. /\ w.legs = << >> => Join(l, w) = Joined(l, w, l.legs, l.tail + w.tail)
      /\ w.legs # << >> => Join(l, w) = Joined(l, w, l.legs \o Spending(w.legs, l.tail), w.tail)
      /\ r.legs = << >> => Join(u, r) = Joined(u, r, u.legs, u.tail + r.tail)
      /\ r.legs # << >> => Join(u, r) = Joined(u, r, u.legs \o Spending(r.legs, u.tail), r.tail)
  BY <1>3, JoinIs
<1>9. CASE w.legs = << >> /\ v.legs = << >>
  <2>1. (u.tail + v.tail) + w.tail = u.tail + (v.tail + w.tail)
    BY <1>4
  <2>2. Join(l, w) = Joined(l, w, u.legs, u.tail + (v.tail + w.tail))
    BY <1>1, <1>2, <1>8, <1>9, <2>1
  <2>3. Join(u, r) = Joined(u, r, u.legs, u.tail + (v.tail + w.tail))
    BY <1>1, <1>2, <1>8, <1>9
  <2> QED BY <1>1, <1>2, <1>6, <2>2, <2>3
<1>10. CASE w.legs = << >> /\ v.legs # << >>
  <2>1. Join(l, w) = Joined(l, w, u.legs \o Spending(v.legs, u.tail), v.tail + w.tail)
    BY <1>1, <1>2, <1>8, <1>10
  <2>2. Join(u, r) = Joined(u, r, u.legs \o Spending(v.legs, u.tail), v.tail + w.tail)
    BY <1>1, <1>2, <1>8, <1>10
  <2> QED BY <1>1, <1>2, <1>6, <2>1, <2>2
<1>11. CASE w.legs # << >> /\ v.legs = << >>
  <2>1. PICK s : s = Spending(w.legs, v.tail)
    OBVIOUS
  <2>2. s \in Seq(Leg) /\ Len(s) = Len(w.legs)
    BY <1>4, <1>11, <2>1, SpendingIs
  <2>3. s # << >> /\ v.legs \o s = s
    BY <1>4, <1>11, <2>2
  <2>4. Spending(s, u.tail) = Spending(w.legs, v.tail + u.tail)
    BY <1>4, <1>11, <2>1, SpendingTwice
  <2>5. r.legs = s /\ r.tail = w.tail /\ l.legs = u.legs /\ l.tail = v.tail + u.tail
    BY <1>4, <1>1, <1>2, <1>11, <2>1, <2>3
  <2>6. Join(l, w) = Joined(l, w, u.legs \o Spending(s, u.tail), w.tail)
    BY <1>8, <1>11, <2>4, <2>5
  <2>7. Join(u, r) = Joined(u, r, u.legs \o Spending(s, u.tail), w.tail)
    BY <1>8, <2>3, <2>5
  <2> QED BY <1>1, <1>2, <1>6, <2>6, <2>7
<1>12. CASE w.legs # << >> /\ v.legs # << >>
  <2>1. PICK s : s = Spending(v.legs, u.tail)
    OBVIOUS
  <2>2. PICK t : t = Spending(w.legs, v.tail)
    OBVIOUS
  <2>3. s \in Seq(Leg) /\ t \in Seq(Leg)
    BY <1>4, <1>12, <2>1, <2>2, SpendingIs
  <2>4. r.legs = v.legs \o t /\ r.tail = w.tail /\ l.legs = u.legs \o s /\ l.tail = v.tail
    BY <1>1, <1>2, <1>12, <2>1, <2>2
  <2>5. r.legs # << >>
    BY <1>4, <1>12, <2>3, <2>4
  <2>6. Join(l, w) = Joined(l, w, (u.legs \o s) \o t, w.tail)
    BY <1>8, <1>12, <2>2, <2>4
  <2>7. Join(u, r) = Joined(u, r, u.legs \o Spending(v.legs \o t, u.tail), w.tail)
    BY <1>8, <2>4, <2>5
  <2>8. Spending(v.legs \o t, u.tail) = s \o t
    BY <1>4, <1>12, <2>1, <2>3, SpendingConcat
  <2>9. (u.legs \o s) \o t = u.legs \o (s \o t)
    <3>1. PICK a \in Seq(Leg) : a = u.legs
      BY <1>4
    <3>2. (a \o s) \o t = a \o (s \o t)
      BY <2>3, ConcatAssociative
    <3> QED BY Zenon, <3>1, <3>2
  <2> QED BY <1>1, <1>2, <1>6, <2>6, <2>7, <2>8, <2>9
<1> QED BY <1>9, <1>10, <1>11, <1>12

\* ... and is associative.
LEMMA JoinAssociative ==
  ASSUME NEW u \in Label, NEW v \in Label, NEW w \in Label
  PROVE  Join(Join(u, v), w) = Join(u, Join(v, w))
<1>1. CASE u = NoLabel \/ v = NoLabel \/ w = NoLabel
  BY <1>1, JoinUnit, JoinType
<1>2. CASE u \in Labelled /\ v \in Labelled /\ w \in Labelled
  BY <1>2, JoinedAssociative
<1> QED BY <1>1, <1>2 DEF Label

-----------------------------------------------------------------------------
(* Joining a sequence of labels.                                           *)

\* A fold whose operator is known on the values it can meet runs through them.
LEMMA FoldedRuns ==
  ASSUME NEW n \in Nat, NEW V, NEW base \in V, NEW step, StepsInto(step, 1..n, V),
         NEW f, f[0] = base, \A k \in 1..n : f[k - 1] \in V => f[k] = step[k][f[k - 1]]
  PROVE  Running(f, n, V, base, step)
<1>1. PICK K : K = {k \in 0..n : f[k] \in V}
  OBVIOUS
<1>2. 0 \in K
  BY <1>1
<1>3. \A k \in 1..n : k - 1 \in K => k \in K
  BY <1>1 DEF StepsInto
<1>4. \A k \in 0..n : k \in K
  BY <1>2, <1>3, UpTo
<1>5. \A k \in 0..n : f[k] \in V
  BY <1>1, <1>4
<1>6. \A k \in 1..n : k - 1 \in 0..n
  OBVIOUS
<1> QED BY <1>5, <1>6 DEF Running

SolvesJoin(f, seq) ==
  f = [n \in 0..Len(seq) |->
         IF n = 0 THEN NoLabel ELSE With(f[n - 1], LAMBDA acc : Join(acc, seq[n]))]

\* The joined labels in plain words.
LEMMA JoinGrows ==
  ASSUME NEW f, NEW seq
  PROVE  SolvesJoin(f, seq)
           <=> f = [n \in 0..Len(seq) |-> IF n = 0 THEN NoLabel ELSE Join(f[n - 1], seq[n])]
  BY DEF SolvesJoin, With

\* JoinAll as the recursive function it is.
LEMMA JoinAllChosen ==
  ASSUME NEW seq
  PROVE  JoinAll(seq) = (CHOOSE f : SolvesJoin(f, seq))[Len(seq)]
  BY DEF JoinAll, Folded, SolvesJoin

JoinsAlong(p, n, seq) ==
  /\ p[0] = NoLabel
  /\ \A k \in 0..n : p[k] \in Label
  /\ \A k \in 1..n : p[k] = Join(p[k - 1], seq[k])

\* The labels joined so far, one entry after the other.
LEMMA JoinAllRuns ==
  ASSUME NEW seq \in Seq(Label), NEW n \in Nat, n = Len(seq)
  PROVE  \E p : JoinsAlong(p, n, seq) /\ JoinAll(seq) = p[n]
<1>1. PICK step : step = [k \in 1..n |-> [v \in Label |-> Join(v, seq[k])]]
  OBVIOUS
<1>2. StepsInto(step, 1..n, Label)
  BY <1>1, JoinType DEF StepsInto
<1>3. NoLabel \in Label
  BY DEF Label
<1>4. ASSUME NEW f, f[0] = NoLabel, \A k \in 1..n : f[k] = Join(f[k - 1], seq[k])
      PROVE  JoinsAlong(f, n, seq)
  <2>1. \A k \in 1..n : f[k - 1] \in Label => f[k] = step[k][f[k - 1]]
    BY <1>1, <1>4
  <2>2. Running(f, n, Label, NoLabel, step)
    BY <1>2, <1>3, <1>4, <2>1, FoldedRuns
  <2> QED BY <1>4, <2>2 DEF Running, JoinsAlong
<1>5. PICK p \in [0..n -> Label] : Running(p, n, Label, NoLabel, step)
  BY <1>2, <1>3, RunExists
<1>6. \A k \in 1..n : k - 1 \in 0..n /\ p[k] = Join(p[k - 1], seq[k])
  BY <1>1, <1>5 DEF Running
<1>7. SolvesJoin(p, seq)
  BY <1>5, <1>6 DEF SolvesJoin, With, Running
<1>8. PICK f : f = CHOOSE g : SolvesJoin(g, seq)
  OBVIOUS
<1>9. SolvesJoin(f, seq) /\ JoinAll(seq) = f[n]
  BY <1>7, <1>8, JoinAllChosen
<1>10. f[0] = NoLabel /\ \A k \in 1..n : f[k] = Join(f[k - 1], seq[k])
  <2>1. f = [k \in 0..n |-> IF k = 0 THEN NoLabel ELSE Join(f[k - 1], seq[k])]
    BY <1>9, JoinGrows
  <2> QED BY <2>1
<1> QED BY <1>4, <1>9, <1>10

\* Nothing joins to the empty label.
LEMMA JoinAllEmpty == JoinAll(<< >>) = NoLabel
<1>1. << >> \in Seq(Label) /\ Len(<< >>) = 0
  OBVIOUS
<1>2. PICK p : JoinsAlong(p, 0, << >>) /\ JoinAll(<< >>) = p[0]
  BY <1>1, JoinAllRuns
<1> QED BY <1>2 DEF JoinsAlong

\* One more label is joined to what came before.
LEMMA JoinAllAppend ==
  ASSUME NEW s \in Seq(Label), NEW x \in Label
  PROVE  JoinAll(s) \in Label /\ JoinAll(Append(s, x)) = Join(JoinAll(s), x)
<1>1. PICK n \in Nat : n = Len(s)
  OBVIOUS
<1>2. PICK t : t = Append(s, x)
  OBVIOUS
<1>3. /\ t \in Seq(Label) /\ n + 1 = Len(t) /\ n + 1 \in Nat /\ t[n + 1] = x
      /\ \A k \in 1..n : t[k] = s[k]
  BY <1>1, <1>2
<1>4. PICK p : JoinsAlong(p, n, s) /\ JoinAll(s) = p[n]
  BY <1>1, JoinAllRuns
<1>5. PICK q : JoinsAlong(q, n + 1, t) /\ JoinAll(t) = q[n + 1]
  BY <1>3, JoinAllRuns
<1>6. PICK K : K = {k \in 0..n : p[k] = q[k]}
  OBVIOUS
<1>7. 0 \in K
  BY <1>4, <1>5, <1>6 DEF JoinsAlong
<1>8. ASSUME NEW k \in 1..n, k - 1 \in K
      PROVE  k \in K
  <2>1. p[k - 1] = q[k - 1] /\ k \in 1..(n + 1)
    BY <1>6, <1>8
  <2>2. p[k] = Join(p[k - 1], s[k]) /\ q[k] = Join(q[k - 1], t[k])
    BY <1>4, <1>5, <2>1 DEF JoinsAlong
  <2> QED BY <1>3, <1>6, <2>1, <2>2
<1>9. \A k \in 0..n : k \in K
  BY <1>7, <1>8, UpTo
<1>10. p[n] = q[n] /\ p[n] \in Label
  BY <1>4, <1>6, <1>9 DEF JoinsAlong
<1>11. q[n + 1] = Join(q[n], x)
  <2>1. n + 1 \in 1..(n + 1) /\ (n + 1) - 1 = n
    OBVIOUS
  <2> QED BY <1>3, <1>5, <2>1 DEF JoinsAlong
<1> QED BY <1>2, <1>4, <1>5, <1>10, <1>11

\* Labels join to a label.
LEMMA JoinAllType ==
  ASSUME NEW s \in Seq(Label)
  PROVE  JoinAll(s) \in Label
<1>1. NoLabel \in Label
  BY DEF Label
<1> QED BY <1>1, JoinAllAppend

\* Two parts are joined part by part.
LEMMA JoinAllConcat ==
  ASSUME NEW s \in Seq(Label), NEW t \in Seq(Label)
  PROVE  JoinAll(s \o t) = Join(JoinAll(s), JoinAll(t))
<1>1. PICK n \in Nat : n = Len(t)
  OBVIOUS
<1>2. PICK part : part = [k \in 0..n |-> SubSeq(t, 1, k)]
  OBVIOUS
<1>3. /\ \A k \in 0..n : part[k] = SubSeq(t, 1, k) /\ part[k] \in Seq(Label)
      /\ part[0] = << >> /\ part[n] = t
  BY <1>1, <1>2
<1>4. PICK K : K = {k \in 0..n : JoinAll(s \o part[k]) = Join(JoinAll(s), JoinAll(part[k]))}
  OBVIOUS
<1>5. 0 \in K
  <2>1. s \o part[0] = s
    BY <1>3
  <2>2. Join(JoinAll(s), NoLabel) = JoinAll(s)
    BY JoinAllType, JoinUnit
  <2>3. 0 \in 0..n
    OBVIOUS
  <2> QED BY <1>3, <1>4, <2>1, <2>2, <2>3, JoinAllEmpty
<1>6. ASSUME NEW k \in 1..n, k - 1 \in K
      PROVE  k \in K
  <2>1. PICK a \in Seq(Label) : a = part[k - 1] /\ a = SubSeq(t, 1, k - 1)
    BY <1>3
  <2>2. PICK x \in Label : x = t[k]
    BY <1>1
  <2>3. part[k] = Append(a, x)
    <3>1. part[k] = SubSeq(t, 1, k) /\ Len(SubSeq(t, 1, k)) = k /\ k \in 1..Len(t)
      BY <1>1, <1>3
    <3> QED BY <2>1, <2>2, <3>1
  <2>4. s \o Append(a, x) = Append(s \o a, x) /\ s \o a \in Seq(Label)
    OBVIOUS
  <2>5. JoinAll(s \o part[k]) = Join(JoinAll(s \o a), x)
    BY <2>3, <2>4, JoinAllAppend
  <2>6. JoinAll(s \o a) = Join(JoinAll(s), JoinAll(a))
    BY <1>4, <1>6, <2>1
  <2>7. JoinAll(part[k]) = Join(JoinAll(a), x)
    BY <2>3, JoinAllAppend
  <2>8. Join(Join(JoinAll(s), JoinAll(a)), x) = Join(JoinAll(s), Join(JoinAll(a), x))
    BY JoinAllType, JoinAssociative
  <2> QED BY <1>4, <2>5, <2>6, <2>7, <2>8
<1>7. \A k \in 0..n : k \in K
  BY <1>5, <1>6, UpTo
<1>8. n \in K
  BY <1>7
<1> QED BY <1>3, <1>4, <1>8

-----------------------------------------------------------------------------
(* The labels of stretches of consecutive labels.                          *)

\* The join of the labels at the places a .. b - 1 of e.
Piece(e, a, b) == JoinAll([k \in 1..(b - a) |-> e[a + k - 1]])

\* The entries of a piece.
LEMMA PieceSequence ==
  ASSUME NEW e, NEW a \in Int, NEW b \in Int, a <= b, \A k \in a..(b - 1) : e[k] \in Label
  PROVE  /\ [k \in 1..(b - a) |-> e[a + k - 1]] \in Seq(Label)
         /\ Len([k \in 1..(b - a) |-> e[a + k - 1]]) = b - a
<1>1. \A k \in 1..(b - a) : a + k - 1 \in a..(b - 1)
  OBVIOUS
<1>2. b - a \in Nat
  OBVIOUS
<1> QED BY <1>1, <1>2

\* A piece of a sequence of labels is a label.
LEMMA PieceType ==
  ASSUME NEW e, NEW a \in Int, NEW b \in Int, a <= b, \A k \in a..(b - 1) : e[k] \in Label
  PROVE  Piece(e, a, b) \in Label
  BY PieceSequence, JoinAllType DEF Piece

\* An empty piece.
LEMMA PieceEmpty ==
  ASSUME NEW e, NEW a \in Int
  PROVE  Piece(e, a, a) = NoLabel
<1>1. [k \in 1..(a - a) |-> e[a + k - 1]] = << >>
  OBVIOUS
<1> QED BY <1>1, JoinAllEmpty DEF Piece

\* A piece may be cut anywhere.
LEMMA PieceSplit ==
  ASSUME NEW e, NEW a \in Int, NEW b \in Int, NEW c \in Int, a <= b, b <= c,
         \A k \in a..(c - 1) : e[k] \in Label
  PROVE  Piece(e, a, c) = Join(Piece(e, a, b), Piece(e, b, c))
<1>1. PICK s : s = [k \in 1..(b - a) |-> e[a + k - 1]]
  OBVIOUS
<1>2. PICK t : t = [k \in 1..(c - b) |-> e[b + k - 1]]
  OBVIOUS
<1>3. PICK u : u = [k \in 1..(c - a) |-> e[a + k - 1]]
  OBVIOUS
<1>4. (\A k \in a..(b - 1) : e[k] \in Label) /\ (\A k \in b..(c - 1) : e[k] \in Label) /\ a <= c
  OBVIOUS
<1>5. /\ s \in Seq(Label) /\ Len(s) = b - a
      /\ t \in Seq(Label) /\ Len(t) = c - b
      /\ u \in Seq(Label) /\ Len(u) = c - a
  BY <1>1, <1>2, <1>3, <1>4, PieceSequence
<1>6. PICK v : v = s \o t
  OBVIOUS
<1>7. /\ v \in Seq(Label) /\ Len(v) = Len(s) + Len(t)
      /\ \A i \in 1..Len(s) : v[i] = s[i]
      /\ \A i \in 1..Len(t) : v[Len(s) + i] = t[i]
  <2>1. s \in Seq(Label) /\ t \in Seq(Label)
    BY <1>5
  <2> QED BY <1>6, <2>1, Concatenated
<1>8. ASSUME NEW i \in 1..(c - a)
      PROVE  u[i] = v[i]
  <2>1. CASE i <= b - a
    <3>1. i \in 1..(b - a)
      BY <2>1
    <3>2. v[i] = s[i]
      BY <1>5, <1>7, <3>1
    <3>3. s[i] = e[a + i - 1] /\ u[i] = e[a + i - 1]
      BY <1>1, <1>3, <3>1
    <3> QED BY <3>2, <3>3
  <2>2. CASE i > b - a
    <3>1. PICK j \in 1..(c - b) : j = i - (b - a)
      BY <2>2
    <3>2. v[i] = t[j]
      <4>1. Len(s) = b - a /\ Len(t) = c - b
        BY <1>5
      <4>2. i = Len(s) + j
        BY <3>1, <4>1
      <4> QED BY <1>7, <3>1, <4>1, <4>2
    <3>3. b + j - 1 = a + i - 1
      BY <3>1
    <3>4. t[j] = e[b + j - 1]
      BY <1>2
    <3> QED BY <1>3, <3>2, <3>3, <3>4
  <2> QED BY <2>1, <2>2
<1>9. u = v
  <2>1. Len(u) = Len(v)
    BY <1>5, <1>7
  <2> QED BY <1>5, <1>7, <1>8, <2>1, SameEntries
<1>10. JoinAll(v) = Join(JoinAll(s), JoinAll(t))
  BY <1>5, <1>6, JoinAllConcat
<1> QED BY <1>1, <1>2, <1>3, <1>9, <1>10 DEF Piece

\* A piece of one entry.
LEMMA PieceOne ==
  ASSUME NEW e, NEW a \in Int, e[a] \in Label
  PROVE  Piece(e, a, a + 1) = e[a]
<1>1. PICK s : s = [k \in 1..((a + 1) - a) |-> e[a + k - 1]]
  OBVIOUS
<1>2. s = Append(<< >>, e[a])
  <2>1. (a + 1) - a = 1 /\ a + 1 - 1 = a
    OBVIOUS
  <2>2. s = [k \in 1..1 |-> e[a]]
    BY <1>1, <2>1
  <2> QED BY <2>2
<1>3. << >> \in Seq(Label)
  OBVIOUS
<1>4. JoinAll(s) = Join(NoLabel, e[a])
  BY <1>2, <1>3, JoinAllAppend, JoinAllEmpty
<1> QED BY <1>1, <1>4, JoinUnit DEF Piece

\* A piece and the next entry.
LEMMA PieceNext ==
  ASSUME NEW e, NEW a \in Int, NEW b \in Int, a <= b, \A k \in a..b : e[k] \in Label
  PROVE  Piece(e, a, b + 1) = Join(Piece(e, a, b), e[b])
<1>1. (\A k \in a..((b + 1) - 1) : e[k] \in Label) /\ b <= b + 1 /\ b + 1 \in Int /\ e[b] \in Label
  OBVIOUS
<1>2. Piece(e, a, b + 1) = Join(Piece(e, a, b), Piece(e, b, b + 1))
  BY <1>1, PieceSplit
<1> QED BY <1>1, <1>2, PieceOne

-----------------------------------------------------------------------------
(* The segment tree of labels.                                             *)

SolvesBase(f, n) ==
  f = [m \in 0..Len([k \in 1..n |-> k]) |->
         IF m = 0 THEN 1
         ELSE With(f[m - 1], LAMBDA base : IF base < n THEN 2 * base ELSE base)]

\* TreeBase as the recursive function it is.
LEMMA TreeBaseChosen ==
  ASSUME NEW edges
  PROVE  TreeBase(edges)
           = (CHOOSE f : SolvesBase(f, Len(edges)))[Len([k \in 1..Len(edges) |-> k])]
  BY DEF TreeBase, Folded, SolvesBase

\* The leaves of the tree have room for the edges.
LEMMA TreeBaseIs ==
  ASSUME NEW edges \in Seq(Label)
  PROVE  TreeBase(edges) \in Nat /\ TreeBase(edges) >= 1 /\ TreeBase(edges) >= Len(edges)
<1>1. PICK n \in Nat : n = Len(edges)
  OBVIOUS
<1>2. Len([k \in 1..n |-> k]) = n
  OBVIOUS
<1>3. PICK step : step = [k \in 1..n |-> [b \in Nat \ {0} |-> IF b < n THEN 2 * b ELSE b]]
  OBVIOUS
<1>4. StepsInto(step, 1..n, Nat \ {0})
  BY <1>3 DEF StepsInto
<1>5. PICK p \in [0..n -> Nat \ {0}] : Running(p, n, Nat \ {0}, 1, step)
  <2>1. 1 \in Nat \ {0}
    OBVIOUS
  <2> QED BY <1>4, <2>1, RunExists
<1>6. ASSUME NEW k \in 1..n
      PROVE  k - 1 \in 0..n /\ p[k] = IF p[k - 1] < n THEN 2 * p[k - 1] ELSE p[k - 1]
  <2>1. k - 1 \in 0..n
    OBVIOUS
  <2>2. p[k - 1] \in Nat \ {0} /\ p[k] = step[k][p[k - 1]]
    BY <1>5, <2>1 DEF Running
  <2> QED BY <1>3, <2>1, <2>2
<1>7. SolvesBase(p, n)
  BY <1>2, <1>5, <1>6 DEF SolvesBase, With, Running
<1>8. PICK f : f = CHOOSE g : SolvesBase(g, n)
  OBVIOUS
<1>9. SolvesBase(f, n) /\ TreeBase(edges) = f[n]
  BY <1>1, <1>2, <1>7, <1>8, TreeBaseChosen
<1>10. /\ f[0] = 1
       /\ \A k \in 1..n : f[k] = IF f[k - 1] < n THEN 2 * f[k - 1] ELSE f[k - 1]
  <2>1. f = [k \in 0..n |-> IF k = 0 THEN 1 ELSE IF f[k - 1] < n THEN 2 * f[k - 1] ELSE f[k - 1]]
    BY <1>2, <1>9 DEF SolvesBase, With
  <2>2. f[0] = 1
    BY <2>1
  <2>3. ASSUME NEW k \in 1..n
        PROVE  f[k] = IF f[k - 1] < n THEN 2 * f[k - 1] ELSE f[k - 1]
    <3>1. k \in 0..n /\ k # 0
      OBVIOUS
    <3> QED BY <2>1, <3>1
  <2> QED BY <2>2, <2>3
<1>11. PICK K : K = {k \in 0..n : f[k] \in Nat /\ f[k] >= 1 /\ (f[k] >= n \/ f[k] >= k + 1)}
  OBVIOUS
<1>12. 0 \in K
  BY <1>10, <1>11
<1>13. ASSUME NEW k \in 1..n, k - 1 \in K
       PROVE  k \in K
  <2>1. PICK b \in Nat : b = f[k - 1] /\ b >= 1 /\ (b >= n \/ b >= k)
    BY <1>11, <1>13
  <2>2. CASE b < n
    <3>1. f[k] = 2 * b
      BY <1>10, <2>1, <2>2
    <3>2. b >= 1 /\ b >= k
      BY <2>1, <2>2
    <3>3. 2 * b \in Nat /\ 2 * b >= 1 /\ 2 * b >= k + 1
      BY <3>2
    <3> QED BY <1>11, <3>1, <3>3
  <2>3. CASE ~(b < n)
    <3>1. f[k] = b /\ b >= n
      BY <1>10, <2>1, <2>3
    <3> QED BY <1>11, <2>1, <3>1
  <2> QED BY <2>2, <2>3
<1>14. \A k \in 0..n : k \in K
  BY <1>12, <1>13, UpTo
<1>15. n \in K
  BY <1>14
<1> QED BY <1>1, <1>9, <1>11, <1>15

\* What the tree has at node i, from the nodes below it.
NodeLabel(f, i, base, edges) ==
  IF i < base THEN Join(f[2 * i], f[2 * i + 1])
  ELSE IF i - base < Len(edges) THEN edges[i - base + 1] ELSE NoLabel

SolvesTree(f, base, edges) ==
  f = [n \in 1..(2 * base - 1) |-> NodeLabel(f, n, base, edges)]

\* Tree as the recursive function it is.
LEMMA TreeChosen ==
  ASSUME NEW edges
  PROVE  Tree(edges) = [base |-> TreeBase(edges),
                        node |-> CHOOSE f : SolvesTree(f, TreeBase(edges), edges)]
  BY DEF Tree, SolvesTree, NodeLabel

\* There are labels for the nodes of a tree over any edges.
LEMMA NodesExist ==
  ASSUME NEW base \in Nat \ {0}, NEW edges \in Seq(Label)
  PROVE  \E f : SolvesTree(f, base, edges)
<1>1. PICK N \in Nat : N = 2 * base - 1
  OBVIOUS
<1>2. ASSUME NEW i \in 1..N, i < base
      PROVE  2 * i \in 1..N /\ 2 * i + 1 \in 1..N /\ 2 * i > i /\ 2 * i + 1 > i
  BY <1>1, <1>2
<1>3. NoLabel \in Label
  BY DEF Label
<1>4. ASSUME NEW g \in [1..N -> Label], NEW i \in 1..N
      PROVE  NodeLabel(g, i, base, edges) \in Label
  <2>1. CASE i < base
    <3>1. g[2 * i] \in Label /\ g[2 * i + 1] \in Label
      BY <1>2, <2>1
    <3> QED BY <2>1, <3>1, JoinType DEF NodeLabel
  <2>2. CASE ~(i < base)
    BY <1>1, <1>3, <2>2 DEF NodeLabel
  <2> QED BY <2>1, <2>2
<1>5. PICK K : K = {k \in 0..N : \E g \in [1..N -> Label] :
                     \A i \in 1..N : i > N - k => g[i] = NodeLabel(g, i, base, edges)}
  OBVIOUS
<1>6. 0 \in K
  <2>1. [i \in 1..N |-> NoLabel] \in [1..N -> Label]
    BY <1>3
  <2>2. \A i \in 1..N : ~(i > N - 0)
    OBVIOUS
  <2>3. 0 \in 0..N
    OBVIOUS
  <2>4. PICK g : g = [i \in 1..N |-> NoLabel]
    OBVIOUS
  <2>5. \A i \in 1..N : i > N - 0 => g[i] = NodeLabel(g, i, base, edges)
    BY <2>2
  <2> QED BY <1>5, <2>1, <2>3, <2>4, <2>5
<1>7. ASSUME NEW k \in 1..N, k - 1 \in K
      PROVE  k \in K
  <2>1. PICK g \in [1..N -> Label] :
          \A i \in 1..N : i > N - (k - 1) => g[i] = NodeLabel(g, i, base, edges)
    BY <1>5, <1>7
  <2>2. PICK m \in 1..N : m = N - (k - 1)
    OBVIOUS
  <2>3. PICK h : h = [i \in 1..N |-> IF i = m THEN NodeLabel(g, m, base, edges) ELSE g[i]]
    OBVIOUS
  <2>4. h \in [1..N -> Label]
    BY <1>4, <2>3
  <2>5. ASSUME NEW i \in 1..N, i >= m
        PROVE  NodeLabel(h, i, base, edges) = NodeLabel(g, i, base, edges)
    <3>1. CASE i < base
      <4>1. h[2 * i] = g[2 * i] /\ h[2 * i + 1] = g[2 * i + 1]
        BY <1>2, <2>3, <2>5, <3>1
      <4> QED BY <3>1, <4>1 DEF NodeLabel
    <3>2. CASE ~(i < base)
      BY <3>2 DEF NodeLabel
    <3> QED BY <3>1, <3>2
  <2>6. ASSUME NEW i \in 1..N, i > N - k
        PROVE  h[i] = NodeLabel(h, i, base, edges)
    <3>1. i = m \/ i > m
      BY <2>2, <2>6
    <3>2. h[i] = NodeLabel(g, i, base, edges)
      BY <2>1, <2>2, <2>3, <3>1
    <3> QED BY <2>5, <3>1, <3>2
  <2> QED BY <1>5, <2>4, <2>6
<1>8. \A k \in 0..N : k \in K
  BY <1>6, <1>7, UpTo
<1>9. N \in K
  BY <1>8
<1>10. PICK g \in [1..N -> Label] :
         \A i \in 1..N : i > N - N => g[i] = NodeLabel(g, i, base, edges)
  BY <1>5, <1>9
<1>11. \A i \in 1..N : g[i] = NodeLabel(g, i, base, edges)
  BY <1>10
<1> QED BY <1>1, <1>11 DEF SolvesTree

\* A tree of labels: its leaves hold the edges, a node above them the join of
\* the two below it.
IsTree(tree, base, node, edges) ==
  /\ tree.base = base /\ tree.node = node
  /\ base \in Nat /\ base >= 1 /\ base >= Len(edges)
  /\ \A i \in 1..(2 * base - 1) : node[i] \in Label
  /\ \A i \in 1..(base - 1) : node[i] = Join(node[2 * i], node[2 * i + 1])
  /\ \A k \in 1..Len(edges) : node[base + k - 1] = edges[k]

\* What the tree of given edges is.
LEMMA TreeIs ==
  ASSUME NEW edges \in Seq(Label)
  PROVE  \E base, node : IsTree(Tree(edges), base, node, edges)
<1>1. PICK base \in Nat \ {0} : base = TreeBase(edges) /\ base >= Len(edges)
  BY TreeBaseIs
<1>2. PICK node : node = CHOOSE f : SolvesTree(f, base, edges)
  OBVIOUS
<1>3. SolvesTree(node, base, edges)
  BY <1>2, NodesExist
<1>4. PICK N \in Nat : N = 2 * base - 1
  OBVIOUS
<1>5. \A i \in 1..N : node[i] = NodeLabel(node, i, base, edges)
  BY <1>3, <1>4 DEF SolvesTree
<1>6. ASSUME NEW i \in 1..(base - 1)
      PROVE  node[i] = Join(node[2 * i], node[2 * i + 1])
  <2>1. i \in 1..N /\ i < base
    BY <1>4
  <2> QED BY <1>5, <2>1 DEF NodeLabel
<1>7. ASSUME NEW k \in 1..Len(edges)
      PROVE  node[base + k - 1] = edges[k]
  <2>1. PICK i \in 1..N : i = base + k - 1 /\ ~(i < base) /\ i - base < Len(edges) /\ i - base + 1 = k
    <3>1. k \in Nat /\ k >= 1 /\ k <= Len(edges) /\ Len(edges) \in Nat /\ k <= base
      BY <1>1
    <3>2. base + k - 1 \in 1..N
      BY <1>4, <3>1
    <3> QED BY <3>1, <3>2
  <2> QED BY <1>5, <2>1 DEF NodeLabel
<1>8. PICK K : K = {k \in 0..N : \A i \in 1..N : i > N - k => node[i] \in Label}
  OBVIOUS
<1>9. 0 \in K
  BY <1>8
<1>10. ASSUME NEW k \in 1..N, k - 1 \in K
       PROVE  k \in K
  <2>1. PICK m \in 1..N : m = N - (k - 1)
    OBVIOUS
  <2>2. \A i \in 1..N : i > m => node[i] \in Label
    BY <1>8, <1>10, <2>1
  <2>3. node[m] \in Label
    <3>1. CASE m < base
      <4>1. 2 * m \in 1..N /\ 2 * m > m /\ 2 * m + 1 \in 1..N /\ 2 * m + 1 > m
        BY <1>4, <3>1
      <4>2. node[2 * m] \in Label /\ node[2 * m + 1] \in Label
        BY <2>2, <4>1
      <4>3. node[m] = Join(node[2 * m], node[2 * m + 1])
        BY <1>6, <3>1
      <4> QED BY <4>2, <4>3, JoinType
    <3>2. CASE ~(m < base)
      <4>1. NoLabel \in Label
        BY DEF Label
      <4>2. m - base < Len(edges) => edges[m - base + 1] \in Label
        BY <3>2
      <4> QED BY <1>5, <3>2, <4>1, <4>2 DEF NodeLabel
    <3> QED BY <3>1, <3>2
  <2>4. \A i \in 1..N : i > N - k => i = m \/ i > m
    BY <2>1
  <2> QED BY <1>8, <2>2, <2>3, <2>4
<1>11. \A k \in 0..N : k \in K
  BY <1>9, <1>10, UpTo
<1>12. N \in K /\ \A i \in 1..N : i > N - N
  BY <1>11
<1>13. \A i \in 1..N : node[i] \in Label
  BY <1>8, <1>12
<1>14. Tree(edges) = [base |-> base, node |-> node]
  BY <1>1, <1>2, TreeChosen
<1> QED BY <1>1, <1>4, <1>6, <1>7, <1>13, <1>14 DEF IsTree
-----------------------------------------------------------------------------
(* The label of a range of edges.                                          *)

SpanState == [l : Nat, r : Nat, left : Seq(Nat), right : Seq(Nat)]

SolvesSpans(f, l, r) ==
  f = [n \in 0..Len([k \in 1..r |-> k]) |->
         IF n = 0 THEN [l |-> l, r |-> r, left |-> << >>, right |-> << >>]
         ELSE With(f[n - 1], LAMBDA s : Halve(s))]

\* Spans as the recursive function it is.
LEMMA SpansChosen ==
  ASSUME NEW l, NEW r
  PROVE  Spans(l, r) =
           (CHOOSE f : SolvesSpans(f, l, r))[Len([k \in 1..r |-> k])].left
             \o (CHOOSE f : SolvesSpans(f, l, r))[Len([k \in 1..r |-> k])].right
  BY DEF Spans, Folded, SolvesSpans

\* A round leaves two bounds and two lists of nodes.
LEMMA HalveType ==
  ASSUME NEW s \in SpanState
  PROVE  Halve(s) \in SpanState
<1>1. s.l \in Nat /\ s.r \in Nat /\ s.left \in Seq(Nat) /\ s.right \in Seq(Nat)
  BY DEF SpanState
<1>2. CASE s.l >= s.r
  BY <1>2 DEF Halve
<1>3. CASE ~(s.l >= s.r)
  <2>1. (s.l + 1) \div 2 \in Nat /\ s.r \div 2 \in Nat /\ s.r - 1 \in Nat
    BY <1>1, <1>3
  <2>2. Append(s.left, s.l) \in Seq(Nat)
    BY <1>1
  <2>3. <<s.r - 1>> \o s.right \in Seq(Nat)
    BY <1>1, <2>1
  <2> QED BY <1>1, <1>3, <2>1, <2>2, <2>3 DEF Halve, SpanState
<1> QED BY <1>2, <1>3

SpansAlong(p, l, r) ==
  /\ p[0] = [l |-> l, r |-> r, left |-> << >>, right |-> << >>]
  /\ \A k \in 0..r : p[k] \in SpanState
  /\ \A k \in 1..r : p[k] = Halve(p[k - 1])

\* The rounds of append_range, one after the other.
LEMMA SpansRuns ==
  ASSUME NEW l \in Nat, NEW r \in Nat
  PROVE  \E p : SpansAlong(p, l, r) /\ Spans(l, r) = p[r].left \o p[r].right
<1>1. PICK start : start = [l |-> l, r |-> r, left |-> << >>, right |-> << >>]
  OBVIOUS
<1>2. start \in SpanState
  BY <1>1 DEF SpanState
<1>3. PICK step : step = [k \in 1..r |-> [s \in SpanState |-> Halve(s)]]
  OBVIOUS
<1>4. StepsInto(step, 1..r, SpanState)
  BY <1>3, HalveType DEF StepsInto
<1>5. Len([k \in 1..r |-> k]) = r
  OBVIOUS
<1>6. PICK p \in [0..r -> SpanState] : Running(p, r, SpanState, start, step)
  BY <1>2, <1>4, RunExists
<1>7. \A k \in 1..r : k - 1 \in 0..r /\ p[k] = Halve(p[k - 1])
  BY <1>3, <1>6 DEF Running
<1>8. SolvesSpans(p, l, r)
  BY <1>1, <1>5, <1>6, <1>7 DEF SolvesSpans, With, Running
<1>9. PICK f : f = CHOOSE g : SolvesSpans(g, l, r)
  OBVIOUS
<1>10. SolvesSpans(f, l, r) /\ Spans(l, r) = f[r].left \o f[r].right
  BY <1>5, <1>8, <1>9, SpansChosen
<1>11. f[0] = start /\ \A k \in 1..r : f[k] = Halve(f[k - 1])
  BY <1>1, <1>5, <1>10 DEF SolvesSpans, With
<1>12. \A k \in 1..r : f[k - 1] \in SpanState => f[k] = step[k][f[k - 1]]
  BY <1>3, <1>11
<1>13. Running(f, r, SpanState, start, step)
  BY <1>2, <1>4, <1>11, <1>12, FoldedRuns
<1>14. SpansAlong(f, l, r)
  BY <1>1, <1>11, <1>13 DEF SpansAlong, Running
<1> QED BY <1>10, <1>14

\* The labels of the nodes named by a sequence.
NodeLabels(node, seq) == [k \in DOMAIN seq |-> node[seq[k]]]

\* The labels of nodes are labels.
LEMMA NodeLabelsType ==
  ASSUME NEW node, NEW N \in Nat, \A i \in 1..N : node[i] \in Label, NEW s \in Seq(1..N)
  PROVE  NodeLabels(node, s) \in Seq(Label) /\ Len(NodeLabels(node, s)) = Len(s)
<1>1. \A k \in 1..Len(s) : s[k] \in 1..N
  OBVIOUS
<1>2. DOMAIN s = 1..Len(s) /\ Len(s) \in Nat
  OBVIOUS
<1> QED BY <1>1, <1>2 DEF NodeLabels

\* The labels of two lists of nodes, one after the other.
LEMMA NodeLabelsConcat ==
  ASSUME NEW node, NEW N \in Nat, \A i \in 1..N : node[i] \in Label,
         NEW s \in Seq(1..N), NEW t \in Seq(1..N)
  PROVE  NodeLabels(node, s \o t) = NodeLabels(node, s) \o NodeLabels(node, t)
<1>1. PICK v : v = s \o t
  OBVIOUS
<1>2. /\ v \in Seq(1..N) /\ Len(v) = Len(s) + Len(t)
      /\ \A i \in 1..Len(s) : v[i] = s[i]
      /\ \A i \in 1..Len(t) : v[Len(s) + i] = t[i]
  BY <1>1, Concatenated
<1>3. PICK a \in Nat, b \in Nat : a = Len(s) /\ b = Len(t)
  OBVIOUS
<1>4. PICK x : x = NodeLabels(node, s)
  OBVIOUS
<1>5. PICK y : y = NodeLabels(node, t)
  OBVIOUS
<1>6. PICK z : z = NodeLabels(node, v)
  OBVIOUS
<1>7. /\ x \in Seq(Label) /\ Len(x) = a /\ y \in Seq(Label) /\ Len(y) = b
      /\ z \in Seq(Label) /\ Len(z) = a + b
  BY <1>2, <1>3, <1>4, <1>5, <1>6, NodeLabelsType
<1>8. /\ \A i \in 1..a : x[i] = node[s[i]]
      /\ \A i \in 1..b : y[i] = node[t[i]]
      /\ \A i \in 1..(a + b) : z[i] = node[v[i]]
  <2>1. DOMAIN s = 1..a /\ DOMAIN t = 1..b /\ DOMAIN v = 1..(a + b)
    BY <1>2, <1>3
  <2> QED BY <1>4, <1>5, <1>6, <2>1 DEF NodeLabels
<1>9. PICK w : w = x \o y
  OBVIOUS
<1>10. /\ w \in Seq(Label) /\ Len(w) = a + b
       /\ \A i \in 1..a : w[i] = x[i]
       /\ \A i \in 1..b : w[a + i] = y[i]
  <2>1. x \in Seq(Label) /\ y \in Seq(Label)
    BY <1>7
  <2>2. /\ w \in Seq(Label) /\ Len(w) = Len(x) + Len(y)
        /\ \A i \in 1..Len(x) : w[i] = x[i]
        /\ \A i \in 1..Len(y) : w[Len(x) + i] = y[i]
    BY <1>9, <2>1, Concatenated
  <2> QED BY <1>7, <2>2
<1>11. ASSUME NEW i \in 1..(a + b) PROVE z[i] = w[i]
  <2>1. CASE i <= a
    <3>1. i \in 1..a
      BY <2>1
    <3>2. z[i] = node[v[i]] /\ v[i] = s[i]
      BY <1>2, <1>3, <1>8, <3>1
    <3>3. w[i] = x[i] /\ x[i] = node[s[i]]
      BY <1>8, <1>10, <3>1
    <3> QED BY <3>2, <3>3
  <2>2. CASE i > a
    <3>1. PICK j \in 1..b : i = a + j
      <4>1. i - a \in 1..b /\ i = a + (i - a)
        BY <2>2
      <4> QED BY <4>1
    <3>2. z[i] = node[v[i]] /\ v[i] = t[j]
      BY <1>2, <1>3, <1>8, <3>1
    <3>3. w[i] = y[j] /\ y[j] = node[t[j]]
      BY <1>8, <1>10, <3>1
    <3> QED BY <3>2, <3>3
  <2> QED BY <2>1, <2>2
<1>12. z = w
  <2>1. Len(z) = Len(w) /\ \A i \in 1..Len(z) : z[i] = w[i]
    BY <1>7, <1>10, <1>11
  <2> QED BY <1>7, <1>10, <2>1, SameEntries
<1> QED BY <1>1, <1>4, <1>5, <1>6, <1>9, <1>12

\* A level of the tree joins to the same as the level below it.
LEMMA LevelBelow ==
  ASSUME NEW tree, NEW base, NEW node, NEW edges, IsTree(tree, base, node, edges),
         NEW a \in Nat, NEW b \in Nat, 1 <= a, a <= b, b <= base
  PROVE  Piece(node, 2 * a, 2 * b) = Piece(node, a, b)
<1>1. base \in Nat /\ \A i \in 1..(2 * base - 1) : node[i] \in Label
  BY DEF IsTree
<1>2. PICK K : K = {k \in 0..(b - a) : Piece(node, 2 * a, 2 * (a + k)) = Piece(node, a, a + k)}
  OBVIOUS
<1>3. 0 \in K
  <2>1. a + 0 = a /\ 0 \in 0..(b - a) /\ 2 * a \in Int /\ a \in Int
    OBVIOUS
  <2>2. Piece(node, 2 * a, 2 * a) = NoLabel /\ Piece(node, a, a) = NoLabel
    BY <2>1, PieceEmpty
  <2> QED BY <1>2, <2>1, <2>2
<1>4. ASSUME NEW k \in 1..(b - a), k - 1 \in K
      PROVE  k \in K
  <2>1. PICK c \in Nat : c = a + (k - 1) /\ a <= c /\ c < base
    <3>1. a + (k - 1) \in Nat /\ a <= a + (k - 1) /\ a + (k - 1) < base
      BY <1>1
    <3> QED BY <3>1
  <2>2. 2 * (a + k) = (2 * c + 1) + 1 /\ a + k = c + 1
    BY <2>1
  <2>3. Piece(node, 2 * a, 2 * c) = Piece(node, a, c)
    BY <1>2, <1>4, <2>1
  <2>4. \A i \in a..(2 * c + 1) : node[i] \in Label
    BY <1>1, <2>1
  <2>5. Piece(node, a, c + 1) = Join(Piece(node, a, c), node[c])
    <3>1. \A i \in a..c : node[i] \in Label
      BY <2>1, <2>4
    <3> QED BY <2>1, <3>1, PieceNext
  <2>6. Piece(node, 2 * a, 2 * c + 1) = Join(Piece(node, 2 * a, 2 * c), node[2 * c])
    <3>1. (\A i \in (2 * a)..(2 * c) : node[i] \in Label) /\ 2 * a \in Int /\ 2 * c \in Int /\ 2 * a <= 2 * c
      BY <2>1, <2>4
    <3> QED BY <3>1, PieceNext
  <2>7. Piece(node, 2 * a, (2 * c + 1) + 1) = Join(Piece(node, 2 * a, 2 * c + 1), node[2 * c + 1])
    <3>1. /\ \A i \in (2 * a)..(2 * c + 1) : node[i] \in Label
          /\ 2 * a \in Int /\ 2 * c + 1 \in Int /\ 2 * a <= 2 * c + 1
      BY <2>1, <2>4
    <3> QED BY <3>1, PieceNext
  <2>8. node[c] = Join(node[2 * c], node[2 * c + 1])
    <3>1. c \in 1..(base - 1)
      BY <1>1, <2>1
    <3>2. \A i \in 1..(base - 1) : node[i] = Join(node[2 * i], node[2 * i + 1])
      BY DEF IsTree
    <3> QED BY <3>1, <3>2
  <2>9. Piece(node, a, c) \in Label /\ node[2 * c] \in Label /\ node[2 * c + 1] \in Label
    <3>1. \A i \in a..(c - 1) : node[i] \in Label
      BY <2>1, <2>4
    <3>2. Piece(node, a, c) \in Label
      BY <2>1, <3>1, PieceType
    <3> QED BY <2>1, <2>4, <3>2
  <2>10. Join(Join(Piece(node, a, c), node[2 * c]), node[2 * c + 1])
           = Join(Piece(node, a, c), Join(node[2 * c], node[2 * c + 1]))
    BY <2>9, JoinAssociative
  <2> QED BY <1>2, <2>2, <2>3, <2>5, <2>6, <2>7, <2>8, <2>10
<1>5. \A k \in 0..(b - a) : k \in K
  <2>1. b - a \in Nat
    OBVIOUS
  <2> QED BY <1>3, <1>4, <2>1, UpTo
<1>6. b - a \in K /\ a + (b - a) = b
  BY <1>5
<1> QED BY <1>2, <1>6

\* What the loop of append_range has set aside and has still to take, joined.
Gathered(node, s) ==
  Join(Join(JoinAll(NodeLabels(node, s.left)), Piece(node, s.l, s.r)),
       JoinAll(NodeLabels(node, s.right)))

InTree(s, base) ==
  /\ s.l \in Nat /\ s.r \in Nat /\ 1 <= s.l /\ s.l <= s.r /\ s.r <= 2 * base
  /\ s.left \in Seq(1..(2 * base - 1)) /\ s.right \in Seq(1..(2 * base - 1))

\* A round keeps what the nodes set aside and those between the bounds join to.
LEMMA HalveKeeps ==
  ASSUME NEW tree, NEW base, NEW node, NEW edges, IsTree(tree, base, node, edges),
         NEW s, InTree(s, base), NEW t, t = Halve(s)
  PROVE  /\ InTree(t, base) /\ Gathered(node, t) = Gathered(node, s)
         /\ t.l = t.r \/ t.r < s.r
<1>1. base \in Nat /\ base >= 1 /\ \A i \in 1..(2 * base - 1) : node[i] \in Label
  BY DEF IsTree
<1>2. CASE s.l >= s.r
  BY <1>2 DEF Halve, InTree
<1>3. CASE ~(s.l >= s.r)
  <2>1. PICK l \in Nat, r \in Nat, N \in Nat : l = s.l /\ r = s.r /\ N = 2 * base - 1 /\ 1 <= l /\ l < r /\ r <= N + 1
    BY <1>1, <1>3 DEF InTree
  <2>2. PICK a \in Nat, b \in Nat : a = (l + 1) \div 2 /\ b = r \div 2
    BY <2>1
  <2>3. /\ l % 2 = 1 => 2 * a = l + 1
        /\ l % 2 # 1 => 2 * a = l
        /\ r % 2 = 1 => 2 * b = r - 1
        /\ r % 2 # 1 => 2 * b = r
    BY <2>1, <2>2
  <2>4. 1 <= a /\ a <= b /\ b <= base /\ b < r /\ l <= 2 * a /\ 2 * a <= 2 * b /\ 2 * b <= r
    <3>1. 2 * a \in {l, l + 1} /\ 2 * b \in {r - 1, r}
      BY <2>1, <2>2
    <3>2. 1 <= a /\ b < r /\ l <= 2 * a /\ 2 * b <= r
      BY <2>1, <3>1
    <3>3. a <= b
      BY <2>1, <3>1
    <3>4. b <= base
      BY <1>1, <2>1, <3>1
    <3> QED BY <3>2, <3>3, <3>4
  <2>5. PICK x : x = IF l % 2 = 1 THEN Append(s.left, l) ELSE s.left
    OBVIOUS
  <2>6. PICK y : y = IF r % 2 = 1 THEN <<r - 1>> \o s.right ELSE s.right
    OBVIOUS
  <2>7. t = [l |-> a, r |-> b, left |-> x, right |-> y]
    BY <1>3, <2>1, <2>2, <2>5, <2>6 DEF Halve
  <2>8. s.left \in Seq(1..N) /\ s.right \in Seq(1..N)
    BY <2>1 DEF InTree
  <2>9. /\ x \in Seq(1..N)
        /\ JoinAll(NodeLabels(node, x)) = Join(JoinAll(NodeLabels(node, s.left)), Piece(node, l, 2 * a))
    <3>1. CASE l % 2 = 1
      <4>1. l \in 1..N /\ node[l] \in Label
        BY <1>1, <2>1
      <4>2. PICK one \in Seq(1..N) : one = <<l>>
        BY <4>1, OneEntry
      <4>3. x = s.left \o one
        BY <2>5, <2>8, <3>1, <4>1, <4>2
      <4>4. NodeLabels(node, one) = <<node[l]>>
        BY <4>2 DEF NodeLabels
      <4>5. JoinAll(<<node[l]>>) = node[l]
        <5>1. <<node[l]>> = Append(<< >>, node[l]) /\ << >> \in Seq(Label)
          OBVIOUS
        <5> QED BY <4>1, <5>1, JoinAllAppend, JoinAllEmpty, JoinUnit
      <4>6. NodeLabels(node, x) = NodeLabels(node, s.left) \o NodeLabels(node, one)
        BY <1>1, <2>1, <2>8, <4>3, NodeLabelsConcat
      <4>7. NodeLabels(node, s.left) \in Seq(Label) /\ NodeLabels(node, one) \in Seq(Label)
        BY <1>1, <2>1, <2>8, NodeLabelsType
      <4>8. JoinAll(NodeLabels(node, x)) = Join(JoinAll(NodeLabels(node, s.left)), node[l])
        <5>1. PICK x1, x2 : x1 = NodeLabels(node, s.left) /\ x2 = NodeLabels(node, one)
          OBVIOUS
        <5>2. JoinAll(x1 \o x2) = Join(JoinAll(x1), JoinAll(x2))
          BY <4>7, <5>1, JoinAllConcat
        <5> QED BY <4>4, <4>5, <4>6, <5>1, <5>2
      <4>9. Piece(node, l, l + 1) = node[l]
        BY <4>1, PieceOne
      <4>10. x \in Seq(1..N)
        BY <2>8, <4>3, Concatenated
      <4> QED BY <2>3, <3>1, <4>8, <4>9, <4>10
    <3>2. CASE l % 2 # 1
      <4>1. Piece(node, l, l) = NoLabel
        BY <2>1, PieceEmpty
      <4>2. JoinAll(NodeLabels(node, s.left)) \in Label
        BY <1>1, <2>1, <2>8, NodeLabelsType, JoinAllType
      <4> QED BY <2>3, <2>5, <2>8, <3>2, <4>1, <4>2, JoinUnit
    <3> QED BY <3>1, <3>2
  <2>10. /\ y \in Seq(1..N)
         /\ JoinAll(NodeLabels(node, y)) = Join(Piece(node, 2 * b, r), JoinAll(NodeLabels(node, s.right)))
    <3>1. CASE r % 2 = 1
      <4>1. PICK m \in 1..N : m = r - 1
        BY <2>1
      <4>2. node[m] \in Label
        BY <1>1, <2>1
      <4>3. PICK one \in Seq(1..N) : one = <<m>>
        BY OneEntry
      <4>4. y = one \o s.right
        BY <2>6, <3>1, <4>1, <4>3
      <4>5. NodeLabels(node, one) = <<node[m]>>
        BY <4>3 DEF NodeLabels
      <4>6. JoinAll(<<node[m]>>) = node[m]
        <5>1. <<node[m]>> = Append(<< >>, node[m]) /\ << >> \in Seq(Label)
          OBVIOUS
        <5> QED BY <4>2, <5>1, JoinAllAppend, JoinAllEmpty, JoinUnit
      <4>7. NodeLabels(node, y) = NodeLabels(node, one) \o NodeLabels(node, s.right)
        BY <1>1, <2>1, <2>8, <4>4, NodeLabelsConcat
      <4>8. NodeLabels(node, s.right) \in Seq(Label) /\ NodeLabels(node, one) \in Seq(Label)
        BY <1>1, <2>1, <2>8, NodeLabelsType
      <4>9. JoinAll(NodeLabels(node, y)) = Join(node[m], JoinAll(NodeLabels(node, s.right)))
        BY <4>5, <4>6, <4>7, <4>8, JoinAllConcat
      <4>10. Piece(node, m, m + 1) = node[m]
        BY <4>2, PieceOne
      <4>11. 2 * b = m /\ r = m + 1
        BY <2>1, <2>3, <3>1, <4>1
      <4>12. y \in Seq(1..N)
        BY <2>8, <4>4, Concatenated
      <4> QED BY <4>9, <4>10, <4>11, <4>12
    <3>2. CASE r % 2 # 1
      <4>1. Piece(node, r, r) = NoLabel
        BY <2>1, PieceEmpty
      <4>2. JoinAll(NodeLabels(node, s.right)) \in Label
        BY <1>1, <2>1, <2>8, NodeLabelsType, JoinAllType
      <4> QED BY <2>3, <2>6, <2>8, <3>2, <4>1, <4>2, JoinUnit
    <3> QED BY <3>1, <3>2
  <2>11. PICK L \in Label, A \in Label, M \in Label, B \in Label, R \in Label :
           /\ L = JoinAll(NodeLabels(node, s.left)) /\ R = JoinAll(NodeLabels(node, s.right))
           /\ A = Piece(node, l, 2 * a) /\ M = Piece(node, 2 * a, 2 * b) /\ B = Piece(node, 2 * b, r)
    <3>1. JoinAll(NodeLabels(node, s.left)) \in Label /\ JoinAll(NodeLabels(node, s.right)) \in Label
      BY <1>1, <2>1, <2>8, NodeLabelsType, JoinAllType
    <3>2. \A i \in l..(r - 1) : node[i] \in Label
      BY <1>1, <2>1
    <3>3. Piece(node, l, 2 * a) \in Label
      BY <2>1, <2>4, <3>2, PieceType
    <3>4. Piece(node, 2 * a, 2 * b) \in Label
      BY <2>1, <2>4, <3>2, PieceType
    <3>5. Piece(node, 2 * b, r) \in Label
      BY <2>1, <2>4, <3>2, PieceType
    <3> QED BY <3>1, <3>3, <3>4, <3>5
  <2>12. Piece(node, l, r) = Join(A, Join(M, B))
    <3>1. \A i \in l..(r - 1) : node[i] \in Label
      BY <1>1, <2>1
    <3>2. Piece(node, l, r) = Join(A, Piece(node, 2 * a, r))
      BY <2>1, <2>4, <2>11, <3>1, PieceSplit
    <3>3. Piece(node, 2 * a, r) = Join(M, B)
      BY <2>1, <2>4, <2>11, <3>1, PieceSplit
    <3> QED BY <3>2, <3>3
  <2>13. Piece(node, a, b) = M
    BY <2>4, <2>11, LevelBelow
  <2>14. Gathered(node, t) = Join(Join(Join(L, A), M), Join(B, R))
    BY <2>7, <2>9, <2>10, <2>11, <2>13 DEF Gathered
  <2>15. Gathered(node, s) = Join(Join(L, Join(A, Join(M, B))), R)
    BY <2>1, <2>11, <2>12 DEF Gathered
  <2>16. Join(Join(Join(L, A), M), Join(B, R)) = Join(Join(L, Join(A, Join(M, B))), R)
    <3>1. Join(L, A) \in Label /\ Join(Join(L, A), M) \in Label /\ Join(M, B) \in Label
      BY JoinType
    <3>2. Join(Join(Join(L, A), M), Join(B, R)) = Join(Join(Join(Join(L, A), M), B), R)
      BY <3>1, JoinAssociative
    <3>3. Join(Join(Join(L, A), M), B) = Join(Join(L, A), Join(M, B))
      BY <3>1, JoinAssociative
    <3>4. Join(Join(L, A), Join(M, B)) = Join(L, Join(A, Join(M, B)))
      BY <3>1, JoinAssociative
    <3> QED BY <3>2, <3>3, <3>4
  <2>17. InTree(t, base)
    BY <1>1, <2>1, <2>4, <2>7, <2>9, <2>10 DEF InTree
  <2> QED BY <2>1, <2>4, <2>7, <2>14, <2>15, <2>16, <2>17
<1> QED BY <1>2, <1>3

\* The label of a range of edges, put together from the nodes of the tree, is
\* that of its edges one after the other.
LEMMA RangeLabelIs ==
  ASSUME NEW edges \in Seq(Label), NEW from \in Nat, NEW to \in Nat, from <= to, to <= Len(edges)
  PROVE  RangeLabel(Tree(edges), from, to) = Piece(edges, from + 1, to + 1)
<1>1. PICK tree : tree = Tree(edges)
  OBVIOUS
<1>2. PICK base, node : IsTree(tree, base, node, edges)
  BY <1>1, TreeIs
<1>3. /\ base \in Nat /\ base >= 1 /\ to <= base /\ tree.base = base /\ tree.node = node
      /\ \A i \in 1..(2 * base - 1) : node[i] \in Label
  BY <1>2 DEF IsTree
<1>4. PICK l \in Nat, r \in Nat : l = from + base /\ r = to + base /\ 1 <= l /\ l <= r /\ r <= 2 * base
  BY <1>3
<1>5. PICK p : SpansAlong(p, l, r) /\ Spans(l, r) = p[r].left \o p[r].right
  BY SpansRuns
<1>6. PICK target : target = Piece(node, l, r)
  OBVIOUS
<1>7. target \in Label
  <2>1. \A i \in l..(r - 1) : node[i] \in Label
    BY <1>3, <1>4
  <2> QED BY <1>4, <1>6, <2>1, PieceType
<1>8. PICK K : K = {k \in 0..r : /\ InTree(p[k], base) /\ Gathered(node, p[k]) = target
                                 /\ p[k].l = p[k].r \/ p[k].r <= r - k}
  OBVIOUS
<1>9. 0 \in K
  <2>1. p[0] = [l |-> l, r |-> r, left |-> << >>, right |-> << >>]
    BY <1>5 DEF SpansAlong
  <2>2. InTree(p[0], base)
    BY <1>3, <1>4, <2>1 DEF InTree
  <2>3. NodeLabels(node, << >>) = << >>
    BY DEF NodeLabels
  <2>4. Gathered(node, p[0]) = Join(Join(NoLabel, target), NoLabel)
    BY <1>6, <2>1, <2>3, JoinAllEmpty DEF Gathered
  <2>5. Gathered(node, p[0]) = target
    BY <1>7, <2>4, JoinUnit
  <2>6. 0 \in 0..r /\ p[0].r <= r - 0
    BY <2>1
  <2> QED BY <1>8, <2>2, <2>5, <2>6
<1>10. ASSUME NEW k \in 1..r, k - 1 \in K
       PROVE  k \in K
  <2>1. PICK s : s = p[k - 1]
    OBVIOUS
  <2>2. PICK t : t = p[k]
    OBVIOUS
  <2>3. InTree(s, base) /\ Gathered(node, s) = target /\ (s.l = s.r \/ s.r <= r - (k - 1))
    BY <1>8, <1>10, <2>1
  <2>4. t = Halve(s)
    BY <1>5, <2>1, <2>2 DEF SpansAlong
  <2>5. InTree(t, base) /\ Gathered(node, t) = Gathered(node, s) /\ (t.l = t.r \/ t.r < s.r)
    BY <1>2, <2>3, <2>4, HalveKeeps
  <2>6. s.l = s.r => t = s
    BY <2>3, <2>4 DEF Halve, InTree
  <2>7. s.r \in Nat /\ t.r \in Nat
    BY <2>3, <2>5 DEF InTree
  <2>8. t.l = t.r \/ t.r <= r - k
    BY <2>3, <2>5, <2>6, <2>7
  <2> QED BY <1>8, <2>2, <2>3, <2>5, <2>8
<1>11. \A k \in 0..r : k \in K
  BY <1>9, <1>10, UpTo
<1>12. r \in K
  BY <1>11
<1>13. PICK s : s = p[r]
  OBVIOUS
<1>14. InTree(s, base) /\ Gathered(node, s) = target /\ (s.l = s.r \/ s.r <= r - r)
  BY <1>8, <1>12, <1>13
<1>15. s.l = s.r /\ s.l \in Int
  BY <1>14 DEF InTree
<1>16. PICK N \in Nat : N = 2 * base - 1
  BY <1>3
<1>17. s.left \in Seq(1..N) /\ s.right \in Seq(1..N)
  BY <1>14, <1>16 DEF InTree
<1>18. NodeLabels(node, s.left) \in Seq(Label) /\ NodeLabels(node, s.right) \in Seq(Label)
  BY <1>3, <1>16, <1>17, NodeLabelsType
<1>19. target = Join(JoinAll(NodeLabels(node, s.left)), JoinAll(NodeLabels(node, s.right)))
  <2>1. Piece(node, s.l, s.r) = NoLabel
    BY <1>15, PieceEmpty
  <2>2. JoinAll(NodeLabels(node, s.left)) \in Label
    BY <1>18, JoinAllType
  <2> QED BY <1>14, <2>1, <2>2, JoinUnit DEF Gathered
<1>20. NodeLabels(node, s.left \o s.right) = NodeLabels(node, s.left) \o NodeLabels(node, s.right)
  BY <1>3, <1>16, <1>17, NodeLabelsConcat
<1>21. target = JoinAll(NodeLabels(node, s.left \o s.right))
  BY <1>18, <1>19, <1>20, JoinAllConcat
<1>22. RangeLabel(tree, from, to) = JoinAll(NodeLabels(node, Spans(l, r)))
  BY <1>3, <1>4 DEF RangeLabel, NodeLabels
<1>23. target = Piece(edges, from + 1, to + 1)
  <2>1. ASSUME NEW k \in 0..(r - l - 1)
        PROVE  node[l + k] = edges[from + 1 + k]
    <3>1. PICK j \in 1..Len(edges) : j = from + 1 + k
      <4>1. k \in Nat /\ k <= to - from - 1
        BY <1>3, <1>4
      <4>2. from + 1 + k \in 1..Len(edges)
        BY <4>1
      <4> QED BY <4>2
    <3>2. node[base + j - 1] = edges[j]
      BY <1>2 DEF IsTree
    <3>3. base + j - 1 = l + k
      <4>1. base \in Nat /\ l = from + base /\ k \in Nat /\ from \in Nat
        BY <1>3, <1>4
      <4> QED BY <3>1, <4>1
    <3> QED BY <3>1, <3>2, <3>3
  <2>2. r - l = (to + 1) - (from + 1)
    BY <1>3, <1>4
  <2>3. Piece(node, l, r) = Piece(edges, from + 1, to + 1)
    <3>1. PICK c \in Int, d \in Int : c = from + 1 /\ d = to + 1
      OBVIOUS
    <3>2. r - l = d - c /\ l \in Int /\ r \in Int
      BY <2>2, <3>1
    <3>3. \A k \in 0..(r - l - 1) : node[l + k] = edges[c + k]
      BY <2>1, <3>1
    <3>4. Piece(node, l, r) = Piece(edges, c, d)
      <4>1. ASSUME NEW k \in 1..(r - l)
            PROVE  node[l + k - 1] = edges[c + k - 1]
        <5>1. k - 1 \in 0..(r - l - 1) /\ l + (k - 1) = l + k - 1 /\ c + (k - 1) = c + k - 1
          OBVIOUS
        <5> QED BY <3>3, <5>1
      <4>2. [k \in 1..(r - l) |-> node[l + k - 1]] = [k \in 1..(d - c) |-> edges[c + k - 1]]
        BY <3>2, <4>1
      <4> QED BY <4>2 DEF Piece
    <3> QED BY <3>1, <3>4
  <2> QED BY <1>6, <2>3
<1> QED BY <1>1, <1>5, <1>13, <1>21, <1>22, <1>23

-----------------------------------------------------------------------------
(* The label of one edge.                                                  *)

\* The distance from the i-th node to the next.
Ahead(nodes, i) == Dist[<<nodes[i], nodes[i + 1]>>]

SolvesTravel(f, nodes, seq) ==
  f = [n \in 0..Len(seq) |->
         IF n = 0 THEN 0 ELSE With(f[n - 1], LAMBDA acc : acc + Ahead(nodes, seq[n]))]

\* The sum in plain words.
LEMMA TravelGrows ==
  ASSUME NEW f, NEW nodes, NEW seq
  PROVE  SolvesTravel(f, nodes, seq)
           <=> f = [n \in 0..Len(seq) |-> IF n = 0 THEN 0 ELSE f[n - 1] + Ahead(nodes, seq[n])]
  BY DEF SolvesTravel, With

Travelled(nodes, seq) == (CHOOSE f : SolvesTravel(f, nodes, seq))[Len(seq)]

\* Two nodes are one distance apart.
LEMMA TravelledOnce ==
  ASSUME NEW a, NEW b, Dist[<<a, b>>] \in Nat,
         NEW nodes, Len(nodes) - 1 = 1, nodes[1] = a, nodes[2] = b
  PROVE  Travelled(nodes, [i \in 1..Len(nodes) - 1 |-> i]) = Dist[<<a, b>>]
<1>1. PICK seq : seq = [i \in 1..Len(nodes) - 1 |-> i]
  OBVIOUS
<1>2. seq = [i \in 1..1 |-> i]
  BY <1>1
<1>3. Len(seq) = 1 /\ seq[1] = 1
  BY <1>2
<1>4. PICK p : p = [n \in 0..1 |-> IF n = 0 THEN 0 ELSE Dist[<<a, b>>]]
  OBVIOUS
<1>5. SolvesTravel(p, nodes, seq)
  <2>1. p[0] = 0 /\ p[1] = p[0] + Ahead(nodes, seq[1])
    BY <1>3, <1>4 DEF Ahead
  <2>2. \A n \in 1..1 : p[n] = p[n - 1] + Ahead(nodes, seq[n])
    BY <2>1
  <2>3. p = [n \in 0..1 |-> IF n = 0 THEN 0 ELSE p[n - 1] + Ahead(nodes, seq[n])]
    BY <1>4, <2>1, <2>2
  <2> QED BY <1>3, <2>3, TravelGrows
<1>6. PICK f : f = CHOOSE g : SolvesTravel(g, nodes, seq)
  OBVIOUS
<1>7. SolvesTravel(f, nodes, seq)
  BY <1>5, <1>6
<1>8. f[0] = 0 /\ f[1] = f[0] + Dist[<<a, b>>]
  <2>1. f = [n \in 0..1 |-> IF n = 0 THEN 0 ELSE f[n - 1] + Ahead(nodes, seq[n])]
    BY <1>3, <1>7, TravelGrows
  <2>2. Ahead(nodes, seq[1]) = Dist[<<a, b>>]
    BY <1>3 DEF Ahead
  <2> QED BY <2>1, <2>2
<1>9. f[1] = Dist[<<a, b>>]
  BY <1>8
<1>10. Travelled(nodes, seq) = f[Len(seq)]
  BY <1>6 DEF Travelled
<1> QED BY <1>1, <1>3, <1>9, <1>10

HopLegs(a, b) ==
  IF b \in Stations THEN <<[station |-> b, energy |-> Energy(a, b), adjacent |-> a = b]>> ELSE << >>

Hop(a, b) ==
  [from |-> a, to |-> b, initialized |-> TRUE, legs |-> HopLegs(a, b),
   tail |-> IF b \in Stations THEN 0 ELSE Energy(a, b),
   travel |-> Dist[<<a, b>>], service |-> ServiceOf(b)]

\* Distances, energies and service times are natural.
LEMMA NodeCosts ==
  ASSUME NEW a \in Nodes, NEW b \in Nodes
  PROVE  Dist[<<a, b>>] \in Nat /\ Energy(a, b) \in Nat /\ ServiceOf(b) \in Nat
<1>1. Dist[<<a, b>>] \in Nat /\ Consumption \in Nat
  BY MetricType, VehicleType
<1>2. ServiceOf(b) \in Nat
  BY MetricType DEF ServiceOf
<1> QED BY <1>1, <1>2 DEF Energy

Ends(a, b) == <<a>> \o << >> \o <<b>>

Stops(b) == IF b \in Stations THEN Append(<< >>, b) ELSE << >>

EdgeLegs(a, b) ==
  [i \in DOMAIN Stops(b) |->
     [station |-> Stops(b)[i], energy |-> Energy(Ends(a, b)[i], Stops(b)[i]),
      adjacent |-> Ends(a, b)[i] = Stops(b)[i]]]

\* What the label of an edge without stations consists of.
LEMMA EdgeParts ==
  ASSUME NEW a, NEW b
  PROVE  EdgeLabel(a, << >>, b) =
        [from |-> a, to |-> b, initialized |-> TRUE,
         legs |-> EdgeLegs(a, b),
         tail |-> IF b \in Stations THEN 0 ELSE Energy(Ends(a, b)[Len(Ends(a, b)) - 1], b),
         travel |-> Travelled(Ends(a, b), [i \in 1..Len(Ends(a, b)) - 1 |-> i]),
         service |-> ServiceOf(b)]
  BY DEF EdgeLabel, SumOver, Folded, Travelled, SolvesTravel, Ahead, Ends, Stops, EdgeLegs

\* The label of such an edge in one record.
LEMMA EdgeIs ==
  ASSUME NEW a \in Nodes, NEW b \in Nodes
  PROVE  EdgeLabel(a, << >>, b) = Hop(a, b) /\ Hop(a, b) \in Labelled
<1>1. PICK nodes : nodes = <<a>> \o << >> \o <<b>>
  OBVIOUS
<1>2. nodes = <<a, b>> /\ Len(nodes) = 2 /\ Len(nodes) - 1 = 1 /\ nodes[1] = a /\ nodes[2] = b
  <2>1. PICK x : x = <<a>> \o << >>
    OBVIOUS
  <2>2. <<a>> \in Seq(Nodes) /\ << >> \in Seq(Nodes) /\ <<b>> \in Seq(Nodes) /\ <<a, b>> \in Seq(Nodes)
    OBVIOUS
  <2>3. x \in Seq(Nodes) /\ Len(x) = 1 /\ x[1] = a
    <3>1. /\ x \in Seq(Nodes) /\ Len(x) = Len(<<a>>) + Len(<< >>)
          /\ \A i \in 1..Len(<<a>>) : x[i] = (<<a>>)[i]
      BY <2>1, <2>2, Concatenated
    <3> QED BY <3>1
  <2>4. nodes \in Seq(Nodes) /\ Len(nodes) = 2 /\ nodes[1] = a /\ nodes[2] = b
    <3>1. nodes = x \o <<b>>
      BY <1>1, <2>1
    <3>2. /\ nodes \in Seq(Nodes) /\ Len(nodes) = Len(x) + Len(<<b>>)
          /\ \A i \in 1..Len(x) : nodes[i] = x[i]
          /\ \A i \in 1..Len(<<b>>) : nodes[Len(x) + i] = (<<b>>)[i]
      BY <2>2, <2>3, <3>1, Concatenated
    <3>3. 1 \in 1..Len(<<b>>) /\ Len(<<b>>) = 1 /\ (<<b>>)[1] = b
      OBVIOUS
    <3> QED BY <2>3, <3>2, <3>3
  <2>5. Len(<<a, b>>) = 2 /\ (<<a, b>>)[1] = a /\ (<<a, b>>)[2] = b
    OBVIOUS
  <2>6. nodes = <<a, b>>
    <3>1. PICK y : y = <<a, b>>
      OBVIOUS
    <3>2. y \in Seq(Nodes) /\ Len(y) = 2 /\ y[1] = a /\ y[2] = b
      BY <2>2, <2>5, <3>1
    <3>3. \A i \in 1..Len(nodes) : nodes[i] = y[i]
      BY <2>4, <3>2
    <3> QED BY <2>4, <3>1, <3>2, <3>3, SameEntries
  <2> QED BY <2>4, <2>6
<1>3. PICK stops : stops = IF b \in Stations THEN Append(<< >>, b) ELSE << >>
  OBVIOUS
<1>4. PICK legs : legs = [i \in DOMAIN stops |->
                  [station |-> stops[i], energy |-> Energy(nodes[i], stops[i]),
                   adjacent |-> nodes[i] = stops[i]]]
  OBVIOUS
<1>5. legs = HopLegs(a, b)
  <2>1. CASE b \in Stations
    <3>1. stops = <<b>> /\ DOMAIN stops = 1..1 /\ stops[1] = b
      BY <1>3, <2>1
    <3>2. legs = [i \in 1..1 |-> [station |-> b, energy |-> Energy(a, b), adjacent |-> a = b]]
      BY <1>2, <1>4, <3>1
    <3> QED BY <2>1, <3>2 DEF HopLegs
  <2>2. CASE b \notin Stations
    <3>1. stops = << >> /\ DOMAIN stops = {}
      BY <1>3, <2>2
    <3> QED BY <1>4, <2>2, <3>1 DEF HopLegs
  <2> QED BY <2>1, <2>2
<1>6. Travelled(nodes, [i \in 1..Len(nodes) - 1 |-> i]) = Dist[<<a, b>>]
  <2>1. Dist[<<a, b>>] \in Nat
    BY NodeCosts
  <2> QED BY <1>2, <2>1, TravelledOnce
<1>7. EdgeLegs(a, b) = legs
  BY <1>1, <1>3, <1>4 DEF EdgeLegs, Ends, Stops
<1>8. EdgeLabel(a, << >>, b) = Hop(a, b)
  
  <2>1. nodes = Ends(a, b)
    BY <1>1 DEF Ends
  <2>2. Travelled(Ends(a, b), [i \in 1..Len(Ends(a, b)) - 1 |-> i]) = Dist[<<a, b>>]
    BY <1>6, <2>1
  <2>3. Energy(Ends(a, b)[Len(Ends(a, b)) - 1], b) = Energy(a, b)
    BY <1>2, <2>1
  <2>4. EdgeLegs(a, b) = HopLegs(a, b)
    BY <1>5, <1>7
  <2> QED BY <2>2, <2>3, <2>4, EdgeParts DEF Hop
<1>9. HopLegs(a, b) \in Seq(Leg)
  <2>1. CASE b \in Stations
    <3>1. PICK leg : leg = [station |-> b, energy |-> Energy(a, b), adjacent |-> a = b]
      OBVIOUS
    <3>2. leg \in Leg
      BY <2>1, <3>1, NodeCosts DEF Leg
    <3> QED BY <2>1, <3>1, <3>2, OneEntry DEF HopLegs
  <2> QED BY <2>1 DEF HopLegs
<1>10. Hop(a, b) \in Labelled
  BY <1>9, NodeCosts DEF Hop, Labelled
<1> QED BY <1>8, <1>10

-----------------------------------------------------------------------------
(* The labels of the stretches of a path.                                  *)

Hops(p) == [i \in 1..(Len(p) - 1) |-> EdgeLabel(p[i], << >>, p[i + 1])]

\* The label of the path p from its node a to its node b.
Ride(p, a, b) == Piece(Hops(p), a, b)

\* The edges of a path have labels.
LEMMA HopsType ==
  ASSUME NEW p \in Seq(Nodes), p # << >>
  PROVE  /\ Hops(p) \in Seq(Label) /\ Len(Hops(p)) = Len(p) - 1
         /\ \A i \in 1..(Len(p) - 1) : /\ Hops(p)[i] = EdgeLabel(p[i], << >>, p[i + 1])
                                       /\ Hops(p)[i] \in Label
<1>1. PICK n \in Nat : n = Len(p) - 1
  <2>1. Len(p) # 0 /\ Len(p) \in Nat
    OBVIOUS
  <2> QED BY <2>1
<1>2. \A i \in 1..n : p[i] \in Nodes /\ p[i + 1] \in Nodes
  BY <1>1
<1>3. \A i \in 1..n : EdgeLabel(p[i], << >>, p[i + 1]) \in Label
  BY <1>2, EdgeIs DEF Label
<1>4. Hops(p) = [i \in 1..n |-> EdgeLabel(p[i], << >>, p[i + 1])]
  BY <1>1 DEF Hops
<1> QED BY <1>1, <1>3, <1>4

\* A stretch of a path has a label.
LEMMA RideType ==
  ASSUME NEW p \in Seq(Nodes), NEW a \in 1..Len(p), NEW b \in a..Len(p)
  PROVE  Ride(p, a, b) \in Label
<1>1. p # << >> /\ \A k \in a..(b - 1) : k \in 1..(Len(p) - 1)
  OBVIOUS
<1>2. \A k \in a..(b - 1) : Hops(p)[k] \in Label
  BY <1>1, HopsType
<1> QED BY <1>2, PieceType DEF Ride

\* A part of one path that goes the way a part of another does.
LEMMA RideSame ==
  ASSUME NEW p \in Seq(Nodes), NEW a \in 1..Len(p), NEW b \in a..Len(p),
         NEW q \in Seq(Nodes), NEW c \in 1..Len(q), NEW d \in c..Len(q), b - a = d - c,
         \A k \in 0..(b - a) : p[a + k] = q[c + k]
  PROVE  Ride(p, a, b) = Ride(q, c, d)
<1>1. PICK m \in Nat : m = b - a /\ m = d - c
  OBVIOUS
<1>2. ASSUME NEW k \in 1..m
      PROVE  Hops(p)[a + k - 1] = Hops(q)[c + k - 1]
  <2>1. PICK i \in 1..(Len(p) - 1), j \in 1..(Len(q) - 1) : i = a + k - 1 /\ j = c + k - 1
    <3>1. a + k - 1 \in 1..(Len(p) - 1) /\ c + k - 1 \in 1..(Len(q) - 1)
      BY <1>1
    <3> QED BY <3>1
  <2>2. k - 1 \in 0..(b - a) /\ k \in 0..(b - a) /\ a + (k - 1) = i /\ c + (k - 1) = j
        /\ a + k = i + 1 /\ c + k = j + 1
    BY <1>1, <2>1
  <2>3. p[i] = q[j] /\ p[i + 1] = q[j + 1]
    BY <2>2
  <2>4. p # << >> /\ q # << >>
    OBVIOUS
  <2>5. Hops(p)[i] = EdgeLabel(p[i], << >>, p[i + 1])
    BY <2>4, HopsType
  <2>6. Hops(q)[j] = EdgeLabel(q[j], << >>, q[j + 1])
    BY <2>4, HopsType
  <2> QED BY <2>1, <2>3, <2>5, <2>6
<1>3. [k \in 1..(b - a) |-> Hops(p)[a + k - 1]] = [k \in 1..(d - c) |-> Hops(q)[c + k - 1]]
  BY <1>1, <1>2
<1> QED BY <1>3 DEF Ride, Piece

\* The label of a path is that of the stretch from its start to its end.
LEMMA RideWhole ==
  ASSUME NEW p \in Seq(Nodes), p # << >>
  PROVE  PathLabel(p) = Ride(p, 1, Len(p))
<1>1. PICK h : h = Hops(p)
  OBVIOUS
<1>2. h \in Seq(Label) /\ Len(h) = Len(p) - 1
  BY <1>1, HopsType
<1>3. h = [k \in 1..(Len(p) - 1) |-> h[1 + k - 1]]
  <2>1. \A k \in 1..(Len(p) - 1) : 1 + k - 1 = k
    OBVIOUS
  <2>2. h = [k \in 1..(Len(p) - 1) |-> h[k]]
    BY <1>1 DEF Hops
  <2> QED BY <2>1, <2>2
<1>4. Ride(p, 1, Len(p)) = JoinAll(h)
  BY <1>1, <1>3 DEF Ride, Piece
<1> QED BY <1>1, <1>4 DEF PathLabel, Hops

\* The label of a part of a path is that of the stretch.
LEMMA RidePart ==
  ASSUME NEW p \in Seq(Nodes), NEW a \in 1..Len(p), NEW b \in a..Len(p)
  PROVE  PathLabel(SubSeq(p, a, b)) = Ride(p, a, b)
<1>1. PICK q : q = SubSeq(p, a, b)
  OBVIOUS
<1>2. q \in Seq(Nodes) /\ Len(q) = b - a + 1 /\ \A i \in 1..(b - a + 1) : q[i] = p[a + i - 1]
  BY <1>1
<1>3. q # << >>
  BY <1>2
<1>4. PathLabel(q) = Ride(q, 1, Len(q))
  BY <1>2, <1>3, RideWhole
<1>5. Ride(p, a, b) = Ride(q, 1, Len(q))
  <2>1. PICK n \in Nat : n = Len(q) /\ n = b - a + 1
    BY <1>2
  <2>2. ASSUME NEW k \in 0..(b - a)
        PROVE  p[a + k] = q[1 + k]
    <3>1. 1 + k \in 1..(b - a + 1) /\ a + (1 + k) - 1 = a + k
      OBVIOUS
    <3> QED BY <1>2, <3>1
  <2>3. 1 \in 1..Len(q) /\ n \in 1..Len(q) /\ b - a = n - 1
    BY <2>1
  <2>4. Ride(p, a, b) = Ride(q, 1, n)
    BY <1>2, <2>2, <2>3, RideSame
  <2> QED BY <2>1, <2>4
<1> QED BY <1>1, <1>4, <1>5

\* The label of an edge is that of the stretch from its start to its end.
LEMMA RideEdge ==
  ASSUME NEW p \in Seq(Nodes), NEW a \in 1..(Len(p) - 1)
  PROVE  Edge(p[a], p[a + 1]) = Ride(p, a, a + 1)
<1>1. p # << >>
  OBVIOUS
<1>2. Hops(p)[a] = EdgeLabel(p[a], << >>, p[a + 1]) /\ Hops(p)[a] \in Label
  BY <1>1, HopsType
<1>3. Piece(Hops(p), a, a + 1) = Hops(p)[a]
  BY <1>2, PieceOne
<1> QED BY <1>2, <1>3 DEF Ride, Edge

\* The tree gives the label of any part of the path.
LEMMA RideRange ==
  ASSUME NEW p \in Seq(Nodes), NEW a \in 1..Len(p), NEW b \in a..Len(p)
  PROVE  RangeLabel(Tree([e \in 1..Len(p) - 1 |-> Edge(p[e], p[e + 1])]), a - 1, b - 1) = Ride(p, a, b)
<1>1. PICK h : h = Hops(p)
  OBVIOUS
<1>2. p # << >>
  OBVIOUS
<1>3. h \in Seq(Label) /\ Len(h) = Len(p) - 1
  BY <1>1, <1>2, HopsType
<1>4. [e \in 1..Len(p) - 1 |-> Edge(p[e], p[e + 1])] = h
  BY <1>1 DEF Hops, Edge
<1>5. PICK f \in Nat, t \in Nat : f = a - 1 /\ t = b - 1 /\ f <= t /\ t <= Len(p) - 1
                                  /\ f + 1 = a /\ t + 1 = b
  OBVIOUS
<1>6. RangeLabel(Tree(h), f, t) = Piece(h, f + 1, t + 1)
  BY <1>3, <1>5, RangeLabelIs
<1> QED BY <1>1, <1>4, <1>5, <1>6 DEF Ride

\* A stretch may be cut at any of its nodes.
LEMMA RideSplit ==
  ASSUME NEW p \in Seq(Nodes), NEW a \in 1..Len(p), NEW b \in a..Len(p), NEW c \in b..Len(p)
  PROVE  Ride(p, a, c) = Join(Ride(p, a, b), Ride(p, b, c))
<1>1. p # << >> /\ (\A k \in a..(c - 1) : k \in 1..(Len(p) - 1)) /\ a <= b /\ b <= c
      /\ a \in Int /\ b \in Int /\ c \in Int
  OBVIOUS
<1>2. \A k \in a..(c - 1) : Hops(p)[k] \in Label
  BY <1>1, HopsType
<1> QED BY <1>1, <1>2, PieceSplit DEF Ride

-----------------------------------------------------------------------------
(* The paths of edited routes.                                             *)

\* What a concatenation consists of, by its two lengths.
LEMMA Appended ==
  ASSUME NEW S, NEW s \in Seq(S), NEW t \in Seq(S), NEW y, y = s \o t,
         NEW m, m = Len(s), NEW k, k = Len(t)
  PROVE  /\ y \in Seq(S) /\ Len(y) = m + k
         /\ \A i \in 1..m : y[i] = s[i]
         /\ \A i \in 1..k : y[m + i] = t[i]
  BY Concatenated

\* The path of a route starts and ends at the depot.
LEMMA ClosedIs ==
  ASSUME NEW v \in Seq(Nodes), NEW n \in Nat, n = Len(v)
  PROVE  /\ Closed(v) \in Seq(Nodes) /\ Len(Closed(v)) = n + 2
         /\ Closed(v)[1] = Depot /\ Closed(v)[n + 2] = Depot
         /\ \A i \in 1..n : Closed(v)[i + 1] = v[i]
<1>1. PICK d : d = <<Depot>>
  OBVIOUS
<1>2. d \in Seq(Nodes) /\ Len(d) = 1 /\ d[1] = Depot
  BY <1>1, OneEntry DEF Nodes
<1>3. PICK x : x = d \o v
  OBVIOUS
<1>4. /\ x \in Seq(Nodes) /\ Len(x) = 1 + n
      /\ \A i \in 1..1 : x[i] = d[i]
      /\ \A i \in 1..n : x[1 + i] = v[i]
  <2>1. d \in Seq(Nodes)
    BY <1>2
  <2>2. /\ x \in Seq(Nodes) /\ Len(x) = Len(d) + Len(v)
        /\ \A i \in 1..Len(d) : x[i] = d[i]
        /\ \A i \in 1..Len(v) : x[Len(d) + i] = v[i]
    BY <1>3, <2>1, Appended
  <2> QED BY <1>2, <2>2
<1>5. PICK y : y = x \o d
  OBVIOUS
<1>6. /\ y \in Seq(Nodes) /\ Len(y) = (1 + n) + 1
      /\ \A i \in 1..(1 + n) : y[i] = x[i]
      /\ \A i \in 1..1 : y[(1 + n) + i] = d[i]
  <2>1. d \in Seq(Nodes) /\ x \in Seq(Nodes)
    BY <1>2, <1>4
  <2>2. /\ y \in Seq(Nodes) /\ Len(y) = Len(x) + Len(d)
        /\ \A i \in 1..Len(x) : y[i] = x[i]
        /\ \A i \in 1..Len(d) : y[Len(x) + i] = d[i]
    BY <1>5, <2>1, Appended
  <2> QED BY <1>2, <1>4, <2>2
<1>7. y = Closed(v)
  BY <1>1, <1>3, <1>5 DEF Closed
<1>8. y[1] = Depot
  <2>1. 1 \in 1..(1 + n) /\ 1 \in 1..1
    OBVIOUS
  <2> QED BY <1>2, <1>4, <1>6, <2>1
<1>9. y[n + 2] = Depot
  <2>1. 1 \in 1..1 /\ (1 + n) + 1 = n + 2
    OBVIOUS
  <2> QED BY <1>2, <1>6, <2>1
<1>10. ASSUME NEW i \in 1..n
       PROVE  y[i + 1] = v[i]
  <2>1. 1 + i = i + 1 /\ i + 1 \in 1..(1 + n)
    OBVIOUS
  <2> QED BY <1>4, <1>6, <2>1
<1>11. (1 + n) + 1 = n + 2
  OBVIOUS
<1> QED BY <1>6, <1>7, <1>8, <1>9, <1>10, <1>11

IsInserted(w, S, v, n, slot, c) ==
  /\ w \in Seq(S) /\ Len(w) = n + 1
  /\ \A i \in 1..(slot - 1) : w[i] = v[i]
  /\ w[slot] = c
  /\ \A i \in slot..n : w[i + 1] = v[i]

\* The visits with one more customer.
LEMMA Inserted ==
  ASSUME NEW S, NEW v \in Seq(S), NEW slot \in 1..(Len(v) + 1), NEW c \in S
  PROVE  IsInserted(InsertAt(v, slot, c), S, v, Len(v), slot, c)
<1>0a. PICK w : w = InsertAt(v, slot, c)
  OBVIOUS
<1>0. PICK n \in Nat : n = Len(v) /\ w = InsertAt(v, slot, c)
  BY <1>0a
<1>1. PICK x : x = SubSeq(v, 1, slot - 1)
  OBVIOUS
<1>2. x \in Seq(S) /\ Len(x) = slot - 1 /\ \A i \in 1..(slot - 1) : x[i] = v[i]
  BY <1>1
<1>3. PICK z : z = SubSeq(v, slot, Len(v))
  OBVIOUS
<1>4. z \in Seq(S) /\ Len(z) = n - slot + 1 /\ \A i \in 1..(n - slot + 1) : z[i] = v[slot + i - 1]
  <2>1. n - slot + 1 \in Nat
    BY <1>0
  <2> QED BY <1>0, <1>3, <2>1
<1>5. PICK e : e = <<c>>
  OBVIOUS
<1>6. e \in Seq(S) /\ Len(e) = 1 /\ e[1] = c
  BY <1>5, OneEntry
<1>7. PICK y : y = x \o e
  OBVIOUS
<1>8. /\ y \in Seq(S) /\ Len(y) = slot
      /\ \A i \in 1..(slot - 1) : y[i] = v[i]
      /\ y[slot] = c
  <2>1. /\ y \in Seq(S) /\ Len(y) = Len(x) + Len(e)
        /\ \A i \in 1..Len(x) : y[i] = x[i]
        /\ \A i \in 1..Len(e) : y[Len(x) + i] = e[i]
    <3>1. x \in Seq(S) /\ e \in Seq(S)
      BY <1>2, <1>6
    <3> QED BY <1>7, <3>1, Appended
  <2>2. 1 \in 1..Len(e) /\ (slot - 1) + 1 = slot
    BY <1>6
  <2> QED BY <1>2, <1>6, <2>1, <2>2
<1>9. w = y \o z
  BY <1>0, <1>1, <1>3, <1>5, <1>7 DEF InsertAt
<1>11. /\ w \in Seq(S) /\ Len(w) = Len(y) + Len(z)
       /\ \A i \in 1..Len(y) : w[i] = y[i]
       /\ \A i \in 1..Len(z) : w[Len(y) + i] = z[i]
  <2>1. y \in Seq(S) /\ z \in Seq(S)
    BY <1>4, <1>8
  <2> QED BY <1>9, <2>1, Appended
<1>12. Len(w) = n + 1
  BY <1>4, <1>8, <1>11
<1>13. (\A i \in 1..(slot - 1) : w[i] = v[i]) /\ w[slot] = c
  BY <1>8, <1>11
<1>14. ASSUME NEW i \in slot..n
       PROVE  w[i + 1] = v[i]
  <2>1. PICK j \in 1..(n - slot + 1) : j = i - slot + 1
    <3>1. i - slot + 1 \in 1..(n - slot + 1)
      OBVIOUS
    <3> QED BY <3>1
  <2>2. slot + j = i + 1 /\ slot + j - 1 = i
    BY <2>1
  <2>3. w[slot + j] = z[j] /\ z[j] = v[slot + j - 1]
    BY <1>4, <1>8, <1>11
  <2> QED BY <2>2, <2>3
<1> QED BY <1>0, <1>11, <1>12, <1>13, <1>14 DEF IsInserted

IsRemoved(w, S, v, n, a) ==
  /\ w \in Seq(S) /\ Len(w) = n - 1
  /\ \A i \in 1..(a - 1) : w[i] = v[i]
  /\ \A i \in a..(n - 1) : w[i] = v[i + 1]

\* The visits with one less.
LEMMA Removed ==
  ASSUME NEW S, NEW v \in Seq(S), NEW a \in 1..Len(v)
  PROVE  IsRemoved(RemoveAt(v, a), S, v, Len(v), a)
<1>0a. PICK w : w = RemoveAt(v, a)
  OBVIOUS
<1>0. PICK n \in Nat : n = Len(v) /\ w = RemoveAt(v, a)
  BY <1>0a
<1>1. PICK x : x = SubSeq(v, 1, a - 1)
  OBVIOUS
<1>2. x \in Seq(S) /\ Len(x) = a - 1 /\ \A i \in 1..(a - 1) : x[i] = v[i]
  BY <1>1
<1>3. PICK z : z = SubSeq(v, a + 1, Len(v))
  OBVIOUS
<1>4. z \in Seq(S) /\ Len(z) = n - a /\ \A i \in 1..(n - a) : z[i] = v[a + i]
  <2>1. n - a \in Nat
    BY <1>0
  <2> QED BY <1>0, <1>3, <2>1
<1>5. w = x \o z
  BY <1>0, <1>1, <1>3 DEF RemoveAt
<1>7. /\ w \in Seq(S) /\ Len(w) = Len(x) + Len(z)
      /\ \A i \in 1..Len(x) : w[i] = x[i]
      /\ \A i \in 1..Len(z) : w[Len(x) + i] = z[i]
  <2>1. x \in Seq(S) /\ z \in Seq(S)
    BY <1>2, <1>4
  <2> QED BY <1>5, <2>1, Appended
<1>8. ASSUME NEW i \in a..(n - 1)
      PROVE  w[i] = v[i + 1]
  <2>1. PICK j \in 1..(n - a) : j = i - a + 1
    <3>1. i - a + 1 \in 1..(n - a)
      OBVIOUS
    <3> QED BY <3>1
  <2>2. (a - 1) + j = i /\ a + j = i + 1
    BY <2>1
  <2>3. w[(a - 1) + j] = z[j] /\ z[j] = v[a + j]
    BY <1>2, <1>4, <1>7
  <2> QED BY <2>2, <2>3
<1>9. Len(w) = n - 1
  BY <1>2, <1>4, <1>7
<1> QED BY <1>0, <1>2, <1>7, <1>8, <1>9 DEF IsRemoved

\* The path of a route with one more, one other or one less visit.
IsInsertedPath(q, p, n, slot, c) ==
  /\ q \in Seq(Nodes) /\ Len(q) = n + 3
  /\ \A i \in 1..slot : q[i] = p[i]
  /\ q[slot + 1] = c
  /\ \A i \in (slot + 1)..(n + 2) : q[i + 1] = p[i]

\* The path of a route with one more visit.
LEMMA InsertedPath ==
  ASSUME NEW v \in Seq(Nodes), NEW slot \in 1..(Len(v) + 1), NEW c \in Nodes
  PROVE  IsInsertedPath(Closed(InsertAt(v, slot, c)), Closed(v), Len(v), slot, c)
<1>0a. PICK p, q : p = Closed(v) /\ q = Closed(InsertAt(v, slot, c))
  OBVIOUS
<1>0. PICK n \in Nat : n = Len(v) /\ p = Closed(v) /\ q = Closed(InsertAt(v, slot, c))
  BY <1>0a
<1>1. PICK w : w = InsertAt(v, slot, c)
  OBVIOUS
<1>2. /\ w \in Seq(Nodes) /\ Len(w) = n + 1
      /\ \A i \in 1..(slot - 1) : w[i] = v[i]
      /\ w[slot] = c
      /\ \A i \in slot..n : w[i + 1] = v[i]
  <2>1. slot \in 1..(n + 1)
    BY <1>0
  <2>2. IsInserted(w, Nodes, v, Len(v), slot, c)
    BY <1>1, Inserted
  <2> QED BY <1>0, <2>2 DEF IsInserted
<1>3. PICK m \in Nat : m = n + 1
  OBVIOUS
<1>4. /\ q \in Seq(Nodes) /\ Len(q) = m + 2
      /\ q[1] = Depot /\ q[m + 2] = Depot
      /\ \A i \in 1..m : q[i + 1] = w[i]
  BY <1>0, <1>1, <1>2, <1>3, ClosedIs
<1>5. /\ p \in Seq(Nodes) /\ Len(p) = n + 2
      /\ p[1] = Depot /\ p[n + 2] = Depot
      /\ \A i \in 1..n : p[i + 1] = v[i]
  BY <1>0, ClosedIs
<1>6. ASSUME NEW i \in 1..slot
      PROVE  q[i] = p[i]
  <2>1. CASE i = 1
    BY <1>4, <1>5, <2>1
  <2>2. CASE i # 1
    <3>1. PICK j \in 1..(slot - 1) : i = j + 1
      <4>1. i - 1 \in 1..(slot - 1) /\ i = (i - 1) + 1
        BY <2>2
      <4> QED BY <4>1
    <3>2. j \in 1..m /\ j \in 1..n
      BY <1>0, <1>3
    <3> QED BY <1>2, <1>4, <1>5, <3>1, <3>2
  <2> QED BY <2>1, <2>2
<1>7. q[slot + 1] = c
  <2>1. slot \in 1..m
    BY <1>0, <1>3
  <2> QED BY <1>0, <1>2, <1>4, <2>1
<1>8. ASSUME NEW i \in (slot + 1)..(n + 2)
      PROVE  q[i + 1] = p[i]
  <2>1. CASE i = n + 2
    <3>1. i + 1 = m + 2
      BY <1>3, <2>1
    <3> QED BY <1>4, <1>5, <2>1, <3>1
  <2>2. CASE i # n + 2
    <3>1. PICK j \in slot..n : i = j + 1
      <4>1. i - 1 \in slot..n /\ i = (i - 1) + 1
        BY <2>2
      <4> QED BY <4>1
    <3>2. j \in 1..n /\ j + 1 \in 1..m
      BY <1>0, <1>3
    <3>3. w[j + 1] = v[j]
      BY <1>2
    <3>4. q[(j + 1) + 1] = w[j + 1]
      BY <1>4, <3>2
    <3>5. p[j + 1] = v[j]
      BY <1>5, <3>2
    <3> QED BY <3>1, <3>3, <3>4, <3>5
  <2> QED BY <2>1, <2>2
<1>9. Len(q) = n + 3
  BY <1>0, <1>3, <1>4
<1> QED BY <1>0, <1>4, <1>6, <1>7, <1>8, <1>9 DEF IsInsertedPath

IsRemovedPath(q, p, n, a) ==
  /\ q \in Seq(Nodes) /\ Len(q) = n + 1
  /\ \A i \in 1..a : q[i] = p[i]
  /\ \A i \in (a + 1)..(n + 1) : q[i] = p[i + 1]

\* The path of a route with one less visit.
LEMMA RemovedPath ==
  ASSUME NEW v \in Seq(Nodes), NEW a \in 1..Len(v)
  PROVE  IsRemovedPath(Closed(RemoveAt(v, a)), Closed(v), Len(v), a)
<1>0a. PICK p, q : p = Closed(v) /\ q = Closed(RemoveAt(v, a))
  OBVIOUS
<1>0. PICK n \in Nat : n = Len(v) /\ p = Closed(v) /\ q = Closed(RemoveAt(v, a))
  BY <1>0a
<1>1. PICK w : w = RemoveAt(v, a)
  OBVIOUS
<1>2. /\ w \in Seq(Nodes) /\ Len(w) = n - 1
      /\ \A i \in 1..(a - 1) : w[i] = v[i]
      /\ \A i \in a..(n - 1) : w[i] = v[i + 1]
  <2>1. a \in 1..n
    BY <1>0
  <2>2. IsRemoved(w, Nodes, v, Len(v), a)
    BY <1>1, Removed
  <2> QED BY <1>0, <2>2 DEF IsRemoved
<1>3. PICK m \in Nat : m = n - 1
  BY <1>0
<1>4. /\ q \in Seq(Nodes) /\ Len(q) = m + 2
      /\ q[1] = Depot /\ q[m + 2] = Depot
      /\ \A i \in 1..m : q[i + 1] = w[i]
  BY <1>0, <1>1, <1>2, <1>3, ClosedIs
<1>5. /\ p \in Seq(Nodes) /\ Len(p) = n + 2
      /\ p[1] = Depot /\ p[n + 2] = Depot
      /\ \A i \in 1..n : p[i + 1] = v[i]
  BY <1>0, ClosedIs
<1>6. ASSUME NEW i \in 1..a
      PROVE  q[i] = p[i]
  <2>1. CASE i = 1
    BY <1>4, <1>5, <2>1
  <2>2. CASE i # 1
    <3>1. PICK j \in 1..(a - 1) : i = j + 1
      <4>1. i - 1 \in 1..(a - 1) /\ i = (i - 1) + 1
        BY <2>2
      <4> QED BY <4>1
    <3>2. j \in 1..m /\ j \in 1..n
      BY <1>0, <1>3
    <3> QED BY <1>2, <1>4, <1>5, <3>1, <3>2
  <2> QED BY <2>1, <2>2
<1>7. ASSUME NEW i \in (a + 1)..(n + 1)
      PROVE  q[i] = p[i + 1]
  <2>1. CASE i = n + 1
    <3>1. i = m + 2 /\ i + 1 = n + 2
      BY <1>3, <2>1
    <3> QED BY <1>4, <1>5, <3>1
  <2>2. CASE i # n + 1
    <3>1. PICK j \in a..(n - 1) : i = j + 1
      <4>1. i - 1 \in a..(n - 1) /\ i = (i - 1) + 1
        BY <2>2
      <4> QED BY <4>1
    <3>2. j \in 1..m /\ j + 1 \in 1..n
      BY <1>0, <1>3
    <3>3. w[j] = v[j + 1]
      BY <1>2
    <3>4. q[j + 1] = w[j]
      BY <1>4, <3>2
    <3>5. p[(j + 1) + 1] = v[j + 1]
      BY <1>5, <3>2
    <3> QED BY <3>1, <3>3, <3>4, <3>5
  <2> QED BY <2>1, <2>2
<1>8. Len(q) = n + 1
  BY <1>0, <1>3, <1>4
<1> QED BY <1>0, <1>4, <1>6, <1>7, <1>8 DEF IsRemovedPath

-----------------------------------------------------------------------------
(* The labels of edits are put together from stretches of the edited path. *)

Stretch(q, x, a, b) == a \in 1..Len(q) /\ b \in a..Len(q) /\ x = Ride(q, a, b)

Ridden(q, s, a, b) ==
  s \in Seq(Label) /\ a \in 1..Len(q) /\ b \in a..Len(q) /\ JoinAll(s) = Ride(q, a, b)

\* One stretch of a path.
LEMMA RiddenOne ==
  ASSUME NEW q \in Seq(Nodes), NEW a, NEW b, NEW x, Stretch(q, x, a, b)
  PROVE  Ridden(q, <<x>>, a, b)
<1>1. a \in 1..Len(q) /\ b \in a..Len(q) /\ x = Ride(q, a, b)
  BY DEF Stretch
<1>2. x \in Label
  BY <1>1, RideType
<1>3. <<x>> \in Seq(Label) /\ <<x>> = Append(<< >>, x) /\ << >> \in Seq(Label)
  BY <1>2
<1>4. JoinAll(<<x>>) = Join(NoLabel, x)
  BY <1>2, <1>3, JoinAllAppend, JoinAllEmpty
<1>5. JoinAll(<<x>>) = x
  BY <1>2, <1>4, JoinUnit
<1> QED BY <1>1, <1>3, <1>5 DEF Ridden

\* A stretch after others.
LEMMA RiddenMore ==
  ASSUME NEW q \in Seq(Nodes), NEW a, NEW b, NEW c, NEW s, NEW x,
         Ridden(q, s, a, b), Stretch(q, x, b, c)
  PROVE  Ridden(q, Append(s, x), a, c)
<1>1. /\ a \in 1..Len(q) /\ b \in a..Len(q) /\ s \in Seq(Label) /\ JoinAll(s) = Ride(q, a, b)
      /\ b \in 1..Len(q) /\ c \in b..Len(q) /\ x = Ride(q, b, c)
  BY DEF Stretch, Ridden
<1>2. x \in Label
  BY <1>1, RideType
<1>3. JoinAll(Append(s, x)) = Join(JoinAll(s), x)
  BY <1>1, <1>2, JoinAllAppend
<1>4. Ride(q, a, c) = Join(Ride(q, a, b), Ride(q, b, c))
  BY <1>1, RideSplit
<1>5. c \in a..Len(q) /\ Append(s, x) \in Seq(Label)
  BY <1>1, <1>2
<1> QED BY <1>1, <1>3, <1>4, <1>5 DEF Ridden

\* A sequence that is another one and an entry.
LEMMA AppendedIs ==
  ASSUME NEW S, NEW s \in Seq(S), NEW x \in S, NEW t \in Seq(S), Len(t) = Len(s) + 1,
         \A i \in 1..Len(s) : t[i] = s[i], t[Len(t)] = x
  PROVE  t = Append(s, x)
<1>1. PICK u \in Seq(S) : u = Append(s, x)
  OBVIOUS
<1>2. Len(u) = Len(s) + 1 /\ u[Len(u)] = x /\ \A i \in 1..Len(s) : u[i] = s[i]
  BY <1>1
<1>3. \A i \in 1..Len(t) : t[i] = u[i]
  BY <1>2
<1> QED BY <1>1, <1>2, <1>3, SameEntries

\* A stretch has a label.
LEMMA StretchType ==
  ASSUME NEW q \in Seq(Nodes), NEW a, NEW b, NEW x, Stretch(q, x, a, b)
  PROVE  x \in Label
  BY RideType DEF Stretch

\* Three to seven stretches one after the other.
LEMMA RiddenThree ==
  ASSUME NEW q \in Seq(Nodes), NEW c0, NEW c1, NEW c2, NEW c3, NEW x1, NEW x2, NEW x3,
         Stretch(q, x1, c0, c1), Stretch(q, x2, c1, c2), Stretch(q, x3, c2, c3)
  PROVE  Ridden(q, <<x1, x2, x3>>, c0, c3)
<1>1. Ridden(q, <<x1>>, c0, c1)
  BY RiddenOne
<1>2. Ridden(q, Append(<<x1>>, x2), c0, c2)
  BY <1>1, RiddenMore
<1>3. Ridden(q, Append(Append(<<x1>>, x2), x3), c0, c3)
  BY <1>2, RiddenMore
<1>4. Append(<<x1>>, x2) = <<x1, x2>>
  <2>1. x1 \in Label /\ x2 \in Label
    BY StretchType
  <2>2. PICK s : s = <<x1>>
    OBVIOUS
  <2>3. PICK t : t = <<x1, x2>>
    OBVIOUS
  <2>4. s \in Seq(Label) /\ t \in Seq(Label)
    BY <2>1, <2>2, <2>3
  <2>5. Len(s) = 1 /\ Len(t) = 2 /\ t[2] = x2 /\ \A i \in 1..1 : t[i] = s[i]
    BY <2>2, <2>3
  <2>6. Len(t) = Len(s) + 1 /\ t[Len(t)] = x2 /\ \A i \in 1..Len(s) : t[i] = s[i]
    BY <2>5
  <2>7. t = Append(s, x2)
    BY <2>1, <2>4, <2>6, AppendedIs
  <2> QED BY <2>2, <2>3, <2>7
<1>5. Append(<<x1, x2>>, x3) = <<x1, x2, x3>>
  <2>1. x1 \in Label /\ x2 \in Label /\ x3 \in Label
    BY StretchType
  <2>2. PICK s : s = <<x1, x2>>
    OBVIOUS
  <2>3. PICK t : t = <<x1, x2, x3>>
    OBVIOUS
  <2>4. s \in Seq(Label) /\ t \in Seq(Label)
    BY <2>1, <2>2, <2>3
  <2>5. Len(s) = 2 /\ Len(t) = 3 /\ t[3] = x3 /\ \A i \in 1..2 : t[i] = s[i]
    BY <2>2, <2>3
  <2>6. Len(t) = Len(s) + 1 /\ t[Len(t)] = x3 /\ \A i \in 1..Len(s) : t[i] = s[i]
    BY <2>5
  <2>7. t = Append(s, x3)
    BY <2>1, <2>4, <2>6, AppendedIs
  <2> QED BY <2>2, <2>3, <2>7
<1> QED BY <1>3, <1>4, <1>5

\* Four stretches.
LEMMA RiddenFour ==
  ASSUME NEW q \in Seq(Nodes), NEW c0, NEW c1, NEW c2, NEW c3, NEW c4,
         NEW x1, NEW x2, NEW x3, NEW x4,
         Stretch(q, x1, c0, c1), Stretch(q, x2, c1, c2), Stretch(q, x3, c2, c3),
         Stretch(q, x4, c3, c4)
  PROVE  Ridden(q, <<x1, x2, x3, x4>>, c0, c4)
<1>1. Ridden(q, <<x1, x2, x3>>, c0, c3)
  BY RiddenThree
<1>2. Ridden(q, Append(<<x1, x2, x3>>, x4), c0, c4)
  BY <1>1, RiddenMore
<1>3. Append(<<x1, x2, x3>>, x4) = <<x1, x2, x3, x4>>
  <2>1. x1 \in Label /\ x2 \in Label /\ x3 \in Label /\ x4 \in Label
    BY StretchType
  <2>2. PICK s : s = <<x1, x2, x3>>
    OBVIOUS
  <2>3. PICK t : t = <<x1, x2, x3, x4>>
    OBVIOUS
  <2>4. s \in Seq(Label) /\ t \in Seq(Label)
    BY <2>1, <2>2, <2>3
  <2>5. Len(s) = 3 /\ Len(t) = 4 /\ t[4] = x4 /\ \A i \in 1..3 : t[i] = s[i]
    BY <2>2, <2>3
  <2>6. Len(t) = Len(s) + 1 /\ t[Len(t)] = x4 /\ \A i \in 1..Len(s) : t[i] = s[i]
    BY <2>5
  <2>7. t = Append(s, x4)
    BY <2>1, <2>4, <2>6, AppendedIs
  <2> QED BY <2>2, <2>3, <2>7
<1> QED BY <1>2, <1>3

\* Six stretches.
LEMMA RiddenSix ==
  ASSUME NEW q \in Seq(Nodes), NEW c0, NEW c1, NEW c2, NEW c3, NEW c4, NEW c5, NEW c6,
         NEW x1, NEW x2, NEW x3, NEW x4, NEW x5, NEW x6,
         Stretch(q, x1, c0, c1), Stretch(q, x2, c1, c2), Stretch(q, x3, c2, c3),
         Stretch(q, x4, c3, c4), Stretch(q, x5, c4, c5), Stretch(q, x6, c5, c6)
  PROVE  Ridden(q, <<x1, x2, x3, x4, x5, x6>>, c0, c6)
<1>1. Ridden(q, <<x1, x2, x3, x4>>, c0, c4)
  BY RiddenFour
<1>2. Ridden(q, Append(<<x1, x2, x3, x4>>, x5), c0, c5)
  BY <1>1, RiddenMore
<1>3. Ridden(q, Append(Append(<<x1, x2, x3, x4>>, x5), x6), c0, c6)
  BY <1>2, RiddenMore
<1>4. Append(<<x1, x2, x3, x4>>, x5) = <<x1, x2, x3, x4, x5>>
  <2>1. x1 \in Label /\ x2 \in Label /\ x3 \in Label /\ x4 \in Label /\ x5 \in Label
    BY StretchType
  <2>2. PICK s : s = <<x1, x2, x3, x4>>
    OBVIOUS
  <2>3. PICK t : t = <<x1, x2, x3, x4, x5>>
    OBVIOUS
  <2>4. s \in Seq(Label) /\ t \in Seq(Label)
    BY <2>1, <2>2, <2>3
  <2>5. Len(s) = 4 /\ Len(t) = 5 /\ t[5] = x5 /\ \A i \in 1..4 : t[i] = s[i]
    BY <2>2, <2>3
  <2>6. Len(t) = Len(s) + 1 /\ t[Len(t)] = x5 /\ \A i \in 1..Len(s) : t[i] = s[i]
    BY <2>5
  <2>7. t = Append(s, x5)
    BY <2>1, <2>4, <2>6, AppendedIs
  <2> QED BY <2>2, <2>3, <2>7
<1>5. Append(<<x1, x2, x3, x4, x5>>, x6) = <<x1, x2, x3, x4, x5, x6>>
  <2>1. x1 \in Label /\ x2 \in Label /\ x3 \in Label /\ x4 \in Label /\ x5 \in Label /\ x6 \in Label
    BY StretchType
  <2>2. PICK s : s = <<x1, x2, x3, x4, x5>>
    OBVIOUS
  <2>3. PICK t : t = <<x1, x2, x3, x4, x5, x6>>
    OBVIOUS
  <2>4. s \in Seq(Label) /\ t \in Seq(Label)
    BY <2>1, <2>2, <2>3
  <2>5. Len(s) = 5 /\ Len(t) = 6 /\ t[6] = x6 /\ \A i \in 1..5 : t[i] = s[i]
    BY <2>2, <2>3
  <2>6. Len(t) = Len(s) + 1 /\ t[Len(t)] = x6 /\ \A i \in 1..Len(s) : t[i] = s[i]
    BY <2>5
  <2>7. t = Append(s, x6)
    BY <2>1, <2>4, <2>6, AppendedIs
  <2> QED BY <2>2, <2>3, <2>7
<1> QED BY <1>3, <1>4, <1>5

\* Seven stretches.
LEMMA RiddenSeven ==
  ASSUME NEW q \in Seq(Nodes), NEW c0, NEW c1, NEW c2, NEW c3, NEW c4, NEW c5, NEW c6, NEW c7,
         NEW x1, NEW x2, NEW x3, NEW x4, NEW x5, NEW x6, NEW x7,
         Stretch(q, x1, c0, c1), Stretch(q, x2, c1, c2), Stretch(q, x3, c2, c3),
         Stretch(q, x4, c3, c4), Stretch(q, x5, c4, c5), Stretch(q, x6, c5, c6),
         Stretch(q, x7, c6, c7)
  PROVE  Ridden(q, <<x1, x2, x3, x4, x5, x6, x7>>, c0, c7)
<1>1. Ridden(q, <<x1, x2, x3, x4, x5, x6>>, c0, c6)
  BY RiddenSix
<1>2. Ridden(q, Append(<<x1, x2, x3, x4, x5, x6>>, x7), c0, c7)
  BY <1>1, RiddenMore
<1>3. Append(<<x1, x2, x3, x4, x5, x6>>, x7) = <<x1, x2, x3, x4, x5, x6, x7>>
  <2>1. x1 \in Label /\ x2 \in Label /\ x3 \in Label /\ x4 \in Label /\ x5 \in Label /\ x6 \in Label /\ x7 \in Label
    BY StretchType
  <2>2. PICK s : s = <<x1, x2, x3, x4, x5, x6>>
    OBVIOUS
  <2>3. PICK t : t = <<x1, x2, x3, x4, x5, x6, x7>>
    OBVIOUS
  <2>4. s \in Seq(Label) /\ t \in Seq(Label)
    BY <2>1, <2>2, <2>3
  <2>5. Len(s) = 6 /\ Len(t) = 7 /\ t[7] = x7 /\ \A i \in 1..6 : t[i] = s[i]
    BY <2>2, <2>3
  <2>6. Len(t) = Len(s) + 1 /\ t[Len(t)] = x7 /\ \A i \in 1..Len(s) : t[i] = s[i]
    BY <2>5
  <2>7. t = Append(s, x7)
    BY <2>1, <2>4, <2>6, AppendedIs
  <2> QED BY <2>2, <2>3, <2>7
<1> QED BY <1>2, <1>3

\* A stretch of the old path that the new one keeps, in the same or in other
\* places, and an edge of the new path.
LEMMA KeptStretch ==
  ASSUME NEW p \in Seq(Nodes), NEW a \in 1..Len(p), NEW b \in a..Len(p), NEW x, x = Ride(p, a, b),
         NEW q \in Seq(Nodes), NEW c \in 1..Len(q), NEW d \in c..Len(q), b - a = d - c,
         \A k \in 0..(b - a) : p[a + k] = q[c + k]
  PROVE  Stretch(q, x, c, d)
<1>1. Ride(p, a, b) = Ride(q, c, d)
  BY RideSame
<1> QED BY <1>1 DEF Stretch

\* An edge of a path is a stretch of it.
LEMMA NewEdge ==
  ASSUME NEW q \in Seq(Nodes), NEW a \in 1..(Len(q) - 1), NEW b, b = a + 1,
         NEW u, NEW w, q[a] = u, q[b] = w
  PROVE  Stretch(q, Edge(u, w), a, b)
<1>1. Edge(q[a], q[a + 1]) = Ride(q, a, a + 1)
  BY RideEdge
<1>2. a \in 1..Len(q) /\ b \in a..Len(q)
  OBVIOUS
<1> QED BY <1>1, <1>2 DEF Stretch

\* What the scorer keeps of a route are stretches of its path.
LEMMA PathParts ==
  ASSUME visits \in Seq(Nodes), NEW p, p = Path, NEW n \in Nat, n = Len(visits)
  PROVE  /\ p \in Seq(Nodes) /\ Len(p) = n + 2
         /\ p[1] = Depot /\ p[n + 2] = Depot
         /\ \A i \in 1..n : p[i + 1] = visits[i]
         /\ \A i \in 1..(n + 2) : Prefix(i) = Ride(p, 1, i) /\ Suffix(i) = Ride(p, i, n + 2)
         /\ \A i \in 1..(n + 2) : \A j \in i..(n + 2) : Between(i, j) = Ride(p, i, j)
<1>1. /\ p \in Seq(Nodes) /\ Len(p) = n + 2
      /\ p[1] = Depot /\ p[n + 2] = Depot
      /\ \A i \in 1..n : p[i + 1] = visits[i]
  BY ClosedIs DEF Path
<1>2. PICK l \in Nat : l = Len(p) /\ l = n + 2
  BY <1>1
<1>3. ASSUME NEW i \in 1..l
      PROVE  Prefix(i) = Ride(p, 1, i) /\ Suffix(i) = Ride(p, i, l)
  <2>1. 1 \in 1..Len(p) /\ i \in 1..Len(p) /\ l \in i..Len(p)
    BY <1>2
  <2>2. PathLabel(SubSeq(p, 1, i)) = Ride(p, 1, i)
    BY <1>1, <2>1, RidePart
  <2>3. PathLabel(SubSeq(p, i, l)) = Ride(p, i, l)
    BY <1>1, <2>1, RidePart
  <2> QED BY <1>2, <2>2, <2>3 DEF Prefix, Suffix
<1>4. ASSUME NEW i \in 1..l, NEW j \in i..l
      PROVE  Between(i, j) = Ride(p, i, j)
  <2>1. i \in 1..Len(p) /\ j \in i..Len(p)
    BY <1>2
  <2>2. RangeLabel(Tree([e \in 1..Len(p) - 1 |-> Edge(p[e], p[e + 1])]), i - 1, j - 1) = Ride(p, i, j)
    BY <1>1, <2>1, RideRange
  <2> QED BY <2>2 DEF Between
<1> QED BY <1>1, <1>2, <1>3, <1>4

\* Stretches that make up the path of a route join to its label.
LEMMA RouteRidden ==
  ASSUME NEW v \in Seq(Nodes), NEW q, q = Closed(v), NEW l, l = Len(v) + 2, NEW s, Ridden(q, s, 1, l)
  PROVE  JoinAll(s) = RouteLabel(v)
<1>1. PICK n \in Nat : n = Len(v)
  OBVIOUS
<1>2. q \in Seq(Nodes) /\ Len(q) = n + 2
  BY <1>1, ClosedIs
<1>3. q # << >> /\ Len(q) = l
  BY <1>1, <1>2
<1>4. PathLabel(q) = Ride(q, 1, Len(q))
  BY <1>2, <1>3, RideWhole
<1> QED BY <1>3, <1>4 DEF Ridden, RouteLabel

\* An insertion is scored as the route with one more visit.
LEMMA InsertionIs ==
  ASSUME visits \in Seq(Nodes), NEW slot \in 1..(Len(visits) + 1), NEW c \in Nodes
  PROVE  InsertionLabel(slot, c) = RouteLabel(InsertAt(visits, slot, c))
<1>1. PICK n \in Nat : n = Len(visits)
  OBVIOUS
<1>2. PICK p : p = Path
  OBVIOUS
<1>3. PICK w : w = InsertAt(visits, slot, c)
  OBVIOUS
<1>4. PICK q : q = Closed(w)
  OBVIOUS
<1>5. /\ p \in Seq(Nodes) /\ Len(p) = n + 2
      /\ \A i \in 1..(n + 2) : Prefix(i) = Ride(p, 1, i) /\ Suffix(i) = Ride(p, i, n + 2)
  BY <1>1, <1>2, PathParts
<1>6. w \in Seq(Nodes) /\ Len(w) = n + 1
  <2>1. IsInserted(w, Nodes, visits, Len(visits), slot, c)
    BY <1>3, Inserted
  <2> QED BY <1>1, <2>1 DEF IsInserted
<1>7. /\ q \in Seq(Nodes) /\ Len(q) = n + 3
      /\ \A i \in 1..slot : q[i] = p[i]
      /\ q[slot + 1] = c
      /\ \A i \in (slot + 1)..(n + 2) : q[i + 1] = p[i]
  <2>1. IsInsertedPath(Closed(InsertAt(visits, slot, c)), Closed(visits), Len(visits), slot, c)
    BY InsertedPath
  <2>2. IsInsertedPath(q, p, n, slot, c)
    BY <1>1, <1>2, <1>3, <1>4, <2>1 DEF Path
  <2> QED BY <2>2 DEF IsInsertedPath
<1>8. slot \in 1..(n + 1) /\ slot \in 1..(n + 2) /\ slot + 1 \in 1..(n + 2)
  BY <1>1
<1>9. Stretch(q, Prefix(slot), 1, slot)
  <2>1. 1 \in 1..Len(p) /\ slot \in 1..Len(p) /\ 1 \in 1..Len(q) /\ slot \in 1..Len(q)
    BY <1>5, <1>7, <1>8
  <2>2. \A k \in 0..(slot - 1) : p[1 + k] = q[1 + k]
    <3>1. \A k \in 0..(slot - 1) : 1 + k \in 1..slot
      OBVIOUS
    <3> QED BY <1>7, <3>1
  <2>3. Prefix(slot) = Ride(p, 1, slot)
    BY <1>5, <1>8
  <2>4. p \in Seq(Nodes) /\ q \in Seq(Nodes)
    BY <1>5, <1>7
  <2> QED BY <2>1, <2>2, <2>3, <2>4, KeptStretch
<1>10. Stretch(q, Edge(Path[slot], c), slot, slot + 1)
  <2>1. slot \in 1..(Len(q) - 1) /\ q[slot] = p[slot] /\ q[slot + 1] = c
    BY <1>7, <1>8
  <2> QED BY <1>2, <1>7, <2>1, NewEdge
<1>11. Stretch(q, Edge(c, Path[slot + 1]), slot + 1, slot + 2)
  <2>1. slot + 1 \in 1..(Len(q) - 1) /\ q[slot + 1] = c /\ slot + 2 = (slot + 1) + 1
    BY <1>7, <1>8
  <2>2. q[slot + 2] = p[slot + 1]
    <3>1. slot + 1 \in (slot + 1)..(n + 2)
      BY <1>8
    <3> QED BY <1>7, <2>1, <3>1
  <2> QED BY <1>2, <1>7, <2>1, <2>2, NewEdge
<1>12. Stretch(q, Suffix(slot + 1), slot + 2, n + 3)
  <2>1. PICK a \in Nat, b \in Nat, e \in Nat, f \in Nat : a = slot + 1 /\ b = n + 2 /\ e = slot + 2 /\ f = n + 3
    OBVIOUS
  <2>2. a \in 1..Len(p) /\ b \in a..Len(p) /\ e \in 1..Len(q) /\ f \in e..Len(q) /\ b - a = f - e
    BY <1>5, <1>7, <1>8, <2>1
  <2>3. ASSUME NEW k \in 0..(b - a)
        PROVE  p[a + k] = q[e + k]
    <3>1. a + k \in (slot + 1)..(n + 2) /\ e + k = (a + k) + 1
      BY <2>1, <2>2
    <3> QED BY <1>7, <3>1
  <2>4. Suffix(a) = Ride(p, a, b)
    BY <1>5, <1>8, <2>1
  <2>5. Stretch(q, Suffix(a), e, f)
    BY <1>5, <1>7, <2>2, <2>3, <2>4, KeptStretch
  <2> QED BY <2>1, <2>5
<1>13. Ridden(q, <<Prefix(slot), Edge(Path[slot], c), Edge(c, Path[slot + 1]), Suffix(slot + 1)>>, 1, n + 3)
  BY <1>7, <1>9, <1>10, <1>11, <1>12, RiddenFour
<1>14. n + 3 = Len(w) + 2
  BY <1>6
<1>15. InsertionLabel(slot, c) = RouteLabel(w)
  BY <1>4, <1>6, <1>13, <1>14, RouteRidden DEF InsertionLabel
<1> QED BY <1>3, <1>15

\* A removal is scored as the route with one less visit.
LEMMA RemovalIs ==
  ASSUME visits \in Seq(Nodes), NEW a \in 1..Len(visits)
  PROVE  RemovalLabel(a) = RouteLabel(RemoveAt(visits, a))
<1>1. PICK n \in Nat : n = Len(visits)
  OBVIOUS
<1>2. PICK p : p = Path
  OBVIOUS
<1>3. PICK w : w = RemoveAt(visits, a)
  OBVIOUS
<1>4. PICK q : q = Closed(w)
  OBVIOUS
<1>5. /\ p \in Seq(Nodes) /\ Len(p) = n + 2
      /\ \A i \in 1..(n + 2) : Prefix(i) = Ride(p, 1, i) /\ Suffix(i) = Ride(p, i, n + 2)
  BY <1>1, <1>2, PathParts
<1>6. w \in Seq(Nodes) /\ Len(w) = n - 1
  <2>1. IsRemoved(w, Nodes, visits, Len(visits), a)
    BY <1>3, Removed
  <2> QED BY <1>1, <2>1 DEF IsRemoved
<1>7. /\ q \in Seq(Nodes) /\ Len(q) = n + 1
      /\ \A i \in 1..a : q[i] = p[i]
      /\ \A i \in (a + 1)..(n + 1) : q[i] = p[i + 1]
  <2>1. IsRemovedPath(Closed(RemoveAt(visits, a)), Closed(visits), Len(visits), a)
    BY RemovedPath
  <2>2. IsRemovedPath(q, p, n, a)
    BY <1>1, <1>2, <1>3, <1>4, <2>1 DEF Path
  <2> QED BY <2>2 DEF IsRemovedPath
<1>8. a \in 1..n /\ a \in 1..(n + 2) /\ a + 2 \in 1..(n + 2)
  BY <1>1
<1>9. Stretch(q, Prefix(a), 1, a)
  <2>1. 1 \in 1..Len(p) /\ a \in 1..Len(p) /\ 1 \in 1..Len(q) /\ a \in 1..Len(q)
    BY <1>5, <1>7, <1>8
  <2>2. \A k \in 0..(a - 1) : p[1 + k] = q[1 + k]
    <3>1. \A k \in 0..(a - 1) : 1 + k \in 1..a
      OBVIOUS
    <3> QED BY <1>7, <3>1
  <2>3. Prefix(a) = Ride(p, 1, a)
    BY <1>5, <1>8
  <2>4. p \in Seq(Nodes) /\ q \in Seq(Nodes)
    BY <1>5, <1>7
  <2> QED BY <2>1, <2>2, <2>3, <2>4, KeptStretch
<1>10. Stretch(q, Edge(Path[a], Path[a + 2]), a, a + 1)
  <2>1. a \in 1..(Len(q) - 1) /\ q[a] = p[a]
    BY <1>7, <1>8
  <2>2. q[a + 1] = p[a + 2]
    <3>1. a + 1 \in (a + 1)..(n + 1) /\ (a + 1) + 1 = a + 2
      BY <1>8
    <3> QED BY <1>7, <3>1
  <2> QED BY <1>2, <1>7, <2>1, <2>2, NewEdge
<1>11. Stretch(q, Suffix(a + 2), a + 1, n + 1)
  <2>1. PICK x \in Nat, y \in Nat, e \in Nat, f \in Nat : x = a + 2 /\ y = n + 2 /\ e = a + 1 /\ f = n + 1
    OBVIOUS
  <2>2. x \in 1..Len(p) /\ y \in x..Len(p) /\ e \in 1..Len(q) /\ f \in e..Len(q) /\ y - x = f - e
    BY <1>5, <1>7, <1>8, <2>1
  <2>3. ASSUME NEW k \in 0..(y - x)
        PROVE  p[x + k] = q[e + k]
    <3>1. e + k \in (a + 1)..(n + 1) /\ x + k = (e + k) + 1
      BY <2>1, <2>2
    <3> QED BY <1>7, <3>1
  <2>4. Suffix(x) = Ride(p, x, y)
    BY <1>5, <1>8, <2>1
  <2>5. Stretch(q, Suffix(x), e, f)
    BY <1>5, <1>7, <2>2, <2>3, <2>4, KeptStretch
  <2> QED BY <2>1, <2>5
<1>12. Ridden(q, <<Prefix(a), Edge(Path[a], Path[a + 2]), Suffix(a + 2)>>, 1, n + 1)
  BY <1>7, <1>9, <1>10, <1>11, RiddenThree
<1>13. n + 1 = Len(w) + 2
  BY <1>6
<1>14. RemovalLabel(a) = RouteLabel(w)
  BY <1>4, <1>6, <1>12, <1>13, RouteRidden DEF RemovalLabel
<1> QED BY <1>3, <1>14

\* A replacement is scored as the route with another visit in its place.
LEMMA ReplacementIs ==
  ASSUME visits \in Seq(Nodes), NEW a \in 1..Len(visits), NEW c \in Nodes
  PROVE  /\ [visits EXCEPT ![a] = c] \in Seq(Nodes)
         /\ ReplacementLabel(a, c) = RouteLabel([visits EXCEPT ![a] = c])
<1>1. PICK n \in Nat : n = Len(visits)
  OBVIOUS
<1>2. PICK p : p = Path
  OBVIOUS
<1>3. PICK w : w = [visits EXCEPT ![a] = c]
  OBVIOUS
<1>4. PICK q : q = Closed(w)
  OBVIOUS
<1>5. /\ p \in Seq(Nodes) /\ Len(p) = n + 2
      /\ p[1] = Depot /\ p[n + 2] = Depot
      /\ \A i \in 1..n : p[i + 1] = visits[i]
      /\ \A i \in 1..(n + 2) : Prefix(i) = Ride(p, 1, i) /\ Suffix(i) = Ride(p, i, n + 2)
  BY <1>1, <1>2, PathParts
<1>6. w \in Seq(Nodes) /\ Len(w) = n /\ w[a] = c /\ \A i \in 1..n : i # a => w[i] = visits[i]
  BY <1>1, <1>3
<1>7. /\ q \in Seq(Nodes) /\ Len(q) = n + 2
      /\ q[1] = Depot /\ q[n + 2] = Depot
      /\ \A i \in 1..n : q[i + 1] = w[i]
  BY <1>4, <1>6, ClosedIs
<1>8. a \in 1..n /\ a \in 1..(n + 2) /\ a + 2 \in 1..(n + 2)
  BY <1>1
<1>9. q[a + 1] = c
  BY <1>6, <1>7, <1>8
<1>10. ASSUME NEW i \in 1..(n + 2), i # a + 1
       PROVE  q[i] = p[i]
  <2>1. CASE i = 1 \/ i = n + 2
    BY <1>5, <1>7, <2>1
  <2>2. CASE ~(i = 1 \/ i = n + 2)
    <3>1. PICK j \in 1..n : i = j + 1 /\ j # a
      <4>1. i - 1 \in 1..n /\ i = (i - 1) + 1 /\ i - 1 # a
        BY <1>10, <2>2
      <4> QED BY <4>1
    <3> QED BY <1>5, <1>6, <1>7, <3>1
  <2> QED BY <2>1, <2>2
<1>11. Stretch(q, Prefix(a), 1, a)
  <2>1. 1 \in 1..Len(p) /\ a \in 1..Len(p) /\ 1 \in 1..Len(q) /\ a \in 1..Len(q)
    BY <1>5, <1>7, <1>8
  <2>2. ASSUME NEW k \in 0..(a - 1)
        PROVE  p[1 + k] = q[1 + k]
    <3>1. 1 + k \in 1..(n + 2) /\ 1 + k # a + 1
      BY <1>8
    <3> QED BY <1>10, <3>1
  <2>3. Prefix(a) = Ride(p, 1, a)
    BY <1>5, <1>8
  <2> QED BY <1>5, <1>7, <2>1, <2>2, <2>3, KeptStretch
<1>12. Stretch(q, Edge(Path[a], c), a, a + 1)
  <2>1. a \in 1..(Len(q) - 1) /\ a \in 1..(n + 2) /\ a # a + 1
    BY <1>7, <1>8
  <2>2. q[a] = p[a]
    BY <1>10, <2>1
  <2> QED BY <1>2, <1>7, <1>9, <2>1, <2>2, NewEdge
<1>13. Stretch(q, Edge(c, Path[a + 2]), a + 1, a + 2)
  <2>1. a + 1 \in 1..(Len(q) - 1) /\ a + 2 = (a + 1) + 1 /\ a + 2 \in 1..(n + 2) /\ a + 2 # a + 1
    BY <1>7, <1>8
  <2>2. q[a + 2] = p[a + 2]
    BY <1>10, <2>1
  <2> QED BY <1>2, <1>7, <1>9, <2>1, <2>2, NewEdge
<1>14. Stretch(q, Suffix(a + 2), a + 2, n + 2)
  <2>1. PICK x \in Nat, y \in Nat : x = a + 2 /\ y = n + 2
    OBVIOUS
  <2>2. x \in 1..Len(p) /\ y \in x..Len(p) /\ x \in 1..Len(q) /\ y \in x..Len(q)
    BY <1>5, <1>7, <1>8, <2>1
  <2>3. ASSUME NEW k \in 0..(y - x)
        PROVE  p[x + k] = q[x + k]
    <3>1. x + k \in 1..(n + 2) /\ x + k # a + 1
      BY <1>8, <2>1
    <3> QED BY <1>10, <3>1
  <2>4. Suffix(x) = Ride(p, x, y)
    BY <1>5, <1>8, <2>1
  <2>5. Stretch(q, Suffix(x), x, y)
    BY <1>5, <1>7, <2>2, <2>3, <2>4, KeptStretch
  <2> QED BY <2>1, <2>5
<1>15. Ridden(q, <<Prefix(a), Edge(Path[a], c), Edge(c, Path[a + 2]), Suffix(a + 2)>>, 1, n + 2)
  BY <1>7, <1>11, <1>12, <1>13, <1>14, RiddenFour
<1>16. n + 2 = Len(w) + 2
  BY <1>6
<1>17. ReplacementLabel(a, c) = RouteLabel(w)
  BY <1>4, <1>6, <1>15, <1>16, RouteRidden DEF ReplacementLabel
<1> QED BY <1>3, <1>6, <1>17

\* A swap is scored as the route with the two visits exchanged.
LEMMA SwapIs ==
  ASSUME visits \in Seq(Nodes), NEW a \in 1..Len(visits), NEW b \in 1..Len(visits), b > a + 1
  PROVE  /\ [visits EXCEPT ![a] = visits[b], ![b] = visits[a]] \in Seq(Nodes)
         /\ SwapLabel(a, b) = RouteLabel([visits EXCEPT ![a] = visits[b], ![b] = visits[a]])
<1>1. PICK n \in Nat : n = Len(visits)
  OBVIOUS
<1>2. PICK p : p = Path
  OBVIOUS
<1>3. PICK w : w = [visits EXCEPT ![a] = visits[b], ![b] = visits[a]]
  OBVIOUS
<1>4. PICK q : q = Closed(w)
  OBVIOUS
<1>5. /\ p \in Seq(Nodes) /\ Len(p) = n + 2
      /\ p[1] = Depot /\ p[n + 2] = Depot
      /\ \A i \in 1..n : p[i + 1] = visits[i]
      /\ \A i \in 1..(n + 2) : Prefix(i) = Ride(p, 1, i) /\ Suffix(i) = Ride(p, i, n + 2)
      /\ \A i \in 1..(n + 2) : \A j \in i..(n + 2) : Between(i, j) = Ride(p, i, j)
  BY <1>1, <1>2, PathParts
<1>6. /\ w \in Seq(Nodes) /\ Len(w) = n /\ w[a] = visits[b] /\ w[b] = visits[a]
      /\ \A i \in 1..n : i # a /\ i # b => w[i] = visits[i]
  BY <1>1, <1>3
<1>7. /\ q \in Seq(Nodes) /\ Len(q) = n + 2
      /\ q[1] = Depot /\ q[n + 2] = Depot
      /\ \A i \in 1..n : q[i + 1] = w[i]
  BY <1>4, <1>6, ClosedIs
<1>8. a \in 1..n /\ b \in 1..n /\ a + 2 <= b
  BY <1>1
<1>9. q[a + 1] = p[b + 1] /\ q[b + 1] = p[a + 1]
  BY <1>5, <1>6, <1>7, <1>8
<1>10. ASSUME NEW i \in 1..(n + 2), i # a + 1, i # b + 1
       PROVE  q[i] = p[i]
  <2>1. CASE i = 1 \/ i = n + 2
    BY <1>5, <1>7, <2>1
  <2>2. CASE ~(i = 1 \/ i = n + 2)
    <3>1. PICK j \in 1..n : i = j + 1 /\ j # a /\ j # b
      <4>1. i - 1 \in 1..n /\ i = (i - 1) + 1 /\ i - 1 # a /\ i - 1 # b
        BY <1>10, <2>2
      <4> QED BY <4>1
    <3> QED BY <1>5, <1>6, <1>7, <3>1
  <2> QED BY <2>1, <2>2
<1>11. Stretch(q, Prefix(a), 1, a)
  <2>1. 1 \in 1..Len(p) /\ a \in 1..Len(p) /\ 1 \in 1..Len(q) /\ a \in 1..Len(q)
    BY <1>5, <1>7, <1>8
  <2>2. ASSUME NEW k \in 0..(a - 1)
        PROVE  p[1 + k] = q[1 + k]
    <3>1. 1 + k \in 1..(n + 2) /\ 1 + k # a + 1 /\ 1 + k # b + 1
      BY <1>8
    <3> QED BY <1>10, <3>1
  <2>3. Prefix(a) = Ride(p, 1, a)
    BY <1>5, <1>8
  <2> QED BY <1>5, <1>7, <2>1, <2>2, <2>3, KeptStretch
<1>12. Stretch(q, Edge(Path[a], Path[b + 1]), a, a + 1)
  <2>1. a \in 1..(Len(q) - 1) /\ a \in 1..(n + 2) /\ a # a + 1 /\ a # b + 1
    BY <1>7, <1>8
  <2>2. q[a] = p[a]
    BY <1>10, <2>1
  <2> QED BY <1>2, <1>7, <1>9, <2>1, <2>2, NewEdge
<1>13. Stretch(q, Edge(Path[b + 1], Path[a + 2]), a + 1, a + 2)
  <2>1. /\ a + 1 \in 1..(Len(q) - 1) /\ a + 2 = (a + 1) + 1
        /\ a + 2 \in 1..(n + 2) /\ a + 2 # a + 1 /\ a + 2 # b + 1
    BY <1>7, <1>8
  <2>2. q[a + 2] = p[a + 2]
    BY <1>10, <2>1
  <2> QED BY <1>2, <1>7, <1>9, <2>1, <2>2, NewEdge
<1>14. Stretch(q, Between(a + 2, b), a + 2, b)
  <2>1. PICK x \in Nat : x = a + 2
    OBVIOUS
  <2>2. x \in 1..Len(p) /\ b \in x..Len(p) /\ x \in 1..Len(q) /\ b \in x..Len(q)
    BY <1>5, <1>7, <1>8, <2>1
  <2>3. ASSUME NEW k \in 0..(b - x)
        PROVE  p[x + k] = q[x + k]
    <3>1. x + k \in 1..(n + 2) /\ x + k # a + 1 /\ x + k # b + 1
      BY <1>8, <2>1
    <3> QED BY <1>10, <3>1
  <2>4. Between(x, b) = Ride(p, x, b)
    <3>1. x \in 1..(n + 2) /\ b \in x..(n + 2)
      BY <1>8, <2>1
    <3> QED BY <1>5, <3>1
  <2>5. Stretch(q, Between(x, b), x, b)
    BY <1>5, <1>7, <2>2, <2>3, <2>4, KeptStretch
  <2> QED BY <2>1, <2>5
<1>15. Stretch(q, Edge(Path[b], Path[a + 1]), b, b + 1)
  <2>1. b \in 1..(Len(q) - 1) /\ b \in 1..(n + 2) /\ b # a + 1 /\ b # b + 1
    BY <1>7, <1>8
  <2>2. q[b] = p[b]
    BY <1>10, <2>1
  <2> QED BY <1>2, <1>7, <1>9, <2>1, <2>2, NewEdge
<1>16. Stretch(q, Edge(Path[a + 1], Path[b + 2]), b + 1, b + 2)
  <2>1. /\ b + 1 \in 1..(Len(q) - 1) /\ b + 2 = (b + 1) + 1
        /\ b + 2 \in 1..(n + 2) /\ b + 2 # a + 1 /\ b + 2 # b + 1
    BY <1>7, <1>8
  <2>2. q[b + 2] = p[b + 2]
    BY <1>10, <2>1
  <2> QED BY <1>2, <1>7, <1>9, <2>1, <2>2, NewEdge
<1>17. Stretch(q, Suffix(b + 2), b + 2, n + 2)
  <2>1. PICK x \in Nat, y \in Nat : x = b + 2 /\ y = n + 2
    OBVIOUS
  <2>2. x \in 1..Len(p) /\ y \in x..Len(p) /\ x \in 1..Len(q) /\ y \in x..Len(q)
    BY <1>5, <1>7, <1>8, <2>1
  <2>3. ASSUME NEW k \in 0..(y - x)
        PROVE  p[x + k] = q[x + k]
    <3>1. x + k \in 1..(n + 2) /\ x + k # a + 1 /\ x + k # b + 1
      BY <1>8, <2>1
    <3> QED BY <1>10, <3>1
  <2>4. Suffix(x) = Ride(p, x, y)
    <3>1. x \in 1..(n + 2)
      BY <1>8, <2>1
    <3> QED BY <1>5, <2>1, <3>1
  <2>5. Stretch(q, Suffix(x), x, y)
    BY <1>5, <1>7, <2>2, <2>3, <2>4, KeptStretch
  <2> QED BY <2>1, <2>5
<1>18. PICK s : s = <<Prefix(a), Edge(Path[a], Path[b + 1]), Edge(Path[b + 1], Path[a + 2]),
                      Between(a + 2, b),
                      Edge(Path[b], Path[a + 1]), Edge(Path[a + 1], Path[b + 2]), Suffix(b + 2)>>
  OBVIOUS
<1>19. Ridden(q, s, 1, n + 2)
  BY <1>7, <1>11, <1>12, <1>13, <1>14, <1>15, <1>16, <1>17, <1>18, RiddenSeven
<1>20. SwapLabel(a, b) = JoinAll(s)
  <2>1. /\ (a + 1) - 1 = a /\ (b + 1) - 1 = b /\ (a + 1) + 1 = a + 2 /\ (b + 1) + 1 = b + 2
    OBVIOUS
  <2> QED BY <1>18, <2>1 DEF SwapLabel
<1>21. n + 2 = Len(w) + 2
  BY <1>6
<1>22. SwapLabel(a, b) = RouteLabel(w)
  BY <1>4, <1>6, <1>19, <1>20, <1>21, RouteRidden
<1> QED BY <1>3, <1>6, <1>22

\* The path of a route in which the visit at a has moved to place s.
IsMovedPath(q, p, n, a, s) ==
  /\ q \in Seq(Nodes) /\ Len(q) = n + 2
  /\ q[s + 1] = p[a + 1]
  /\ \A i \in 1..(n + 2) : i <= s /\ i <= a => q[i] = p[i]
  /\ \A i \in 1..(n + 2) : i > s + 1 /\ i > a + 1 => q[i] = p[i]
  /\ \A i \in 1..(n + 1) : s < i /\ i <= a => q[i + 1] = p[i]
  /\ \A i \in 1..(n + 1) : a < i /\ i <= s => q[i] = p[i + 1]

Moved(v, a, s) == InsertAt(RemoveAt(v, a), s, v[a])

\* The path of a route of which one visit has moved.
LEMMA MovedPath ==
  ASSUME NEW v \in Seq(Nodes), NEW a \in 1..Len(v), NEW s \in 1..Len(v)
  PROVE  /\ Moved(v, a, s) \in Seq(Nodes) /\ Len(Moved(v, a, s)) = Len(v)
         /\ IsMovedPath(Closed(Moved(v, a, s)), Closed(v), Len(v), a, s)
<1>1a. PICK p, q, r, w : p = Closed(v) /\ r = RemoveAt(v, a) /\ w = InsertAt(r, s, v[a]) /\ q = Closed(w)
  OBVIOUS
<1>1. PICK n \in Nat : n = Len(v) /\ p = Closed(v) /\ r = RemoveAt(v, a) /\ w = InsertAt(r, s, v[a]) /\ q = Closed(w)
  BY <1>1a
<1>2a. PICK u : u = Closed(r)
  BY <1>1
<1>2. PICK m \in Nat : m = n - 1 /\ u = Closed(r)
  BY <1>1, <1>2a
<1>3. r \in Seq(Nodes) /\ Len(r) = m
  <2>1. IsRemoved(r, Nodes, v, Len(v), a)
    BY <1>1, Removed
  <2> QED BY <1>1, <1>2, <2>1 DEF IsRemoved
<1>4. /\ u \in Seq(Nodes) /\ Len(u) = n + 1
      /\ \A i \in 1..a : u[i] = p[i]
      /\ \A i \in (a + 1)..(n + 1) : u[i] = p[i + 1]
  <2>1. IsRemovedPath(u, p, n, a)
    BY <1>1, <1>2, RemovedPath
  <2> QED BY <2>1 DEF IsRemovedPath
<1>5. s \in 1..(Len(r) + 1) /\ v[a] \in Nodes /\ a \in 1..n /\ s \in 1..n
  BY <1>1, <1>2, <1>3
<1>6. w \in Seq(Nodes) /\ Len(w) = n
  <2>1. IsInserted(w, Nodes, r, Len(r), s, v[a])
    BY <1>1, <1>3, <1>5, Inserted
  <2> QED BY <1>2, <1>3, <2>1 DEF IsInserted
<1>7. /\ q \in Seq(Nodes) /\ Len(q) = m + 3
      /\ \A i \in 1..s : q[i] = u[i]
      /\ q[s + 1] = v[a]
      /\ \A i \in (s + 1)..(m + 2) : q[i + 1] = u[i]
  <2>1. IsInsertedPath(q, u, Len(r), s, v[a])
    BY <1>1, <1>2, <1>3, <1>5, InsertedPath
  <2> QED BY <1>3, <2>1 DEF IsInsertedPath
<1>8. p[a + 1] = v[a]
  BY <1>1, ClosedIs
<1>9. ASSUME NEW i \in 1..(n + 2), i <= s, i <= a
      PROVE  q[i] = p[i]
  BY <1>4, <1>7, <1>9
<1>10. ASSUME NEW i \in 1..(n + 2), i > s + 1, i > a + 1
       PROVE  q[i] = p[i]
  <2>1. PICK j \in (s + 1)..(n + 1) : i = j + 1 /\ j \in (a + 1)..(n + 1) /\ j \in (s + 1)..(m + 2)
    <3>1. i - 1 \in (s + 1)..(n + 1) /\ i = (i - 1) + 1 /\ i - 1 \in (a + 1)..(n + 1)
          /\ i - 1 \in (s + 1)..(m + 2)
      BY <1>2, <1>5, <1>10
    <3> QED BY <3>1
  <2> QED BY <1>4, <1>7, <2>1
<1>11. ASSUME NEW i \in 1..(n + 1), s < i, i <= a
       PROVE  q[i + 1] = p[i]
  <2>1. i \in (s + 1)..(m + 2) /\ i \in 1..a
    BY <1>2, <1>5, <1>11
  <2> QED BY <1>4, <1>7, <2>1
<1>12. ASSUME NEW i \in 1..(n + 1), a < i, i <= s
       PROVE  q[i] = p[i + 1]
  <2>1. i \in 1..s /\ i \in (a + 1)..(n + 1)
    BY <1>5, <1>12
  <2> QED BY <1>4, <1>7, <2>1
<1>13. Len(q) = n + 2
  BY <1>2, <1>7
<1>14. IsMovedPath(q, p, n, a, s)
  BY <1>7, <1>8, <1>9, <1>10, <1>11, <1>12, <1>13 DEF IsMovedPath
<1> QED BY <1>1, <1>6, <1>14 DEF Moved

\* A relocation is scored as the route whose visit has moved.
LEMMA RelocationIs ==
  ASSUME visits \in Seq(Nodes), NEW a \in 1..Len(visits), NEW slot \in 1..(Len(visits) + 1),
         NEW s, s = IF slot <= a THEN slot ELSE slot - 1
  PROVE  /\ Moved(visits, a, s) \in Seq(Nodes)
         /\ RelocateLabel(a, slot) = RouteLabel(Moved(visits, a, s))
<1>1. PICK n \in Nat : n = Len(visits)
  OBVIOUS
<1>2. PICK p : p = Path
  OBVIOUS
<1>3. PICK w : w = Moved(visits, a, s)
  OBVIOUS
<1>4. PICK q : q = Closed(w)
  OBVIOUS
<1>5. /\ p \in Seq(Nodes) /\ Len(p) = n + 2
      /\ \A i \in 1..(n + 2) : Prefix(i) = Ride(p, 1, i) /\ Suffix(i) = Ride(p, i, n + 2)
      /\ \A i \in 1..(n + 2) : \A j \in i..(n + 2) : Between(i, j) = Ride(p, i, j)
  BY <1>1, <1>2, PathParts
<1>6. s \in 1..n /\ s \in 1..Len(visits) /\ a \in 1..n /\ slot \in 1..(n + 1)
  BY <1>1
<1>7. w \in Seq(Nodes) /\ Len(w) = n /\ IsMovedPath(q, p, n, a, s)
  BY <1>1, <1>2, <1>3, <1>4, <1>6, MovedPath DEF Path
<1>8. /\ q \in Seq(Nodes) /\ Len(q) = n + 2
      /\ q[s + 1] = p[a + 1]
      /\ \A i \in 1..(n + 2) : i <= s /\ i <= a => q[i] = p[i]
      /\ \A i \in 1..(n + 2) : i > s + 1 /\ i > a + 1 => q[i] = p[i]
      /\ \A i \in 1..(n + 1) : s < i /\ i <= a => q[i + 1] = p[i]
      /\ \A i \in 1..(n + 1) : a < i /\ i <= s => q[i] = p[i + 1]
  BY <1>7 DEF IsMovedPath
<1>9. n + 2 = Len(w) + 2
  BY <1>7
<1>10. CASE slot \in {a, a + 1}
  <2>1. s = a
    BY <1>6, <1>10
  <2>2. ASSUME NEW i \in 1..(n + 2)
        PROVE  q[i] = p[i]
    <3>1. i <= a \/ i = a + 1 \/ i > a + 1
      BY <1>6
    <3> QED BY <1>8, <2>1, <3>1
  <2>3. q = p
    BY <1>5, <1>8, <2>2, SameEntries
  <2>4. RouteLabel(w) = Ride(p, 1, n + 2)
    <3>1. p # << >>
      BY <1>5
    <3> QED BY <1>4, <1>5, <2>3, <3>1, RideWhole DEF RouteLabel
  <2>5. RelocateLabel(a, slot) = Prefix(n + 2)
    <3>1. slot \in {(a + 1) - 1, a + 1} /\ Len(Path) = n + 2
      BY <1>2, <1>5, <1>6, <1>10
    <3> QED BY <3>1 DEF RelocateLabel
  <2>6. n + 2 \in 1..(n + 2)
    OBVIOUS
  <2> QED BY <1>3, <1>5, <1>7, <2>4, <2>5, <2>6
<1>11. CASE slot < a
  <2>1. s = slot /\ slot < a
    BY <1>6, <1>11
  <2>2. Stretch(q, Prefix(slot), 1, slot)
    <3>1. 1 \in 1..Len(p) /\ slot \in 1..Len(p) /\ 1 \in 1..Len(q) /\ slot \in 1..Len(q)
      BY <1>5, <1>6, <1>8
    <3>2. ASSUME NEW k \in 0..(slot - 1)
          PROVE  p[1 + k] = q[1 + k]
      <4>1. 1 + k \in 1..(n + 2) /\ 1 + k <= s /\ 1 + k <= a
        BY <1>6, <2>1
      <4> QED BY <1>8, <4>1
    <3>3. Prefix(slot) = Ride(p, 1, slot)
      BY <1>5, <1>6
    <3> QED BY <1>5, <1>8, <3>1, <3>2, <3>3, KeptStretch
  <2>3. Stretch(q, Edge(Path[slot], Path[a + 1]), slot, slot + 1)
    <3>1. slot \in 1..(Len(q) - 1) /\ slot \in 1..(n + 2) /\ slot <= s /\ slot <= a
      BY <1>6, <1>8, <2>1
    <3>2. q[slot] = p[slot] /\ q[slot + 1] = p[a + 1]
      BY <1>8, <2>1, <3>1
    <3> QED BY <1>2, <1>8, <3>1, <3>2, NewEdge
  <2>4. Stretch(q, Edge(Path[a + 1], Path[slot + 1]), slot + 1, slot + 2)
    <3>1. slot + 1 \in 1..(Len(q) - 1) /\ slot + 2 = (slot + 1) + 1
          /\ slot + 1 \in 1..(n + 1) /\ s < slot + 1 /\ slot + 1 <= a
      BY <1>6, <1>8, <2>1
    <3>2. q[slot + 2] = p[slot + 1] /\ q[slot + 1] = p[a + 1]
      BY <1>8, <2>1, <3>1
    <3> QED BY <1>2, <1>8, <3>1, <3>2, NewEdge
  <2>5. Stretch(q, Between(slot + 1, a), slot + 2, a + 1)
    <3>1. PICK x \in Nat, c \in Nat, d \in Nat : x = slot + 1 /\ c = slot + 2 /\ d = a + 1
      BY <1>6
    <3>2. x \in 1..Len(p) /\ a \in x..Len(p) /\ c \in 1..Len(q) /\ d \in c..Len(q) /\ a - x = d - c
      BY <1>5, <1>6, <1>8, <2>1, <3>1
    <3>3. ASSUME NEW k \in 0..(a - x)
          PROVE  p[x + k] = q[c + k]
      <4>1. x + k \in 1..(n + 1) /\ s < x + k /\ x + k <= a /\ c + k = (x + k) + 1
        BY <1>6, <2>1, <3>1
      <4> QED BY <1>8, <4>1
    <3>4. Between(x, a) = Ride(p, x, a)
      <4>1. x \in 1..(n + 2) /\ a \in x..(n + 2)
        BY <1>5, <3>2
      <4> QED BY <1>5, <4>1
    <3>5. Stretch(q, Between(x, a), c, d)
      BY <1>5, <1>8, <3>2, <3>3, <3>4, KeptStretch
    <3> QED BY <3>1, <3>5
  <2>6. Stretch(q, Edge(Path[a], Path[a + 2]), a + 1, a + 2)
    <3>1. a + 1 \in 1..(Len(q) - 1) /\ a + 2 = (a + 1) + 1
          /\ a \in 1..(n + 1) /\ s < a /\ a <= a
          /\ a + 2 \in 1..(n + 2) /\ a + 2 > s + 1 /\ a + 2 > a + 1
      BY <1>6, <1>8, <2>1
    <3>2. q[a + 1] = p[a] /\ q[a + 2] = p[a + 2]
      BY <1>8, <3>1
    <3> QED BY <1>2, <1>8, <3>1, <3>2, NewEdge
  <2>7. Stretch(q, Suffix(a + 2), a + 2, n + 2)
    <3>1. PICK x \in Nat, y \in Nat : x = a + 2 /\ y = n + 2
      BY <1>6
    <3>2. x \in 1..Len(p) /\ y \in x..Len(p) /\ x \in 1..Len(q) /\ y \in x..Len(q)
      BY <1>5, <1>6, <1>8, <3>1
    <3>3. ASSUME NEW k \in 0..(y - x)
          PROVE  p[x + k] = q[x + k]
      <4>1. x + k \in 1..(n + 2) /\ x + k > s + 1 /\ x + k > a + 1
        BY <1>6, <2>1, <3>1
      <4> QED BY <1>8, <4>1
    <3>4. Suffix(x) = Ride(p, x, y)
      <4>1. x \in 1..(n + 2)
        BY <1>6, <3>1
      <4> QED BY <1>5, <3>1, <4>1
    <3>5. Stretch(q, Suffix(x), x, y)
      BY <1>5, <1>8, <3>2, <3>3, <3>4, KeptStretch
    <3> QED BY <3>1, <3>5
  <2>8. PICK t : t = <<Prefix(slot), Edge(Path[slot], Path[a + 1]), Edge(Path[a + 1], Path[slot + 1]),
                       Between(slot + 1, a), Edge(Path[a], Path[a + 2]), Suffix(a + 2)>>
    OBVIOUS
  <2>9. Ridden(q, t, 1, n + 2)
    BY <1>8, <2>2, <2>3, <2>4, <2>5, <2>6, <2>7, <2>8, RiddenSix
  <2>10. RelocateLabel(a, slot) = JoinAll(t)
    <3>1. (a + 1) - 1 = a /\ (a + 1) + 1 = a + 2 /\ slot \notin {a, a + 1} /\ slot < a + 1
      BY <1>6, <2>1
    <3> QED BY <2>8, <3>1 DEF RelocateLabel
  <2> QED BY <1>3, <1>4, <1>7, <1>9, <2>9, <2>10, RouteRidden
<1>12. CASE slot > a + 1
  <2>1. s = slot - 1 /\ slot = s + 1 /\ a < s
    BY <1>6, <1>12
  <2>2. Stretch(q, Prefix(a), 1, a)
    <3>1. 1 \in 1..Len(p) /\ a \in 1..Len(p) /\ 1 \in 1..Len(q) /\ a \in 1..Len(q)
      BY <1>5, <1>6, <1>8
    <3>2. ASSUME NEW k \in 0..(a - 1)
          PROVE  p[1 + k] = q[1 + k]
      <4>1. 1 + k \in 1..(n + 2) /\ 1 + k <= s /\ 1 + k <= a
        BY <1>6, <2>1
      <4> QED BY <1>8, <4>1
    <3>3. Prefix(a) = Ride(p, 1, a)
      <4>1. a \in 1..(n + 2)
        BY <1>6
      <4> QED BY <1>5, <4>1
    <3> QED BY <1>5, <1>8, <3>1, <3>2, <3>3, KeptStretch
  <2>3. Stretch(q, Edge(Path[a], Path[a + 2]), a, a + 1)
    <3>1. /\ a \in 1..(Len(q) - 1) /\ a \in 1..(n + 2) /\ a <= s /\ a <= a
          /\ a + 1 \in 1..(n + 1) /\ a < a + 1 /\ a + 1 <= s /\ (a + 1) + 1 = a + 2
      BY <1>6, <1>8, <2>1
    <3>2. q[a] = p[a] /\ q[a + 1] = p[a + 2]
      BY <1>8, <3>1
    <3> QED BY <1>2, <1>8, <3>1, <3>2, NewEdge
  <2>4. Stretch(q, Between(a + 2, slot), a + 1, s)
    <3>1. PICK x \in Nat, c \in Nat : x = a + 2 /\ c = a + 1
      BY <1>6
    <3>2. x \in 1..Len(p) /\ slot \in x..Len(p) /\ c \in 1..Len(q) /\ s \in c..Len(q) /\ slot - x = s - c
      <4>1. Len(p) = n + 2 /\ Len(q) = n + 2
        BY <1>5, <1>8
      <4>2. x \in 1..(n + 2) /\ slot \in x..(n + 2)
        BY <1>6, <2>1, <3>1
      <4>3. c \in 1..(n + 2) /\ s \in c..(n + 2) /\ slot - x = s - c
        BY <1>6, <2>1, <3>1
      <4> QED BY <4>1, <4>2, <4>3
    <3>3. ASSUME NEW k \in 0..(slot - x)
          PROVE  p[x + k] = q[c + k]
      <4>1. c + k \in 1..(n + 1) /\ a < c + k /\ c + k <= s /\ x + k = (c + k) + 1
        BY <1>6, <2>1, <3>1
      <4> QED BY <1>8, <4>1
    <3>4. Between(x, slot) = Ride(p, x, slot)
      <4>1. x \in 1..(n + 2) /\ slot \in x..(n + 2)
        BY <1>5, <3>2
      <4> QED BY <1>5, <4>1
    <3>5. Stretch(q, Between(x, slot), c, s)
      BY <1>5, <1>8, <3>2, <3>3, <3>4, KeptStretch
    <3> QED BY <3>1, <3>5
  <2>5. Stretch(q, Edge(Path[slot], Path[a + 1]), s, slot)
    <3>1. s \in 1..(Len(q) - 1) /\ s \in 1..(n + 1) /\ a < s /\ s <= s
      BY <1>6, <1>8, <2>1
    <3>2. q[s] = p[slot] /\ q[slot] = p[a + 1]
      BY <1>8, <2>1, <3>1
    <3> QED BY <1>2, <1>8, <2>1, <3>1, <3>2, NewEdge
  <2>6. Stretch(q, Edge(Path[a + 1], Path[slot + 1]), slot, slot + 1)
    <3>1. slot \in 1..(Len(q) - 1) /\ slot + 1 \in 1..(n + 2) /\ slot + 1 > s + 1 /\ slot + 1 > a + 1
      BY <1>6, <1>8, <2>1
    <3>2. q[slot + 1] = p[slot + 1] /\ q[slot] = p[a + 1]
      BY <1>8, <2>1, <3>1
    <3> QED BY <1>2, <1>8, <3>1, <3>2, NewEdge
  <2>7. Stretch(q, Suffix(slot + 1), slot + 1, n + 2)
    <3>1. PICK x \in Nat, y \in Nat : x = slot + 1 /\ y = n + 2
      BY <1>6
    <3>2. x \in 1..Len(p) /\ y \in x..Len(p) /\ x \in 1..Len(q) /\ y \in x..Len(q)
      BY <1>5, <1>6, <1>8, <3>1
    <3>3. ASSUME NEW k \in 0..(y - x)
          PROVE  p[x + k] = q[x + k]
      <4>1. x + k \in 1..(n + 2) /\ x + k > s + 1 /\ x + k > a + 1
        BY <1>6, <2>1, <3>1
      <4> QED BY <1>8, <4>1
    <3>4. Suffix(x) = Ride(p, x, y)
      <4>1. x \in 1..(n + 2)
        BY <1>6, <3>1
      <4> QED BY <1>5, <3>1, <4>1
    <3>5. Stretch(q, Suffix(x), x, y)
      BY <1>5, <1>8, <3>2, <3>3, <3>4, KeptStretch
    <3> QED BY <3>1, <3>5
  <2>8. PICK t : t = <<Prefix(a), Edge(Path[a], Path[a + 2]), Between(a + 2, slot),
                       Edge(Path[slot], Path[a + 1]), Edge(Path[a + 1], Path[slot + 1]), Suffix(slot + 1)>>
    OBVIOUS
  <2>9. Ridden(q, t, 1, n + 2)
    BY <1>8, <2>2, <2>3, <2>4, <2>5, <2>6, <2>7, <2>8, RiddenSix
  <2>10. RelocateLabel(a, slot) = JoinAll(t)
    <3>1. (a + 1) - 1 = a /\ (a + 1) + 1 = a + 2 /\ slot \notin {a, a + 1} /\ ~(slot < a + 1)
      BY <1>6, <2>1
    <3> QED BY <2>8, <3>1 DEF RelocateLabel
  <2> QED BY <1>3, <1>4, <1>7, <1>9, <2>9, <2>10, RouteRidden
<1> QED BY <1>6, <1>10, <1>11, <1>12

-----------------------------------------------------------------------------
(* Canonical labels: adding edges one by one.                              *)

Kept(kept, leg) == IF kept # << >> /\ Mergeable(Last(kept), leg) THEN kept ELSE Append(kept, leg)

SolvesKept(f, legs) ==
  f = [n \in 0..Len(legs) |->
         IF n = 0 THEN << >>
         ELSE With(f[n - 1], LAMBDA kept : Kept(kept, legs[n]))]

\* CanonicalLegs as the recursive function it is.
LEMMA CanonicalChosen ==
  ASSUME NEW legs
  PROVE  CanonicalLegs(legs) = (CHOOSE f : SolvesKept(f, legs))[Len(legs)]
  BY DEF CanonicalLegs, Folded, SolvesKept, Kept

KeptAlong(p, n, legs) ==
  /\ p[0] = << >>
  /\ \A k \in 0..n : p[k] \in Seq(Leg)
  /\ \A k \in 1..n : p[k] = Kept(p[k - 1], legs[k])

\* What is kept of legs are legs.
LEMMA KeptType ==
  ASSUME NEW s \in Seq(Leg), NEW x \in Leg
  PROVE  Kept(s, x) \in Seq(Leg)
  BY DEF Kept

\* The legs kept so far, one after the other.
LEMMA CanonicalRuns ==
  ASSUME NEW seq \in Seq(Leg), NEW n \in Nat, n = Len(seq)
  PROVE  \E p : KeptAlong(p, n, seq) /\ CanonicalLegs(seq) = p[n]
<1>1. PICK step : step = [k \in 1..n |-> [v \in Seq(Leg) |-> Kept(v, seq[k])]]
  OBVIOUS
<1>2. StepsInto(step, 1..n, Seq(Leg))
  <2>1. \A k \in 1..n : seq[k] \in Leg
    OBVIOUS
  <2> QED BY <1>1, <2>1, KeptType DEF StepsInto
<1>3. << >> \in Seq(Leg)
  OBVIOUS
<1>4. ASSUME NEW f, f[0] = << >>, \A k \in 1..n : f[k] = Kept(f[k - 1], seq[k])
      PROVE  KeptAlong(f, n, seq)
  <2>1. \A k \in 1..n : f[k - 1] \in Seq(Leg) => f[k] = step[k][f[k - 1]]
    BY <1>1, <1>4
  <2>2. Running(f, n, Seq(Leg), << >>, step)
    BY <1>2, <1>3, <1>4, <2>1, FoldedRuns
  <2> QED BY <1>4, <2>2 DEF Running, KeptAlong
<1>5. PICK p \in [0..n -> Seq(Leg)] : Running(p, n, Seq(Leg), << >>, step)
  BY <1>2, <1>3, RunExists
<1>6. ASSUME NEW k \in 1..n
      PROVE  k - 1 \in 0..n /\ p[k] = Kept(p[k - 1], seq[k])
  <2>1. k - 1 \in 0..n
    OBVIOUS
  <2>2. p[k - 1] \in Seq(Leg) /\ p[k] = step[k][p[k - 1]]
    BY <1>5, <2>1 DEF Running
  <2> QED BY <1>1, <2>1, <2>2
<1>7. SolvesKept(p, seq)
  BY <1>5, <1>6 DEF SolvesKept, With, Running
<1>8. PICK f : f = CHOOSE g : SolvesKept(g, seq)
  OBVIOUS
<1>9. SolvesKept(f, seq) /\ CanonicalLegs(seq) = f[n]
  BY <1>7, <1>8, CanonicalChosen
<1>10. f[0] = << >> /\ \A k \in 1..n : f[k] = Kept(f[k - 1], seq[k])
  <2>1. f = [k \in 0..n |-> IF k = 0 THEN << >> ELSE Kept(f[k - 1], seq[k])]
    BY <1>9 DEF SolvesKept, With
  <2>2. f[0] = << >>
    BY <2>1
  <2>3. ASSUME NEW k \in 1..n
        PROVE  f[k] = Kept(f[k - 1], seq[k])
    <3>1. k \in 0..n /\ k # 0
      OBVIOUS
    <3> QED BY <2>1, <3>1
  <2> QED BY <2>2, <2>3
<1> QED BY <1>4, <1>9, <1>10

\* One more leg is kept or merged into what was kept before.
LEMMA CanonicalAppend ==
  ASSUME NEW s \in Seq(Leg), NEW x \in Leg
  PROVE  CanonicalLegs(s) \in Seq(Leg) /\ CanonicalLegs(Append(s, x)) = Kept(CanonicalLegs(s), x)
<1>1. PICK n \in Nat : n = Len(s)
  OBVIOUS
<1>2. PICK t : t = Append(s, x)
  OBVIOUS
<1>3. /\ t \in Seq(Leg) /\ n + 1 = Len(t) /\ n + 1 \in Nat /\ t[n + 1] = x
      /\ \A k \in 1..n : t[k] = s[k]
  BY <1>1, <1>2
<1>4. PICK p : KeptAlong(p, n, s) /\ CanonicalLegs(s) = p[n]
  BY <1>1, CanonicalRuns
<1>5. PICK q : KeptAlong(q, n + 1, t) /\ CanonicalLegs(t) = q[n + 1]
  BY <1>3, CanonicalRuns
<1>6. PICK K : K = {k \in 0..n : p[k] = q[k]}
  OBVIOUS
<1>7. 0 \in K
  BY <1>4, <1>5, <1>6 DEF KeptAlong
<1>8. ASSUME NEW k \in 1..n, k - 1 \in K
      PROVE  k \in K
  <2>1. p[k - 1] = q[k - 1] /\ k \in 1..(n + 1)
    BY <1>6, <1>8
  <2>2. p[k] = Kept(p[k - 1], s[k]) /\ q[k] = Kept(q[k - 1], t[k])
    BY <1>4, <1>5, <2>1 DEF KeptAlong
  <2> QED BY <1>3, <1>6, <2>1, <2>2
<1>9. \A k \in 0..n : k \in K
  BY <1>7, <1>8, UpTo
<1>10. p[n] = q[n] /\ p[n] \in Seq(Leg)
  BY <1>4, <1>6, <1>9 DEF KeptAlong
<1>11. q[n + 1] = Kept(q[n], x)
  <2>1. n + 1 \in 1..(n + 1) /\ (n + 1) - 1 = n
    OBVIOUS
  <2> QED BY <1>3, <1>5, <2>1 DEF KeptAlong
<1> QED BY <1>2, <1>4, <1>5, <1>10, <1>11

\* What is kept of legs are legs.
LEMMA CanonicalType ==
  ASSUME NEW s \in Seq(Leg)
  PROVE  CanonicalLegs(s) \in Seq(Leg)
<1>1. PICK n \in Nat : n = Len(s)
  OBVIOUS
<1>2. PICK p : KeptAlong(p, n, s) /\ CanonicalLegs(s) = p[n]
  BY <1>1, CanonicalRuns
<1> QED BY <1>2 DEF KeptAlong

\* The label of a path and of one edge more.
LEMMA OneLegSpent ==
  ASSUME NEW x \in Leg, NEW e \in Nat
  PROVE  Spending(<<x>>, e) = <<[x EXCEPT !.energy = @ + e]>> /\ [x EXCEPT !.energy = @ + e] \in Leg
<1>1. PICK s : s = <<x>>
  OBVIOUS
<1>2. s \in Seq(Leg) /\ s # << >> /\ Len(s) = 1 /\ s[1] = x
  BY <1>1, OneEntry
<1>3. PICK t : t = Spending(s, e)
  OBVIOUS
<1>4. t \in Seq(Leg) /\ Len(t) = 1 /\ t[1] = [x EXCEPT !.energy = @ + e]
  BY <1>2, <1>3, SpendingIs
<1>5. t = <<t[1]>> /\ t[1] \in Leg
  BY <1>4
<1> QED BY <1>1, <1>3, <1>4, <1>5

LegTo(a, b, extra) == [station |-> b, energy |-> Energy(a, b) + extra, adjacent |-> a = b]

HopJoined(M, L, a, b) ==
  /\ M \in Labelled /\ M.from = L.from /\ M.to = b
  /\ M.travel = L.travel + Dist[<<a, b>>] /\ M.service = L.service + ServiceOf(b)
  /\ b \in Stations => M.legs = Append(L.legs, LegTo(a, b, L.tail)) /\ M.tail = 0
  /\ b \notin Stations => M.legs = L.legs /\ M.tail = L.tail + Energy(a, b)

\* An edge to a station makes a leg.
LEMMA LegToType ==
  ASSUME NEW a \in Nodes, NEW b \in Stations, NEW extra \in Nat
  PROVE  LegTo(a, b, extra) \in Leg
<1>1. b \in Nodes
  BY DEF Nodes
<1>2. PICK e \in Nat : e = Energy(a, b)
  BY <1>1, NodeCosts
<1>3. e + extra \in Nat
  OBVIOUS
<1> QED BY <1>2, <1>3 DEF Leg, LegTo

\* One more edge after a label.
LEMMA JoinHop ==
  ASSUME NEW L \in Labelled, NEW a \in Nodes, NEW b \in Nodes
  PROVE  HopJoined(Join(L, Hop(a, b)), L, a, b)
<1>1. PICK h : h = Hop(a, b)
  OBVIOUS
<1>2. /\ h \in Labelled /\ h.to = b /\ h.legs = HopLegs(a, b)
      /\ h.tail = IF b \in Stations THEN 0 ELSE Energy(a, b)
      /\ h.travel = Dist[<<a, b>>] /\ h.service = ServiceOf(b)
  BY <1>1, EdgeIs DEF Hop
<1>3. L.tail \in Nat /\ L.legs \in Seq(Leg)
  BY DEF Labelled
<1>4. PICK M : JoinsTo(M, L, h)
  BY <1>2, JoinParts
<1>5. M \in Labelled
  BY <1>2, <1>4, JoinedType DEF JoinsTo
<1>6. CASE b \in Stations
  <2>1. PICK x : x = LegTo(a, b, 0)
    OBVIOUS
  <2>2. x \in Leg /\ LegTo(a, b, L.tail) \in Leg
    BY <1>3, <1>6, <2>1, LegToType
  <2>3. x = [station |-> b, energy |-> Energy(a, b), adjacent |-> a = b]
    <3>1. PICK e \in Nat : e = Energy(a, b)
      BY NodeCosts
    <3>2. e + 0 = e
      OBVIOUS
    <3> QED BY <2>1, <3>1, <3>2 DEF LegTo
  <2>4. h.legs = <<x>>
    BY <1>2, <1>6, <2>3 DEF HopLegs
  <2>5. h.legs # << >>
    BY <2>4
  <2>6. [x EXCEPT !.energy = @ + L.tail] = LegTo(a, b, L.tail)
    BY <2>3 DEF LegTo
  <2>7. Spending(h.legs, L.tail) = <<LegTo(a, b, L.tail)>>
    BY <1>3, <2>2, <2>4, <2>6, OneLegSpent
  <2>8. L.legs \o <<LegTo(a, b, L.tail)>> = Append(L.legs, LegTo(a, b, L.tail))
    BY <1>3, <2>2
  <2>9. M.legs = Append(L.legs, LegTo(a, b, L.tail)) /\ M.tail = 0
    BY <1>2, <1>4, <1>6, <2>5, <2>7, <2>8 DEF JoinsTo
  <2> QED BY <1>1, <1>2, <1>4, <1>5, <1>6, <2>9 DEF JoinsTo, HopJoined
<1>7. CASE b \notin Stations
  <2>1. h.legs = << >> /\ h.tail = Energy(a, b)
    BY <1>2, <1>7 DEF HopLegs
  <2>2. M.legs = L.legs /\ M.tail = L.tail + Energy(a, b)
    BY <1>4, <2>1 DEF JoinsTo
  <2> QED BY <1>1, <1>2, <1>4, <1>5, <1>7, <2>2 DEF JoinsTo, HopJoined
<1> QED BY <1>6, <1>7

\* Labels with the same parts are the same.
LEMMA SameLabel ==
  ASSUME NEW L \in Labelled, NEW M \in Labelled,
         L.from = M.from, L.to = M.to, L.travel = M.travel, L.service = M.service,
         L.legs = M.legs, L.tail = M.tail
  PROVE  L = M
<1>1. ASSUME NEW K \in Labelled
      PROVE  K = [from |-> K.from, to |-> K.to, legs |-> K.legs, tail |-> K.tail,
                  travel |-> K.travel, service |-> K.service, initialized |-> TRUE]
  BY DEF Labelled
<1>2. L = [from |-> L.from, to |-> L.to, legs |-> L.legs, tail |-> L.tail,
           travel |-> L.travel, service |-> L.service, initialized |-> TRUE]
  BY <1>1
<1>3. M = [from |-> M.from, to |-> M.to, legs |-> M.legs, tail |-> M.tail,
           travel |-> M.travel, service |-> M.service, initialized |-> TRUE]
  BY <1>1
<1> QED BY <1>2, <1>3

-----------------------------------------------------------------------------
(* Labels that differ in repeated visits of a canonical station only.      *)

Agree(L, M) ==
  \/ L = M
  \/ /\ L \in Labelled /\ M \in Labelled
     /\ L.from = M.from /\ L.to = M.to /\ L.travel = M.travel /\ L.service = M.service
     /\ L.tail = M.tail /\ CanonicalLegs(L.legs) = CanonicalLegs(M.legs)

\* Agreement is symmetric,
LEMMA AgreeBack == ASSUME NEW L, NEW M, Agree(L, M) PROVE Agree(M, L)
  BY DEF Agree

\* and transitive.
LEMMA AgreeOn == ASSUME NEW L, NEW M, NEW N, Agree(L, M), Agree(M, N) PROVE Agree(L, N)
  BY DEF Agree

\* Labels that agree have one canonical form.
LEMMA AgreeCanonical ==
  ASSUME NEW L, NEW M, Agree(L, M)
  PROVE  Canonical(L) = Canonical(M)
<1>1. CASE L = M
  BY <1>1
<1>2. CASE L # M
  <2>1. /\ L \in Labelled /\ M \in Labelled
        /\ L.from = M.from /\ L.to = M.to /\ L.travel = M.travel /\ L.service = M.service
        /\ L.tail = M.tail /\ CanonicalLegs(L.legs) = CanonicalLegs(M.legs)
    BY <1>2 DEF Agree
  <2>2. ASSUME NEW K \in Labelled
        PROVE  /\ Canonical(K) \in Labelled
               /\ Canonical(K).from = K.from /\ Canonical(K).to = K.to
               /\ Canonical(K).travel = K.travel /\ Canonical(K).service = K.service
               /\ Canonical(K).tail = K.tail /\ Canonical(K).legs = CanonicalLegs(K.legs)
    <3>2. K.legs \in Seq(Leg)
      BY DEF Labelled
    <3>3. PICK legs \in Seq(Leg) : legs = CanonicalLegs(K.legs)
      BY <3>2, CanonicalType
    <3>4. Canonical(K) = [K EXCEPT !.legs = legs]
      BY <3>3 DEF Canonical
    <3> QED BY <3>3, <3>4 DEF Labelled
  <2>3. PICK P \in Labelled, Q \in Labelled : P = Canonical(L) /\ Q = Canonical(M)
    BY <2>1, <2>2
  <2> QED BY <2>1, <2>2, <2>3, SameLabel
<1> QED BY <1>1, <1>2

\* Labels that agree still do after one more edge.
LEMMA AgreeHop ==
  ASSUME NEW L, NEW M, Agree(L, M), NEW a \in Nodes, NEW b \in Nodes
  PROVE  Agree(Join(L, Hop(a, b)), Join(M, Hop(a, b)))
<1>1. CASE L = M
  BY <1>1 DEF Agree
<1>2. CASE L # M
  <2>1. /\ L \in Labelled /\ M \in Labelled
        /\ L.from = M.from /\ L.to = M.to /\ L.travel = M.travel /\ L.service = M.service
        /\ L.tail = M.tail /\ CanonicalLegs(L.legs) = CanonicalLegs(M.legs)
    BY <1>2 DEF Agree
  <2>2. PICK P : P = Join(L, Hop(a, b))
    OBVIOUS
  <2>3. PICK Q : Q = Join(M, Hop(a, b))
    OBVIOUS
  <2>4. HopJoined(P, L, a, b) /\ HopJoined(Q, M, a, b)
    BY <2>1, <2>2, <2>3, JoinHop
  <2>5. CanonicalLegs(P.legs) = CanonicalLegs(Q.legs) /\ P.tail = Q.tail
    <3>1. CASE b \in Stations
      <4>1. PICK leg \in Leg : leg = LegTo(a, b, L.tail)
        <5>1. L.tail \in Nat
          BY <2>1 DEF Labelled
        <5> QED BY <3>1, <5>1, LegToType
      <4>2. P.legs = Append(L.legs, leg) /\ Q.legs = Append(M.legs, leg) /\ P.tail = 0 /\ Q.tail = 0
        BY <2>1, <2>4, <3>1, <4>1 DEF HopJoined
      <4>3. L.legs \in Seq(Leg) /\ M.legs \in Seq(Leg)
        BY <2>1 DEF Labelled
      <4>4. CanonicalLegs(P.legs) = Kept(CanonicalLegs(L.legs), leg)
        BY <4>2, <4>3, CanonicalAppend
      <4>5. CanonicalLegs(Q.legs) = Kept(CanonicalLegs(M.legs), leg)
        BY <4>2, <4>3, CanonicalAppend
      <4> QED BY <2>1, <4>2, <4>4, <4>5
    <3>2. CASE b \notin Stations
      BY <2>1, <2>4, <3>2 DEF HopJoined
    <3> QED BY <3>1, <3>2
  <2>6. /\ P \in Labelled /\ Q \in Labelled /\ P.from = Q.from /\ P.to = Q.to
        /\ P.travel = Q.travel /\ P.service = Q.service
    BY <2>1, <2>4 DEF HopJoined
  <2>7. Agree(P, Q)
    BY <2>5, <2>6 DEF Agree
  <2> QED BY <2>2, <2>3, <2>7
<1> QED BY <1>1, <1>2

\* The label of a path that ends at a station.
AtStation(N, s) ==
  /\ N \in Labelled /\ N.to = s /\ N.tail = 0
  /\ CanonicalLegs(N.legs) # << >> /\ Last(CanonicalLegs(N.legs)).station = s

\* The last leg kept is at the station of the last leg there was.
LEMMA KeptLast ==
  ASSUME NEW kept \in Seq(Leg), NEW leg \in Leg
  PROVE  Kept(kept, leg) # << >> /\ Last(Kept(kept, leg)).station = leg.station
<1>1. CASE kept # << >> /\ Mergeable(Last(kept), leg)
  BY <1>1 DEF Kept, Mergeable
<1>2. CASE ~(kept # << >> /\ Mergeable(Last(kept), leg))
  <2>1. Kept(kept, leg) = Append(kept, leg)
    BY <1>2 DEF Kept
  <2>2. PICK t : t = Append(kept, leg)
    OBVIOUS
  <2>3. t # << >> /\ t[Len(t)] = leg
    BY <2>2
  <2> QED BY <2>1, <2>2, <2>3 DEF Last
<1> QED BY <1>1, <1>2

\* After an edge to a station the label is at the station.
LEMMA ArriveAt ==
  ASSUME NEW L \in Label, NEW a \in Nodes, NEW s \in Stations
  PROVE  AtStation(Join(L, Hop(a, s)), s)
<1>1. s \in Nodes
  BY DEF Nodes
<1>2. PICK N : N = Join(L, Hop(a, s))
  OBVIOUS
<1>3. PICK legs, leg : /\ N \in Labelled /\ N.to = s /\ N.tail = 0
                       /\ legs \in Seq(Leg) /\ leg \in Leg /\ leg.station = s /\ N.legs = Append(legs, leg)
  <2>1. CASE L \in Labelled
    <3>1. HopJoined(N, L, a, s)
      BY <1>1, <1>2, <2>1, JoinHop
    <3>2. L.legs \in Seq(Leg) /\ L.tail \in Nat
      BY <2>1 DEF Labelled
    <3>3. LegTo(a, s, L.tail) \in Leg /\ LegTo(a, s, L.tail).station = s
      BY <3>2, LegToType DEF LegTo
    <3> QED BY <3>1, <3>2, <3>3 DEF HopJoined
  <2>2. CASE L = NoLabel
    <3>1. Hop(a, s) \in Labelled
      BY <1>1, EdgeIs
    <3>2. N = Hop(a, s)
      BY <1>2, <2>2, <3>1, JoinUnit DEF Label
    <3>3. PICK leg : leg = [station |-> s, energy |-> Energy(a, s), adjacent |-> a = s]
      OBVIOUS
    <3>4. leg \in Leg /\ leg.station = s
      BY <1>1, <3>3, NodeCosts DEF Leg
    <3>5. N.legs = <<leg>> /\ N.to = s /\ N.tail = 0
      BY <3>2, <3>3 DEF Hop, HopLegs
    <3>6. <<leg>> = Append(<< >>, leg) /\ << >> \in Seq(Leg)
      BY <3>4
    <3> QED BY <3>1, <3>2, <3>4, <3>5, <3>6
  <2> QED BY <2>1, <2>2 DEF Label
<1>4. CanonicalLegs(legs) \in Seq(Leg) /\ CanonicalLegs(N.legs) = Kept(CanonicalLegs(legs), leg)
  BY <1>3, CanonicalAppend
<1>5. CanonicalLegs(N.legs) # << >> /\ Last(CanonicalLegs(N.legs)).station = s
  BY <1>3, <1>4, KeptLast
<1> QED BY <1>2, <1>3, <1>5 DEF AtStation

\* To visit a canonical station again at once makes no difference.
LEMMA AgreeRepeat ==
  ASSUME NEW N, NEW s \in Stations, AtStation(N, s), CanonicalStation(s)
  PROVE  Agree(Join(N, Hop(s, s)), N)
<1>1. s \in Nodes /\ s \notin Customers
  BY NodesDisjoint DEF Nodes
<1>2. PICK P : P = Join(N, Hop(s, s))
  OBVIOUS
<1>3. /\ N \in Labelled /\ N.to = s /\ N.tail = 0 /\ N.legs \in Seq(Leg)
      /\ N.travel \in Nat /\ N.service \in Nat
  BY DEF AtStation, Labelled
<1>4. HopJoined(P, N, s, s)
  BY <1>1, <1>2, <1>3, JoinHop
<1>5. Dist[<<s, s>>] = 0 /\ Energy(s, s) = 0 /\ ServiceOf(s) = 0
  <2>1. Consumption \in Nat
    BY VehicleType
  <2> QED BY <1>1, <2>1 DEF CanonicalStation, Energy, ServiceOf
<1>6. PICK leg : leg = LegTo(s, s, N.tail)
  OBVIOUS
<1>7. leg \in Leg /\ leg.station = s /\ leg.energy = 0 /\ leg.adjacent = TRUE
  <2>1. leg \in Leg
    BY <1>1, <1>3, <1>6, LegToType
  <2>2. leg.station = s /\ leg.energy = Energy(s, s) + N.tail /\ leg.adjacent = (s = s)
    BY <1>6 DEF LegTo
  <2>3. Energy(s, s) + N.tail = 0
    BY <1>3, <1>5
  <2> QED BY <2>1, <2>2, <2>3
<1>8. CanonicalLegs(P.legs) = CanonicalLegs(N.legs)
  <2>1. P.legs = Append(N.legs, leg)
    BY <1>4, <1>6 DEF HopJoined
  <2>2. CanonicalLegs(P.legs) = Kept(CanonicalLegs(N.legs), leg)
    BY <1>3, <1>7, <2>1, CanonicalAppend
  <2>3. Mergeable(Last(CanonicalLegs(N.legs)), leg)
    BY <1>7 DEF Mergeable, AtStation
  <2> QED BY <2>2, <2>3 DEF Kept, AtStation
<1>9. P.from = N.from /\ P.to = N.to /\ P.travel = N.travel /\ P.service = N.service /\ P.tail = N.tail
  BY <1>3, <1>4, <1>5 DEF HopJoined
<1>10. P \in Labelled
  BY <1>4 DEF HopJoined
<1> QED BY <1>2, <1>3, <1>8, <1>9, <1>10 DEF Agree

-----------------------------------------------------------------------------
(* What normalisation leaves of a route scores as the route does.          *)

\* A stretch and the next edge.
LEMMA RideNext ==
  ASSUME NEW p \in Seq(Nodes), NEW k \in 1..(Len(p) - 1)
  PROVE  /\ Ride(p, 1, k) \in Label /\ p[k] \in Nodes /\ p[k + 1] \in Nodes
         /\ Ride(p, 1, k + 1) = Join(Ride(p, 1, k), Hop(p[k], p[k + 1]))
<1>1. /\ 1 \in 1..Len(p) /\ k \in 1..Len(p) /\ k + 1 \in k..Len(p)
      /\ p[k] \in Nodes /\ p[k + 1] \in Nodes
  OBVIOUS
<1>2. Ride(p, 1, k) \in Label
  BY <1>1, RideType
<1>3. PICK c \in Nat : c = k + 1
  OBVIOUS
<1>4. Ride(p, 1, c) = Join(Ride(p, 1, k), Ride(p, k, c))
  BY <1>1, <1>3, RideSplit
<1>5. Edge(p[k], p[k + 1]) = Ride(p, k, k + 1)
  BY RideEdge
<1>6. Edge(p[k], p[k + 1]) = Hop(p[k], p[k + 1])
  BY <1>1, EdgeIs DEF Edge
<1> QED BY <1>1, <1>2, <1>3, <1>4, <1>5, <1>6

\* Two paths that go on in the same way from nodes at which they agree, agree
\* at their ends.
LEMMA AgreeAlong ==
  ASSUME NEW p \in Seq(Nodes), NEW q \in Seq(Nodes), NEW i \in 1..Len(p), NEW j \in 1..Len(q),
         NEW m \in Nat, m = Len(p) - i, m = Len(q) - j,
         \A k \in 0..m : p[i + k] = q[j + k],
         Agree(Ride(p, 1, i), Ride(q, 1, j))
  PROVE  Agree(Ride(p, 1, Len(p)), Ride(q, 1, Len(q)))
<1>1. PICK K : K = {k \in 0..m : Agree(Ride(p, 1, i + k), Ride(q, 1, j + k))}
  OBVIOUS
<1>2. 0 \in K
  BY <1>1
<1>3. ASSUME NEW k \in 1..m, k - 1 \in K
      PROVE  k \in K
  <2>1. PICK a \in 1..(Len(p) - 1), b \in 1..(Len(q) - 1) : a = i + (k - 1) /\ b = j + (k - 1)
    <3>1. i + (k - 1) \in 1..(Len(p) - 1) /\ j + (k - 1) \in 1..(Len(q) - 1)
      OBVIOUS
    <3> QED BY <3>1
  <2>2. Agree(Ride(p, 1, a), Ride(q, 1, b))
    BY <1>1, <1>3, <2>1
  <2>3. p[a] = q[b] /\ p[a + 1] = q[b + 1]
    <3>1. k - 1 \in 0..m /\ k \in 0..m /\ a + 1 = i + k /\ b + 1 = j + k
      BY <2>1
    <3> QED BY <2>1, <3>1
  <2>4. p[a] \in Nodes /\ p[a + 1] \in Nodes
    BY RideNext
  <2>5. Ride(p, 1, a + 1) = Join(Ride(p, 1, a), Hop(p[a], p[a + 1]))
    BY RideNext
  <2>6. Ride(q, 1, b + 1) = Join(Ride(q, 1, b), Hop(p[a], p[a + 1]))
    BY <2>3, RideNext
  <2>7. Agree(Ride(p, 1, a + 1), Ride(q, 1, b + 1))
    BY <2>2, <2>4, <2>5, <2>6, AgreeHop
  <2>8. a + 1 = i + k /\ b + 1 = j + k
    BY <2>1
  <2> QED BY <1>1, <2>7, <2>8
<1>4. \A k \in 0..m : k \in K
  BY <1>2, <1>3, UpTo
<1>5. m \in K
  BY <1>4
<1>6. i + m = Len(p) /\ j + m = Len(q)
  OBVIOUS
<1> QED BY <1>1, <1>5, <1>6

Places == Customers \cup Stations

SolvesNormal(f, v, seq) ==
  f = [n \in 0..Len(seq) |->
         IF n = 0 THEN << >>
         ELSE With(f[n - 1], LAMBDA kept : IF Repeats(v, seq[n]) THEN kept ELSE Append(kept, v[seq[n]]))]

NormalOf(v, seq) == (CHOOSE f : SolvesNormal(f, v, seq))[Len(seq)]

\* Normalized as the recursive function it is.
LEMMA NormalizedChosen ==
  ASSUME NEW v
  PROVE  Normalized(v) = NormalOf(v, [i \in DOMAIN v |-> i])
  BY DEF Normalized, Folded, SolvesNormal, NormalOf

NormalStep(v, kept, k) == IF Repeats(v, k) THEN kept ELSE Append(kept, v[k])

NormalAlong(p, n, v) ==
  /\ p[0] = << >>
  /\ \A k \in 0..n : p[k] \in Seq(Places)
  /\ \A k \in 1..n : p[k] = NormalStep(v, p[k - 1], k)

\* The visits kept so far, one after the other.
LEMMA NormalizedRuns ==
  ASSUME NEW v \in Seq(Places), NEW n \in Nat, n = Len(v)
  PROVE  \E p : NormalAlong(p, n, v) /\ Normalized(v) = p[n]
<1>1. PICK step : step = [k \in 1..n |-> [x \in Seq(Places) |-> NormalStep(v, x, k)]]
  OBVIOUS
<1>2. StepsInto(step, 1..n, Seq(Places))
  <2>1. \A k \in 1..n : v[k] \in Places
    OBVIOUS
  <2>2. ASSUME NEW k \in 1..n, NEW x \in Seq(Places)
        PROVE  NormalStep(v, x, k) \in Seq(Places)
    BY <2>1 DEF NormalStep
  <2> QED BY <1>1, <2>2 DEF StepsInto
<1>3. << >> \in Seq(Places)
  OBVIOUS
<1>4. ASSUME NEW f, f[0] = << >>, \A k \in 1..n : f[k] = NormalStep(v, f[k - 1], k)
      PROVE  NormalAlong(f, n, v)
  <2>1. \A k \in 1..n : f[k - 1] \in Seq(Places) => f[k] = step[k][f[k - 1]]
    BY <1>1, <1>4
  <2>2. Running(f, n, Seq(Places), << >>, step)
    BY <1>2, <1>3, <1>4, <2>1, FoldedRuns
  <2> QED BY <1>4, <2>2 DEF Running, NormalAlong
<1>5. PICK p \in [0..n -> Seq(Places)] : Running(p, n, Seq(Places), << >>, step)
  BY <1>2, <1>3, RunExists
<1>6. ASSUME NEW k \in 1..n
      PROVE  k - 1 \in 0..n /\ p[k] = NormalStep(v, p[k - 1], k)
  <2>1. k - 1 \in 0..n
    OBVIOUS
  <2>2. p[k - 1] \in Seq(Places) /\ p[k] = step[k][p[k - 1]]
    BY <1>5, <2>1 DEF Running
  <2> QED BY <1>1, <2>1, <2>2
<1>7. PICK seq : seq = [i \in DOMAIN v |-> i]
  OBVIOUS
<1>8. Len(seq) = n /\ \A k \in 1..n : seq[k] = k
  <2>1. DOMAIN v = 1..n
    OBVIOUS
  <2> QED BY <1>7, <2>1
<1>9. SolvesNormal(p, v, seq)
  <2>1. p[0] = << >>
    BY <1>5 DEF Running
  <2>2. p = [k \in 0..n |-> IF k = 0 THEN << >> ELSE NormalStep(v, p[k - 1], seq[k])]
    BY <1>5, <1>6, <1>8, <2>1
  <2> QED BY <1>8, <2>2 DEF SolvesNormal, With, NormalStep
<1>10. PICK f : f = CHOOSE g : SolvesNormal(g, v, seq)
  OBVIOUS
<1>11. SolvesNormal(f, v, seq)
  BY <1>9, <1>10
<1>12. Normalized(v) = f[n]
  BY <1>7, <1>8, <1>10, NormalizedChosen DEF NormalOf
<1>13. f[0] = << >> /\ \A k \in 1..n : f[k] = NormalStep(v, f[k - 1], k)
  <2>1. f = [k \in 0..n |-> IF k = 0 THEN << >> ELSE NormalStep(v, f[k - 1], seq[k])]
    BY <1>8, <1>11 DEF SolvesNormal, With, NormalStep
  <2>2. f[0] = << >>
    BY <2>1
  <2>3. ASSUME NEW k \in 1..n
        PROVE  f[k] = NormalStep(v, f[k - 1], k)
    <3>1. k \in 0..n /\ k # 0 /\ seq[k] = k
      BY <1>8
    <3> QED BY <2>1, <3>1
  <2> QED BY <2>2, <2>3
<1> QED BY <1>4, <1>12, <1>13

\* The label of the path from the depot through the visits of w, and the node
\* where it ends.
Begun(w) == Ride(Closed(w), 1, Len(w) + 1)

EndNode(w) == Closed(w)[Len(w) + 1]

\* A route without visits is still at the depot.
LEMMA BegunEmpty == Begun(<< >>) = NoLabel /\ EndNode(<< >>) = Depot
<1>1. << >> \in Seq(Nodes) /\ Len(<< >>) = 0
  OBVIOUS
<1>2. PICK q : q = Closed(<< >>)
  OBVIOUS
<1>3. q[1] = Depot
  BY <1>1, <1>2, ClosedIs
<1>4. Len(<< >>) + 1 = 1
  BY <1>1
<1>5. Begun(<< >>) = Piece(Hops(q), 1, 1)
  BY <1>2, <1>4 DEF Begun, Ride
<1>6. Piece(Hops(q), 1, 1) = NoLabel
  BY PieceEmpty
<1> QED BY <1>2, <1>3, <1>4, <1>5, <1>6 DEF EndNode

\* One more visit is one more edge.
LEMMA BegunAppend ==
  ASSUME NEW w \in Seq(Nodes), NEW x \in Nodes
  PROVE  /\ EndNode(w) \in Nodes /\ EndNode(Append(w, x)) = x
         /\ Begun(Append(w, x)) = Join(Begun(w), Hop(EndNode(w), x))
<1>0. PICK n \in Nat : n = Len(w)
  OBVIOUS
<1>1. PICK u : n = Len(w) /\ u = Append(w, x)
  BY <1>0
<1>2. PICK m \in Nat : m = n + 1
  OBVIOUS
<1>3. u \in Seq(Nodes) /\ Len(u) = m /\ u[m] = x /\ \A i \in 1..n : u[i] = w[i]
  BY <1>1, <1>2
<1>4. PICK p, q : p = Closed(w) /\ q = Closed(u)
  OBVIOUS
<1>5. /\ p \in Seq(Nodes) /\ Len(p) = n + 2 /\ p[1] = Depot
      /\ \A i \in 1..n : p[i + 1] = w[i]
  BY <1>1, <1>4, ClosedIs
<1>6. /\ q \in Seq(Nodes) /\ Len(q) = m + 2 /\ q[1] = Depot
      /\ \A i \in 1..m : q[i + 1] = u[i]
  BY <1>3, <1>4, ClosedIs
<1>7. ASSUME NEW i \in 1..m
      PROVE  p[i] = q[i]
  <2>1. CASE i = 1
    BY <1>5, <1>6, <2>1
  <2>2. CASE i # 1
    <3>1. PICK j \in 1..n : i = j + 1 /\ j \in 1..m
      <4>1. i - 1 \in 1..n /\ i - 1 \in 1..m /\ i = (i - 1) + 1
        BY <1>2, <2>2
      <4> QED BY <4>1
    <3> QED BY <1>3, <1>5, <1>6, <3>1
  <2> QED BY <2>1, <2>2
<1>8. m \in 1..m /\ m \in 1..(Len(q) - 1) /\ q[m + 1] = x
  BY <1>2, <1>3, <1>6
<1>9. Ride(p, 1, m) = Ride(q, 1, m)
  <2>1. 1 \in 1..Len(p) /\ m \in 1..Len(p) /\ 1 \in 1..Len(q) /\ m \in 1..Len(q)
    BY <1>2, <1>5, <1>6
  <2>2. \A k \in 0..(m - 1) : p[1 + k] = q[1 + k]
    <3>1. \A k \in 0..(m - 1) : 1 + k \in 1..m
      OBVIOUS
    <3> QED BY <1>7, <3>1
  <2> QED BY <1>5, <1>6, <2>1, <2>2, RideSame
<1>10. Ride(q, 1, m + 1) = Join(Ride(q, 1, m), Hop(q[m], q[m + 1])) /\ q[m] \in Nodes
  BY <1>6, <1>8, RideNext
<1>11. Begun(w) = Ride(p, 1, m) /\ EndNode(w) = p[m]
  BY <1>1, <1>2, <1>4 DEF Begun, EndNode
<1>12. Begun(u) = Ride(q, 1, m + 1) /\ EndNode(u) = q[m + 1]
  BY <1>3, <1>4 DEF Begun, EndNode
<1>13. p[m] = q[m]
  BY <1>7, <1>8
<1> QED BY <1>1, <1>8, <1>9, <1>10, <1>11, <1>12, <1>13

\* The route ends with the edge back to the depot.
LEMMA RouteBegun ==
  ASSUME NEW w \in Seq(Nodes)
  PROVE  EndNode(w) \in Nodes /\ RouteLabel(w) = Join(Begun(w), Hop(EndNode(w), Depot))
<1>1a. PICK p : p = Closed(w)
  OBVIOUS
<1>1. PICK n \in Nat : n = Len(w) /\ p = Closed(w)
  BY <1>1a
<1>2. p \in Seq(Nodes) /\ Len(p) = n + 2 /\ p[n + 2] = Depot
  BY <1>1, ClosedIs
<1>3. p # << >>
  BY <1>2
<1>4. RouteLabel(w) = Ride(p, 1, n + 2)
  BY <1>1, <1>2, <1>3, RideWhole DEF RouteLabel
<1>5. PICK m \in Nat : m = n + 1
  OBVIOUS
<1>6. m \in 1..(Len(p) - 1) /\ m + 1 = n + 2
  BY <1>2, <1>5
<1>7. Ride(p, 1, m + 1) = Join(Ride(p, 1, m), Hop(p[m], p[m + 1])) /\ p[m] \in Nodes
  BY <1>2, <1>6, RideNext
<1>8. Begun(w) = Ride(p, 1, m) /\ EndNode(w) = p[m]
  BY <1>1, <1>5 DEF Begun, EndNode
<1> QED BY <1>2, <1>4, <1>6, <1>7, <1>8

\* The label of a stretch that ends with the edge to a station.
LEMMA RideArrives ==
  ASSUME NEW p \in Seq(Nodes), NEW k \in 2..Len(p), NEW s \in Stations, p[k] = s
  PROVE  AtStation(Ride(p, 1, k), s)
<1>1. PICK j \in 1..(Len(p) - 1) : k = j + 1
  <2>1. k - 1 \in 1..(Len(p) - 1) /\ k = (k - 1) + 1
    OBVIOUS
  <2> QED BY <2>1
<1>2. /\ Ride(p, 1, j) \in Label /\ p[j] \in Nodes
      /\ Ride(p, 1, j + 1) = Join(Ride(p, 1, j), Hop(p[j], p[j + 1]))
  BY RideNext
<1>3. AtStation(Join(Ride(p, 1, j), Hop(p[j], s)), s)
  BY <1>2, ArriveAt
<1> QED BY <1>1, <1>2, <1>3

\* One more visit of the canonical station where a stretch ends.
LEMMA RideRepeats ==
  ASSUME NEW p \in Seq(Nodes), NEW k \in 2..(Len(p) - 1), NEW s \in Stations, p[k] = s, p[k + 1] = s,
         CanonicalStation(s)
  PROVE  Agree(Ride(p, 1, k + 1), Ride(p, 1, k))
<1>1. k \in 2..Len(p) /\ k \in 1..(Len(p) - 1)
  OBVIOUS
<1>2. AtStation(Ride(p, 1, k), s)
  BY <1>1, RideArrives
<1>3. Ride(p, 1, k + 1) = Join(Ride(p, 1, k), Hop(s, s))
  BY <1>1, RideNext
<1> QED BY <1>2, <1>3, AgreeRepeat

\* Normalisation changes no score: the label of what is kept of the visits has
\* the canonical form of the label of all of them.
LEMMA NormalizedAgrees ==
  ASSUME NEW v \in Seq(Places), Normalizable(v)
  PROVE  /\ Normalized(v) \in Seq(Places)
         /\ Agree(RouteLabel(v), RouteLabel(Normalized(v)))
<1>1a. PICK q : q = Closed(v)
  OBVIOUS
<1>1. PICK n \in Nat : n = Len(v) /\ q = Closed(v)
  BY <1>1a
<1>2. PICK p : NormalAlong(p, n, v) /\ Normalized(v) = p[n]
  BY <1>1, NormalizedRuns
<1>3. Places \subseteq Nodes /\ Seq(Places) \subseteq Seq(Nodes) /\ v \in Seq(Nodes)
  BY DEF Places, Nodes
<1>4. /\ q \in Seq(Nodes) /\ Len(q) = n + 2
      /\ q[1] = Depot /\ q[n + 2] = Depot
      /\ \A i \in 1..n : q[i + 1] = v[i]
  BY <1>1, <1>3, ClosedIs
<1>5. PICK K : K = {k \in 0..n : Agree(Ride(q, 1, k + 1), Begun(p[k])) /\ EndNode(p[k]) = q[k + 1]}
  OBVIOUS
<1>6. 0 \in K
  <2>1. p[0] = << >> /\ 0 \in 0..n /\ 0 + 1 = 1
    BY <1>2 DEF NormalAlong
  <2>2. Ride(q, 1, 1) = NoLabel
    BY PieceEmpty DEF Ride
  <2>3. Agree(Ride(q, 1, 1), Begun(p[0])) /\ EndNode(p[0]) = q[1]
    BY <1>4, <2>1, <2>2, BegunEmpty DEF Agree
  <2> QED BY <1>5, <2>1, <2>3
<1>7. ASSUME NEW k \in 1..n, k - 1 \in K
      PROVE  k \in K
  <2>1. (k - 1) + 1 = k /\ k - 1 \in 0..n /\ k \in 0..n /\ k \in 1..(Len(q) - 1)
    BY <1>4
  <2>2. Agree(Ride(q, 1, k), Begun(p[k - 1])) /\ EndNode(p[k - 1]) = q[k]
    BY <1>5, <1>7, <2>1
  <2>3. q[k + 1] = v[k] /\ v[k] \in Nodes
    BY <1>1, <1>3, <1>4
  <2>4. p[k] = NormalStep(v, p[k - 1], k) /\ p[k - 1] \in Seq(Nodes)
    BY <1>2, <1>3, <2>1 DEF NormalAlong
  <2>5. CASE Repeats(v, k)
    <3>1. k > 1 /\ v[k] = v[k - 1] /\ v[k] \in Stations
      BY <2>5 DEF Repeats
    <3>2. CanonicalStation(v[k])
      <4>1. k \in DOMAIN v
        BY <1>1
      <4> QED BY <2>5, <4>1 DEF Normalizable
    <3>3. q[k] = v[k]
      <4>1. k - 1 \in 1..n
        BY <3>1
      <4> QED BY <1>4, <2>1, <3>1, <4>1
    <3>4. PICK s \in Stations : s = v[k]
      BY <3>1
    <3>5. k \in 2..(Len(q) - 1) /\ q[k] = s /\ q[k + 1] = s /\ CanonicalStation(s)
      BY <2>1, <2>3, <3>1, <3>2, <3>3, <3>4
    <3>6. Agree(Ride(q, 1, k + 1), Ride(q, 1, k))
      BY <1>4, <3>5, RideRepeats
    <3>7. p[k] = p[k - 1]
      BY <2>4, <2>5 DEF NormalStep
    <3>8. Agree(Ride(q, 1, k + 1), Begun(p[k]))
      BY <2>2, <3>6, <3>7, AgreeOn
    <3>9. EndNode(p[k]) = q[k + 1]
      BY <2>2, <3>5, <3>7
    <3> QED BY <1>5, <2>1, <3>8, <3>9
  <2>6. CASE ~Repeats(v, k)
    <3>1. p[k] = Append(p[k - 1], v[k])
      BY <2>4, <2>6 DEF NormalStep
    <3>2. /\ EndNode(p[k]) = v[k]
          /\ Begun(p[k]) = Join(Begun(p[k - 1]), Hop(q[k], v[k]))
      BY <2>2, <2>3, <2>4, <3>1, BegunAppend
    <3>3. Ride(q, 1, k + 1) = Join(Ride(q, 1, k), Hop(q[k], v[k])) /\ q[k] \in Nodes
      BY <1>4, <2>1, <2>3, RideNext
    <3>4. Agree(Ride(q, 1, k + 1), Begun(p[k]))
      BY <2>2, <2>3, <3>2, <3>3, AgreeHop
    <3> QED BY <1>5, <2>1, <2>3, <3>2, <3>4
  <2> QED BY <2>5, <2>6
<1>8. \A k \in 0..n : k \in K
  BY <1>6, <1>7, UpTo
<1>9. n \in K
  BY <1>8
<1>10. p[n] \in Seq(Places) /\ p[n] \in Seq(Nodes)
  <2>1. n \in 0..n
    OBVIOUS
  <2> QED BY <1>2, <1>3, <2>1 DEF NormalAlong
<1>11. Agree(Begun(v), Begun(p[n])) /\ EndNode(p[n]) = EndNode(v)
  BY <1>1, <1>5, <1>9 DEF Begun, EndNode
<1>12. Depot \in Nodes
  BY DEF Nodes
<1>13. RouteLabel(v) = Join(Begun(v), Hop(EndNode(v), Depot)) /\ EndNode(v) \in Nodes
  BY <1>3, RouteBegun
<1>14. RouteLabel(p[n]) = Join(Begun(p[n]), Hop(EndNode(v), Depot))
  BY <1>10, <1>11, RouteBegun
<1>15. Agree(RouteLabel(v), RouteLabel(p[n]))
  BY <1>11, <1>12, <1>13, <1>14, AgreeHop
<1> QED BY <1>2, <1>10, <1>15

-----------------------------------------------------------------------------
(* Slots inside a run of one station.                                      *)

\* Between three visits of a canonical station it makes no difference whether
\* the customer comes before or after the second.
LEMMA SlotBack ==
  ASSUME NEW v \in Seq(Nodes), NEW i \in 2..Len(v), NEW c \in Nodes, NEW s \in Stations, CanonicalStation(s),
         Closed(v)[i] = s, Closed(v)[i + 1] = s, Closed(v)[i + 2] = s
  PROVE  Agree(RouteLabel(InsertAt(v, i, c)), RouteLabel(InsertAt(v, i + 1, c)))
<1>1a. PICK p : p = Closed(v)
  OBVIOUS
<1>1. PICK n \in Nat : n = Len(v) /\ p = Closed(v)
  BY <1>1a
<1>2. PICK w0, w1 : w0 = InsertAt(v, i, c) /\ w1 = InsertAt(v, i + 1, c)
  OBVIOUS
<1>3. PICK q0, q1 : q0 = Closed(w0) /\ q1 = Closed(w1)
  OBVIOUS
<1>4. i \in 2..n /\ i \in 1..(Len(v) + 1) /\ i + 1 \in 1..(Len(v) + 1)
  BY <1>1
<1>5. /\ q0 \in Seq(Nodes) /\ Len(q0) = n + 3
      /\ \A k \in 1..i : q0[k] = p[k]
      /\ q0[i + 1] = c
      /\ \A k \in (i + 1)..(n + 2) : q0[k + 1] = p[k]
  <2>1. IsInsertedPath(Closed(InsertAt(v, i, c)), Closed(v), Len(v), i, c)
    BY <1>4, InsertedPath
  <2>2. IsInsertedPath(q0, p, n, i, c)
    BY <1>1, <1>2, <1>3, <2>1
  <2> QED BY <2>2 DEF IsInsertedPath
<1>6. /\ q1 \in Seq(Nodes) /\ Len(q1) = n + 3
      /\ \A k \in 1..(i + 1) : q1[k] = p[k]
      /\ q1[(i + 1) + 1] = c
      /\ \A k \in ((i + 1) + 1)..(n + 2) : q1[k + 1] = p[k]
  <2>1. IsInsertedPath(Closed(InsertAt(v, i + 1, c)), Closed(v), Len(v), i + 1, c)
    BY <1>4, InsertedPath
  <2>2. IsInsertedPath(q1, p, n, i + 1, c)
    BY <1>1, <1>2, <1>3, <2>1
  <2> QED BY <2>2 DEF IsInsertedPath
<1>7. PICK j \in 2..(n + 2), k \in 2..(n + 2), m \in 2..(n + 3) : j = i + 1 /\ k = i + 2 /\ m = i + 3
  <2>1. i + 1 \in 2..(n + 2) /\ i + 2 \in 2..(n + 2) /\ i + 3 \in 2..(n + 3)
    BY <1>4
  <2> QED BY <2>1
<1>8. /\ j = i + 1 /\ k = j + 1 /\ m = k + 1
      /\ i \in 1..(Len(q0) - 1) /\ j \in 1..(Len(q0) - 1) /\ k \in 1..(Len(q0) - 1)
      /\ i \in 2..(Len(q1) - 1) /\ k \in 2..(Len(q0) - 1)
      /\ i \in 1..(Len(q1) - 1) /\ j \in 1..(Len(q1) - 1) /\ k \in 1..(Len(q1) - 1)
  BY <1>4, <1>5, <1>6, <1>7
<1>9. p[i] = s /\ p[j] = s /\ p[k] = s
  BY <1>1, <1>7
<1>10. q0[i] = s /\ q0[j] = c /\ q0[k] = s /\ q0[m] = s
  <2>1. i \in 1..i /\ j \in (i + 1)..(n + 2) /\ k \in (i + 1)..(n + 2)
    BY <1>4, <1>7
  <2> QED BY <1>5, <1>8, <1>9, <2>1
<1>11. q1[i] = s /\ q1[j] = s /\ q1[k] = c /\ q1[m] = s
  <2>1. i \in 1..(i + 1) /\ j \in 1..(i + 1) /\ k = (i + 1) + 1 /\ k \in ((i + 1) + 1)..(n + 2)
    BY <1>4, <1>7
  <2> QED BY <1>6, <1>8, <1>9, <2>1
<1>12. Ride(q0, 1, i) = Ride(q1, 1, i)
  <2>1. 1 \in 1..Len(q0) /\ i \in 1..Len(q0) /\ 1 \in 1..Len(q1) /\ i \in 1..Len(q1)
    BY <1>4, <1>5, <1>6
  <2>2. \A e \in 0..(i - 1) : q0[1 + e] = q1[1 + e]
    <3>1. \A e \in 0..(i - 1) : 1 + e \in 1..i /\ 1 + e \in 1..(i + 1)
      OBVIOUS
    <3> QED BY <1>5, <1>6, <3>1
  <2> QED BY <1>5, <1>6, <2>1, <2>2, RideSame
<1>13. Agree(Ride(q1, 1, j), Ride(q0, 1, i))
  <2>1. Agree(Ride(q1, 1, i + 1), Ride(q1, 1, i))
    BY <1>6, <1>7, <1>8, <1>11, RideRepeats
  <2> QED BY <1>7, <1>12, <2>1
<1>14. Agree(Ride(q1, 1, k), Ride(q0, 1, j)) /\ s \in Nodes
  <2>1. Ride(q1, 1, k) = Join(Ride(q1, 1, j), Hop(s, c)) /\ s \in Nodes
    BY <1>6, <1>8, <1>11, RideNext
  <2>2. Ride(q0, 1, j) = Join(Ride(q0, 1, i), Hop(s, c))
    BY <1>5, <1>8, <1>10, RideNext
  <2> QED BY <1>13, <2>1, <2>2, AgreeHop
<1>15. Agree(Ride(q1, 1, m), Ride(q0, 1, k))
  <2>1. Ride(q1, 1, m) = Join(Ride(q1, 1, k), Hop(c, s))
    BY <1>6, <1>8, <1>11, RideNext
  <2>2. Ride(q0, 1, k) = Join(Ride(q0, 1, j), Hop(c, s))
    BY <1>5, <1>8, <1>10, RideNext
  <2> QED BY <1>14, <2>1, <2>2, AgreeHop
<1>16. Agree(Ride(q0, 1, m), Ride(q0, 1, k))
  BY <1>5, <1>8, <1>10, RideRepeats
<1>17. Agree(Ride(q0, 1, m), Ride(q1, 1, m))
  BY <1>15, <1>16, AgreeBack, AgreeOn
<1>18. Agree(Ride(q0, 1, Len(q0)), Ride(q1, 1, Len(q1)))
  <2>1. PICK l \in Nat : l = n + 3 - m
    OBVIOUS
  <2>2. l = Len(q0) - m /\ l = Len(q1) - m /\ m \in 1..Len(q0) /\ m \in 1..Len(q1)
    BY <1>5, <1>6, <2>1
  <2>3. ASSUME NEW e \in 0..l
        PROVE  q0[m + e] = q1[m + e]
    <3>1. PICK x : x = k + e
      OBVIOUS
    <3>2. x \in (i + 1)..(n + 2) /\ x \in ((i + 1) + 1)..(n + 2) /\ x + 1 = m + e
      BY <1>7, <2>1, <3>1
    <3> QED BY <1>5, <1>6, <3>2
  <2> QED BY <1>5, <1>6, <1>17, <2>2, <2>3, AgreeAlong
<1>19. RouteLabel(w0) = Ride(q0, 1, Len(q0)) /\ RouteLabel(w1) = Ride(q1, 1, Len(q1))
  <2>1. q0 # << >> /\ q1 # << >>
    BY <1>5, <1>6
  <2> QED BY <1>3, <1>5, <1>6, <2>1, RideWhole DEF RouteLabel
<1> QED BY <1>2, <1>18, <1>19

\* Nor does it matter between which of the visits of a run the customer is put.
LEMMA SlotsBack ==
  ASSUME NEW v \in Seq(Nodes), NEW lo \in 2..(Len(v) + 1), NEW hi \in lo..(Len(v) + 1),
         NEW c \in Nodes, NEW s \in Stations, CanonicalStation(s),
         \A k \in lo..(hi + 1) : Closed(v)[k] = s
  PROVE  Agree(RouteLabel(InsertAt(v, lo, c)), RouteLabel(InsertAt(v, hi, c)))
<1>1. PICK m \in Nat : m = hi - lo
  OBVIOUS
<1>2. PICK K : K = {k \in 0..m : Agree(RouteLabel(InsertAt(v, lo, c)), RouteLabel(InsertAt(v, lo + k, c)))}
  OBVIOUS
<1>3. 0 \in K
  <2>1. lo + 0 = lo /\ 0 \in 0..m
    OBVIOUS
  <2> QED BY <1>2, <2>1 DEF Agree
<1>4. ASSUME NEW k \in 1..m, k - 1 \in K
      PROVE  k \in K
  <2>1. PICK i \in 2..Len(v) : i = lo + (k - 1)
    <3>1. lo + (k - 1) \in 2..Len(v)
      BY <1>1
    <3> QED BY <3>1
  <2>2. i \in lo..(hi + 1) /\ i + 1 \in lo..(hi + 1) /\ i + 2 \in lo..(hi + 1)
    BY <1>1, <2>1
  <2>3. Agree(RouteLabel(InsertAt(v, i, c)), RouteLabel(InsertAt(v, i + 1, c)))
    BY <2>2, SlotBack
  <2>4. Agree(RouteLabel(InsertAt(v, lo, c)), RouteLabel(InsertAt(v, i, c)))
    BY <1>2, <1>4, <2>1
  <2>5. i + 1 = lo + k
    BY <2>1
  <2>6. Agree(RouteLabel(InsertAt(v, lo, c)), RouteLabel(InsertAt(v, i + 1, c)))
    BY <2>3, <2>4, AgreeOn
  <2> QED BY <1>2, <2>5, <2>6
<1>5. \A k \in 0..m : k \in K
  BY <1>3, <1>4, UpTo
<1>6. m \in K /\ lo + m = hi
  BY <1>1, <1>5
<1> QED BY <1>2, <1>6

\* The least and the greatest of a finite set of numbers.
LEMMA EndsOf ==
  ASSUME NEW S \in SUBSET Nat, IsFiniteSet(S), S # {}
  PROVE  /\ Min(S) \in S /\ \A y \in S : Min(S) <= y
         /\ Max(S) \in S /\ \A y \in S : y <= Max(S)
<1>1. PICK f : f = [x \in S |-> x]
  OBVIOUS
<1>2. \E x \in S : \A y \in S : f[x] <= f[y]
  <2>1. \A x \in S : f[x] \in Int
    BY <1>1
  <2> QED BY <2>1, LeastExists
<1>3. \E x \in S : \A y \in S : x <= y
  BY <1>1, <1>2
<1>4. PICK g : g = [x \in S |-> -x]
  OBVIOUS
<1>5. \E x \in S : \A y \in S : g[x] <= g[y]
  <2>1. \A x \in S : g[x] \in Int
    BY <1>4
  <2> QED BY <2>1, LeastExists
<1>6. PICK x \in S : \A y \in S : g[x] <= g[y]
  BY <1>5
<1>7. \A y \in S : y <= x
  <2>1. ASSUME NEW y \in S
        PROVE  y <= x
    <3>1. -x <= -y /\ x \in Nat /\ y \in Nat
      BY <1>4, <1>6
    <3> QED BY <3>1
  <2> QED BY <2>1
<1>8. \E z \in S : \A y \in S : z >= y
  BY <1>7
<1> QED BY <1>3, <1>8 DEF Min, Max

\* The slot that represents a slot scores as the slot itself does.
LEMMA RepresentativeIs ==
  ASSUME visits \in Seq(Nodes), NEW slot \in 1..(Len(visits) + 1), NEW c \in Nodes
  PROVE  /\ Representative(slot) \in 1..(Len(visits) + 1)
         /\ Agree(RouteLabel(InsertAt(visits, Representative(slot), c)), RouteLabel(InsertAt(visits, slot, c)))
<1>1. PICK run : run = Run(slot)
  OBVIOUS
<1>2. CASE \/ slot = 1 \/ ~(Path[slot] \in Stations /\ CanonicalStation(Path[slot]))
           \/ Max(run) - Min(run) < 2 \/ slot = Max(run)
  <2>1. Representative(slot) = slot
    BY <1>1, <1>2 DEF Representative
  <2> QED BY <2>1 DEF Agree
<1>3. CASE /\ slot # 1 /\ Path[slot] \in Stations /\ CanonicalStation(Path[slot])
           /\ ~(Max(run) - Min(run) < 2) /\ slot # Max(run)
  <2>1. Representative(slot) = Min(run)
    BY <1>1, <1>3 DEF Representative
  <2>2a. PICK p : p = Path
    OBVIOUS
  <2>2. PICK n \in Nat : n = Len(visits) /\ p = Path
    BY <2>2a
  <2>3. p \in Seq(Nodes) /\ Len(p) = n + 2 /\ DOMAIN p = 1..(n + 2) /\ p[1] = Depot
    BY <2>2, ClosedIs DEF Path
  <2>4. run = {j \in 1..(n + 2) : \A k \in Smaller(slot, j)..Larger(slot, j) : p[k] = p[slot]}
    BY <1>1, <2>2, <2>3 DEF Run
  <2>5. run \in SUBSET Nat /\ IsFiniteSet(run)
    <3>1. run \subseteq 1..(n + 2)
      BY <2>4
    <3>2. IsFiniteSet(1..(n + 2))
      BY FS_Interval
    <3>3. IsFiniteSet(run)
      BY <3>1, <3>2, FS_Subset
    <3>4. 1..(n + 2) \subseteq Nat
      OBVIOUS
    <3> QED BY <3>1, <3>3, <3>4
  <2>6. slot \in run
    <3>1. slot \in 1..(n + 2)
      BY <2>2
    <3>2. Smaller(slot, slot) = slot /\ Larger(slot, slot) = slot
      BY DEF Smaller, Larger
    <3>3. \A k \in slot..slot : k = slot
      OBVIOUS
    <3> QED BY <2>4, <3>1, <3>2, <3>3
  <2>7. PICK lo, hi : lo = Min(run) /\ hi = Max(run)
    OBVIOUS
  <2>8. lo \in run /\ hi \in run /\ lo <= slot /\ slot <= hi
    BY <2>5, <2>6, <2>7, EndsOf
  <2>9. lo \in 1..(n + 2) /\ hi \in 1..(n + 2) /\ slot < hi
    BY <1>3, <2>4, <2>7, <2>8
  <2>10. \A k \in lo..slot : p[k] = p[slot]
    <3>1. Smaller(slot, lo) = lo /\ Larger(slot, lo) = slot
      BY <2>8, <2>9 DEF Smaller, Larger
    <3> QED BY <2>4, <2>8, <3>1
  <2>11. p[slot + 1] = p[slot]
    <3>1. Smaller(slot, hi) = slot /\ Larger(slot, hi) = hi
      BY <2>8, <2>9 DEF Smaller, Larger
    <3>2. slot + 1 \in slot..hi
      BY <2>9
    <3> QED BY <2>4, <2>8, <3>1, <3>2
  <2>12. PICK s \in Stations : s = p[slot] /\ CanonicalStation(s)
    BY <1>3, <2>2
  <2>13. lo # 1
    <3>1. s # Depot
      BY NodesDisjoint
    <3> QED BY <2>3, <2>8, <2>9, <2>10, <2>12, <3>1
  <2>14. lo \in 2..(Len(visits) + 1) /\ slot \in lo..(Len(visits) + 1) /\ lo \in 1..(Len(visits) + 1)
    BY <2>8, <2>9, <2>13
  <2>15. \A k \in lo..(slot + 1) : Closed(visits)[k] = s
    <3>1. ASSUME NEW k \in lo..(slot + 1)
          PROVE  p[k] = s
      <4>1. k \in lo..slot \/ k = slot + 1
        BY <2>9
      <4> QED BY <2>10, <2>11, <2>12, <4>1
    <3> QED BY <2>2, <3>1 DEF Path
  <2>16. Agree(RouteLabel(InsertAt(visits, lo, c)), RouteLabel(InsertAt(visits, slot, c)))
    BY <2>12, <2>14, <2>15, SlotsBack
  <2> QED BY <2>1, <2>7, <2>14, <2>16
<1> QED BY <1>2, <1>3

-----------------------------------------------------------------------------
(* What the scorer promises.                                               *)

Promising == visits \in Seq(Places) /\ ScoresKeepTheirPromise

\* An edit whose label scores as the edited route.
LEMMA EditedPromise ==
  ASSUME NEW raw \in Seq(Places), NEW label, Edited(raw, label), Agree(label, RouteLabel(raw))
  PROVE  Promising'
<1>1. PICK w : w = Normalized(raw)
  OBVIOUS
<1>2. Normalizable(raw) /\ visits' = w /\ promised' = Canonical(label)
  BY <1>1 DEF Edited, Plan
<1>3. w \in Seq(Places) /\ Agree(RouteLabel(raw), RouteLabel(w))
  BY <1>1, <1>2, NormalizedAgrees
<1>4. Canonical(label) = Canonical(RouteLabel(raw))
  BY AgreeCanonical
<1>5. Canonical(RouteLabel(raw)) = Canonical(RouteLabel(w))
  BY <1>3, AgreeCanonical
<1> QED BY <1>2, <1>3, <1>4, <1>5 DEF Promising, ScoresKeepTheirPromise

\* Customers and stations are nodes.
LEMMA PlacesAreNodes ==
  /\ Places \subseteq Nodes /\ Seq(Places) \subseteq Seq(Nodes)
  /\ Absent \subseteq Places /\ Absent \subseteq Nodes
<1>1. Places \subseteq Nodes /\ Absent \subseteq Places
  BY DEF Places, Nodes, Absent
<1>2. Seq(Places) \subseteq Seq(Nodes)
  BY <1>1
<1> QED BY <1>1, <1>2

\* The score of an insertion is kept,
LEMMA InsertPromises ==
  ASSUME visits \in Seq(Places), InsertCustomer
  PROVE  Promising'
<1>1. PICK slot \in Slots, c \in Absent : Edited(InsertAt(visits, slot, c), InsertionLabel(Representative(slot), c))
  BY DEF InsertCustomer
<1>2. visits \in Seq(Nodes) /\ c \in Places /\ c \in Nodes /\ slot \in 1..(Len(visits) + 1)
  BY PlacesAreNodes DEF Slots
<1>3. PICK raw, r : raw = InsertAt(visits, slot, c) /\ r = Representative(slot)
  OBVIOUS
<1>4. raw \in Seq(Places)
  BY <1>2, <1>3, Inserted DEF IsInserted
<1>5. /\ r \in 1..(Len(visits) + 1)
      /\ Agree(RouteLabel(InsertAt(visits, r, c)), RouteLabel(raw))
  BY <1>2, <1>3, RepresentativeIs
<1>6. InsertionLabel(r, c) = RouteLabel(InsertAt(visits, r, c))
  BY <1>2, <1>5, InsertionIs
<1>7. Agree(InsertionLabel(r, c), RouteLabel(raw)) /\ Edited(raw, InsertionLabel(r, c))
  BY <1>1, <1>3, <1>5, <1>6
<1> QED BY <1>4, <1>7, EditedPromise

\* of a removal,
LEMMA RemovePromises ==
  ASSUME visits \in Seq(Places), RemoveCustomer
  PROVE  Promising'
<1>1. PICK i \in Occupied : IF Cardinality(Occupied) = 1 THEN visits' = << >> /\ promised' = NoLabel
                      ELSE Edited(RemoveAt(visits, i), RemovalLabel(i))
  BY DEF RemoveCustomer
<1>2. visits \in Seq(Nodes) /\ i \in 1..Len(visits)
  BY PlacesAreNodes DEF Occupied
<1>3. CASE visits' = << >>
  BY <1>3 DEF Promising, ScoresKeepTheirPromise
<1>4. CASE Edited(RemoveAt(visits, i), RemovalLabel(i))
  <2>1. PICK raw : raw = RemoveAt(visits, i)
    OBVIOUS
  <2>2. raw \in Seq(Places)
    BY <1>2, <2>1, Removed DEF IsRemoved
  <2>3. Agree(RemovalLabel(i), RouteLabel(raw))
    BY <1>2, <2>1, RemovalIs DEF Agree
  <2> QED BY <1>4, <2>1, <2>2, <2>3, EditedPromise
<1> QED BY <1>1, <1>3, <1>4

\* of a replacement,
LEMMA ReplacePromises ==
  ASSUME visits \in Seq(Places), ReplaceCustomer
  PROVE  Promising'
<1>1. PICK i \in Occupied, c \in Absent : Edited([visits EXCEPT ![i] = c], ReplacementLabel(i, c))
  BY DEF ReplaceCustomer
<1>2. visits \in Seq(Nodes) /\ i \in 1..Len(visits) /\ c \in Places /\ c \in Nodes
  BY PlacesAreNodes DEF Occupied
<1>3. PICK raw : raw = [visits EXCEPT ![i] = c]
  OBVIOUS
<1>4. raw \in Seq(Places)
  BY <1>2, <1>3
<1>5. Agree(ReplacementLabel(i, c), RouteLabel(raw))
  BY <1>2, <1>3, ReplacementIs DEF Agree
<1> QED BY <1>1, <1>3, <1>4, <1>5, EditedPromise

\* of a swap,
LEMMA SwapPromises ==
  ASSUME visits \in Seq(Places), SwapCustomers
  PROVE  Promising'
<1>1. PICK a \in Occupied, b \in Occupied : /\ b > a + 1
                                /\ Edited([visits EXCEPT ![a] = visits[b], ![b] = visits[a]], SwapLabel(a, b))
  BY DEF SwapCustomers
<1>2. visits \in Seq(Nodes) /\ a \in 1..Len(visits) /\ b \in 1..Len(visits)
  BY PlacesAreNodes DEF Occupied
<1>3. PICK raw : raw = [visits EXCEPT ![a] = visits[b], ![b] = visits[a]]
  OBVIOUS
<1>4. raw \in Seq(Places)
  BY <1>2, <1>3
<1>5. Agree(SwapLabel(a, b), RouteLabel(raw))
  BY <1>1, <1>2, <1>3, SwapIs DEF Agree
<1> QED BY <1>1, <1>3, <1>4, <1>5, EditedPromise

\* and of a relocation.
LEMMA RelocatePromises ==
  ASSUME visits \in Seq(Places), RelocateCustomer
  PROVE  Promising'
<1>1. PICK a \in Occupied, slot \in Slots :
        Edited(IF slot <= a THEN InsertAt(RemoveAt(visits, a), slot, visits[a])
               ELSE InsertAt(RemoveAt(visits, a), slot - 1, visits[a]),
               RelocateLabel(a, slot))
  BY DEF RelocateCustomer
<1>2. /\ visits \in Seq(Nodes) /\ a \in 1..Len(visits) /\ slot \in 1..(Len(visits) + 1)
      /\ visits[a] \in Places
  BY PlacesAreNodes DEF Occupied, Slots
<1>3. PICK s : s = IF slot <= a THEN slot ELSE slot - 1
  OBVIOUS
<1>4. s \in 1..Len(visits)
  BY <1>2, <1>3
<1>5. PICK raw : raw = Moved(visits, a, s)
  OBVIOUS
<1>6. Edited(raw, RelocateLabel(a, slot))
  BY <1>1, <1>3, <1>5 DEF Moved
<1>7. raw \in Seq(Places)
  <2>1. PICK r : r = RemoveAt(visits, a)
    OBVIOUS
  <2>2. r \in Seq(Places) /\ Len(r) = Len(visits) - 1
    BY <1>2, <2>1, Removed DEF IsRemoved
  <2>3. s \in 1..(Len(r) + 1)
    BY <1>4, <2>2
  <2>4. InsertAt(r, s, visits[a]) \in Seq(Places)
    BY <1>2, <2>2, <2>3, Inserted DEF IsInserted
  <2> QED BY <1>5, <2>1, <2>4 DEF Moved
<1>8. Agree(RelocateLabel(a, slot), RouteLabel(raw))
  BY <1>2, <1>3, <1>5, RelocationIs DEF Agree
<1> QED BY <1>6, <1>7, <1>8, EditedPromise

\* Whatever edits are made from whatever routes, the label put together from
\* prefixes, suffixes, ranges and new edges has the canonical form of the label
\* of the route that is made: for every instance, metric and curve, with slots
\* taken for the first of their run and stations that meet become one
\* (PhysicalRouteScorer).
THEOREM PromisesKept == EditSpec => []ScoresKeepTheirPromise
<1>1. EditInit => Promising
  BY RoutesType DEF EditInit, Promising, ScoresKeepTheirPromise, Places
<1>2. Promising /\ [EditNext]_editVars => Promising'
  <2> SUFFICES ASSUME Promising, [EditNext]_editVars
               PROVE  Promising'
    OBVIOUS
  <2>1. visits \in Seq(Places)
    BY DEF Promising
  <2>2. CASE InsertCustomer
    BY <2>1, <2>2, InsertPromises
  <2>3. CASE RemoveCustomer
    BY <2>1, <2>3, RemovePromises
  <2>4. CASE ReplaceCustomer
    BY <2>1, <2>4, ReplacePromises
  <2>5. CASE SwapCustomers
    BY <2>1, <2>5, SwapPromises
  <2>6. CASE RelocateCustomer
    BY <2>1, <2>6, RelocatePromises
  <2>7. CASE UNCHANGED editVars
    BY <2>7 DEF editVars, Promising, ScoresKeepTheirPromise
  <2> QED BY <2>2, <2>3, <2>4, <2>5, <2>6, <2>7 DEF EditNext
<1>3. Promising => ScoresKeepTheirPromise
  BY DEF Promising
<1> QED BY <1>1, <1>2, <1>3, PTL DEF EditSpec

-----------------------------------------------------------------------------
(* The label of an edge with stations on its way.                          *)

DrivenAlong(t, n, N) ==
  /\ t[0] = 0
  /\ \A k \in 0..n : t[k] \in Nat
  /\ \A k \in 1..n : t[k] = t[k - 1] + Dist[<<N[k], N[k + 1]>>]

Tour(N) == Travelled(N, [i \in 1..Len(N) - 1 |-> i])

\* The distance along a path, node by node.
LEMMA TourRuns ==
  ASSUME NEW N \in Seq(Nodes), NEW n \in Nat, Len(N) = n + 1
  PROVE  \E t : DrivenAlong(t, n, N) /\ Tour(N) = t[n]
<1>1. ASSUME NEW k \in 1..n
      PROVE  Dist[<<N[k], N[k + 1]>>] \in Nat
  <2>1. k \in 1..Len(N) /\ k + 1 \in 1..Len(N)
    OBVIOUS
  <2>2. N[k] \in Nodes /\ N[k + 1] \in Nodes
    BY <2>1
  <2> QED BY <2>2, NodeCosts
<1>2. PICK step : step = [k \in 1..n |-> [x \in Nat |-> x + Dist[<<N[k], N[k + 1]>>]]]
  OBVIOUS
<1>3. StepsInto(step, 1..n, Nat)
  <2>1. ASSUME NEW k \in 1..n, NEW x \in Nat
        PROVE  step[k][x] \in Nat
    <3>1. PICK e \in Nat : e = Dist[<<N[k], N[k + 1]>>]
      BY <1>1
    <3>2. step[k] = [y \in Nat |-> y + e]
      BY <1>2, <3>1
    <3> QED BY <3>2
  <2> QED BY <2>1 DEF StepsInto
<1>4. ASSUME NEW f, f[0] = 0, \A k \in 1..n : f[k] = f[k - 1] + Dist[<<N[k], N[k + 1]>>]
      PROVE  DrivenAlong(f, n, N)
  <2>1. \A k \in 1..n : f[k - 1] \in Nat => f[k] = step[k][f[k - 1]]
    BY <1>2, <1>4
  <2>2. Running(f, n, Nat, 0, step)
    BY <1>3, <1>4, <2>1, FoldedRuns
  <2> QED BY <1>4, <2>2 DEF Running, DrivenAlong
<1>5. PICK p \in [0..n -> Nat] : Running(p, n, Nat, 0, step)
  BY <1>3, RunExists
<1>6. ASSUME NEW k \in 1..n
      PROVE  k - 1 \in 0..n /\ p[k] = p[k - 1] + Dist[<<N[k], N[k + 1]>>]
  <2>1. k - 1 \in 0..n
    OBVIOUS
  <2>2. PICK v \in Nat : v = p[k - 1] /\ p[k] = step[k][v]
    BY <1>5, <2>1 DEF Running
  <2>3. step[k][v] = v + Dist[<<N[k], N[k + 1]>>]
    BY <1>2
  <2> QED BY <2>1, <2>2, <2>3
<1>7. PICK seq : seq = [i \in 1..Len(N) - 1 |-> i]
  OBVIOUS
<1>8. Len(seq) = n /\ \A k \in 1..n : seq[k] = k
  BY <1>7
<1>9. ASSUME NEW k \in 1..n
      PROVE  Ahead(N, seq[k]) = Dist[<<N[k], N[k + 1]>>]
  BY <1>8 DEF Ahead
<1>10. SolvesTravel(p, N, seq)
  <2>1. ASSUME NEW k \in 0..n
        PROVE  p[k] = IF k = 0 THEN 0 ELSE p[k - 1] + Ahead(N, seq[k])
    <3>1. CASE k = 0
      BY <1>5, <3>1 DEF Running
    <3>2. CASE k # 0
      <4>1. k \in 1..n
        BY <3>2
      <4>2. p[k] = p[k - 1] + Ahead(N, seq[k])
        BY <1>6, <1>9, <4>1
      <4> QED BY <3>2, <4>2
    <3> QED BY <3>1, <3>2
  <2>2. p = [k \in 0..n |-> IF k = 0 THEN 0 ELSE p[k - 1] + Ahead(N, seq[k])]
    <3>1. p = [k \in 0..n |-> p[k]]
      BY <1>5
    <3> QED BY <2>1, <3>1
  <2> QED BY <1>8, <2>2, TravelGrows
<1>11. PICK f : f = CHOOSE g : SolvesTravel(g, N, seq)
  OBVIOUS
<1>12. SolvesTravel(f, N, seq) /\ Tour(N) = f[n]
  BY <1>7, <1>8, <1>10, <1>11 DEF Tour, Travelled
<1>13. f[0] = 0 /\ \A k \in 1..n : f[k] = f[k - 1] + Dist[<<N[k], N[k + 1]>>]
  <2>1. f = [k \in 0..n |-> IF k = 0 THEN 0 ELSE f[k - 1] + Ahead(N, seq[k])]
    BY <1>8, <1>12, TravelGrows
  <2>2. f[0] = 0
    BY <2>1
  <2>3. ASSUME NEW k \in 1..n
        PROVE  f[k] = f[k - 1] + Dist[<<N[k], N[k + 1]>>]
    <3>1. k \in 0..n /\ k # 0
      OBVIOUS
    <3>2. f[k] = f[k - 1] + Ahead(N, seq[k])
      BY <2>1, <3>1
    <3> QED BY <1>9, <3>2
  <2> QED BY <2>2, <2>3
<1> QED BY <1>4, <1>12, <1>13

\* One more node is one more distance.
LEMMA TourNext ==
  ASSUME NEW M \in Seq(Nodes), NEW N \in Seq(Nodes), NEW n \in Nat, Len(M) = n + 1, Len(N) = n + 2,
         \A i \in 1..(n + 1) : N[i] = M[i]
  PROVE  /\ Tour(M) \in Nat /\ Tour(N) \in Nat
         /\ Tour(N) = Tour(M) + Dist[<<N[n + 1], N[n + 2]>>]
<1>1. PICK t : DrivenAlong(t, n, M) /\ Tour(M) = t[n]
  BY TourRuns
<1>2. PICK u : DrivenAlong(u, n + 1, N) /\ Tour(N) = u[n + 1]
  <2>1. n + 1 \in Nat /\ Len(N) = (n + 1) + 1
    OBVIOUS
  <2> QED BY <2>1, TourRuns
<1>3. PICK K : K = {k \in 0..n : t[k] = u[k]}
  OBVIOUS
<1>4. 0 \in K
  BY <1>1, <1>2, <1>3 DEF DrivenAlong
<1>5. ASSUME NEW k \in 1..n, k - 1 \in K
      PROVE  k \in K
  <2>1. k \in 1..(n + 1) /\ k + 1 \in 1..(n + 1) /\ k \in 0..n
    OBVIOUS
  <2>2. t[k] = t[k - 1] + Dist[<<M[k], M[k + 1]>>]
    BY <1>1 DEF DrivenAlong
  <2>3. u[k] = u[k - 1] + Dist[<<N[k], N[k + 1]>>]
    BY <1>2, <2>1 DEF DrivenAlong
  <2>4. N[k] = M[k] /\ N[k + 1] = M[k + 1]
    BY <2>1
  <2> QED BY <1>3, <1>5, <2>1, <2>2, <2>3, <2>4
<1>6. \A k \in 0..n : k \in K
  BY <1>4, <1>5, UpTo
<1>7. t[n] = u[n] /\ t[n] \in Nat /\ u[n + 1] \in Nat
  <2>1. n \in 0..n /\ n + 1 \in 0..(n + 1)
    OBVIOUS
  <2> QED BY <1>1, <1>2, <1>3, <1>6, <2>1 DEF DrivenAlong
<1>8. u[n + 1] = u[n] + Dist[<<N[n + 1], N[n + 2]>>]
  <2>1. n + 1 \in 1..(n + 1) /\ (n + 1) - 1 = n /\ (n + 1) + 1 = n + 2
    OBVIOUS
  <2> QED BY <1>2, <2>1 DEF DrivenAlong
<1> QED BY <1>1, <1>2, <1>7, <1>8

IsLine(N, a, w, b, m) ==
  /\ N \in Seq(Nodes) /\ Len(N) = m + 2 /\ N[1] = a /\ N[m + 2] = b
  /\ \A i \in 1..m : N[i + 1] = w[i]

\* The nodes between two ends.
LEMMA LineIs ==
  ASSUME NEW a \in Nodes, NEW w \in Seq(Nodes), NEW b \in Nodes, NEW m \in Nat, m = Len(w)
  PROVE  IsLine(Line(a, w, b), a, w, b, m)
<1>1. PICK d : d = <<a>>
  OBVIOUS
<1>2. d \in Seq(Nodes) /\ Len(d) = 1 /\ d[1] = a
  BY <1>1, OneEntry
<1>3. PICK x : x = d \o w
  OBVIOUS
<1>4. /\ x \in Seq(Nodes) /\ Len(x) = 1 + m
      /\ \A i \in 1..1 : x[i] = d[i]
      /\ \A i \in 1..m : x[1 + i] = w[i]
  <2>1. PICK o \in Nat : o = 1
    OBVIOUS
  <2>2. d \in Seq(Nodes) /\ w \in Seq(Nodes) /\ o = Len(d) /\ m = Len(w)
    BY <1>2, <2>1
  <2>3. /\ x \in Seq(Nodes) /\ Len(x) = o + m
        /\ \A i \in 1..o : x[i] = d[i]
        /\ \A i \in 1..m : x[o + i] = w[i]
    BY <1>3, <2>2, Appended
  <2> QED BY <2>1, <2>3
<1>5. PICK e : e = <<b>>
  OBVIOUS
<1>6. e \in Seq(Nodes) /\ Len(e) = 1 /\ e[1] = b
  BY <1>5, OneEntry
<1>7. PICK y : y = x \o e
  OBVIOUS
<1>8. /\ y \in Seq(Nodes) /\ Len(y) = (1 + m) + 1
      /\ \A i \in 1..(1 + m) : y[i] = x[i]
      /\ \A i \in 1..1 : y[(1 + m) + i] = e[i]
  <2>1. PICK o \in Nat, k \in Nat : o = 1 /\ k = 1 + m
    OBVIOUS
  <2>2. x \in Seq(Nodes) /\ e \in Seq(Nodes) /\ k = Len(x) /\ o = Len(e)
    BY <1>4, <1>6, <2>1
  <2>3. /\ y \in Seq(Nodes) /\ Len(y) = k + o
        /\ \A i \in 1..k : y[i] = x[i]
        /\ \A i \in 1..o : y[k + i] = e[i]
    BY <1>7, <2>2, Appended
  <2> QED BY <2>1, <2>3
<1>9. y = Line(a, w, b)
  BY <1>1, <1>3, <1>5, <1>7 DEF Line
<1>10. y[1] = a
  <2>1. 1 \in 1..1 /\ 1 \in 1..(1 + m)
    OBVIOUS
  <2> QED BY <1>2, <1>4, <1>8, <2>1
<1>11. y[m + 2] = b
  <2>1. 1 \in 1..1 /\ (1 + m) + 1 = m + 2
    OBVIOUS
  <2> QED BY <1>6, <1>8, <2>1
<1>12. ASSUME NEW i \in 1..m
       PROVE  y[i + 1] = w[i]
  <2>1. i + 1 \in 1..(1 + m) /\ 1 + i = i + 1
    OBVIOUS
  <2> QED BY <1>4, <1>8, <2>1
<1>13. Len(y) = m + 2
  BY <1>8
<1> QED BY <1>8, <1>9, <1>10, <1>11, <1>12, <1>13 DEF IsLine

WayLegs(a, w, b) ==
  LET stops == IF b \in Stations THEN Append(w, b) ELSE w
  IN [i \in DOMAIN stops |->
        [station |-> stops[i], energy |-> Energy(Line(a, w, b)[i], stops[i]),
         adjacent |-> Line(a, w, b)[i] = stops[i]]]

\* What the label of an edge consists of.
LEMMA WayParts ==
  ASSUME NEW a, NEW w, NEW b
  PROVE  EdgeLabel(a, w, b) =
        [from |-> a, to |-> b, initialized |-> TRUE,
         legs |-> WayLegs(a, w, b),
         tail |-> IF b \in Stations THEN 0 ELSE Energy(Line(a, w, b)[Len(Line(a, w, b)) - 1], b),
         travel |-> Tour(Line(a, w, b)),
         service |-> ServiceOf(b)]
  BY DEF EdgeLabel, SumOver, Folded, Tour, Travelled, SolvesTravel, Ahead, Line, WayLegs

IsWay(L, a, N, m, b) ==
  /\ L \in Labelled /\ L.from = a /\ L.to = b
  /\ L.travel = Tour(N) /\ L.service = ServiceOf(b)
  /\ L.tail = IF b \in Stations THEN 0 ELSE Energy(N[m + 1], b)
  /\ Len(L.legs) = IF b \in Stations THEN m + 1 ELSE m
  /\ \A i \in 1..Len(L.legs) : L.legs[i] = LegTo(N[i], N[i + 1], 0)

\* It has a leg to every station on the way.
LEMMA WayIs ==
  ASSUME NEW a \in Nodes, NEW w \in Seq(Stations), NEW b \in Nodes, NEW m \in Nat, m = Len(w),
         NEW N, N = Line(a, w, b)
  PROVE  IsWay(EdgeLabel(a, w, b), a, N, m, b)
<1>1. w \in Seq(Nodes)
  BY DEF Nodes
<1>2. /\ N \in Seq(Nodes) /\ Len(N) = m + 2 /\ N[1] = a /\ N[m + 2] = b
      /\ \A i \in 1..m : N[i + 1] = w[i]
  <2>1. IsLine(Line(a, w, b), a, w, b, m)
    BY <1>1, LineIs
  <2> QED BY <2>1 DEF IsLine
<1>3. \A i \in 1..(m + 2) : N[i] \in Nodes
  BY <1>2
<1>4. PICK k \in Nat : k = IF b \in Stations THEN m + 1 ELSE m
  OBVIOUS
<1>5. PICK stops : stops = IF b \in Stations THEN Append(w, b) ELSE w
  OBVIOUS
<1>6. DOMAIN stops = 1..k /\ \A i \in 1..k : stops[i] = N[i + 1] /\ stops[i] \in Stations
  <2>1. CASE b \in Stations
    <3>1. stops = Append(w, b) /\ k = m + 1
      BY <1>4, <1>5, <2>1
    <3>2. stops \in Seq(Stations) /\ Len(stops) = m + 1 /\ stops[m + 1] = b
          /\ \A i \in 1..m : stops[i] = w[i]
      BY <2>1, <3>1
    <3>3. ASSUME NEW i \in 1..(m + 1)
          PROVE  stops[i] = N[i + 1] /\ stops[i] \in Stations
      <4>1. CASE i = m + 1
        <5>1. i + 1 = m + 2
          BY <4>1
        <5> QED BY <1>2, <2>1, <3>2, <4>1, <5>1
      <4>2. CASE i # m + 1
        <5>1. i \in 1..m
          BY <4>2
        <5> QED BY <1>2, <3>2, <5>1
      <4> QED BY <4>1, <4>2
    <3>4. DOMAIN stops = 1..(m + 1)
      BY <3>2
    <3> QED BY <3>1, <3>3, <3>4
  <2>2. CASE b \notin Stations
    <3>1. stops = w /\ k = m
      BY <1>4, <1>5, <2>2
    <3>2. DOMAIN w = 1..m /\ \A i \in 1..m : w[i] \in Stations
      OBVIOUS
    <3> QED BY <1>2, <3>1, <3>2
  <2> QED BY <2>1, <2>2
<1>7. PICK legs : legs = WayLegs(a, w, b)
  OBVIOUS
<1>8. legs = [i \in 1..k |-> LegTo(N[i], N[i + 1], 0)] /\ legs \in Seq(Leg) /\ Len(legs) = k
  <2>1. legs = [i \in 1..k |-> [station |-> stops[i], energy |-> Energy(N[i], stops[i]),
                                adjacent |-> N[i] = stops[i]]]
    BY <1>5, <1>6, <1>7 DEF WayLegs
  <2>2. ASSUME NEW i \in 1..k
        PROVE  /\ LegTo(N[i], N[i + 1], 0) \in Leg
               /\ [station |-> stops[i], energy |-> Energy(N[i], stops[i]),
                   adjacent |-> N[i] = stops[i]] = LegTo(N[i], N[i + 1], 0)
    <3>1. i \in 1..(m + 2) /\ i + 1 \in 1..(m + 2)
      BY <1>4
    <3>2. N[i] \in Nodes /\ N[i + 1] \in Nodes /\ N[i + 1] \in Stations /\ stops[i] = N[i + 1]
      BY <1>3, <1>6, <3>1
    <3>3. PICK e \in Nat : e = Energy(N[i], N[i + 1])
      BY <3>2, NodeCosts
    <3>4. e + 0 = e
      OBVIOUS
    <3>5. LegTo(N[i], N[i + 1], 0) \in Leg
      BY <3>2, LegToType
    <3> QED BY <3>2, <3>3, <3>4, <3>5 DEF LegTo
  <2>3. legs = [i \in 1..k |-> LegTo(N[i], N[i + 1], 0)]
    BY <2>1, <2>2
  <2>4. legs \in Seq(Leg) /\ Len(legs) = k
    <3>1. \A i \in 1..k : legs[i] \in Leg
      BY <2>2, <2>3
    <3> QED BY <2>3, <3>1
  <2> QED BY <2>3, <2>4
<1>9. PICK tail : tail = IF b \in Stations THEN 0 ELSE Energy(N[m + 1], b)
  OBVIOUS
<1>10. tail \in Nat
  <2>1. N[m + 1] \in Nodes
    BY <1>3
  <2> QED BY <1>9, <2>1, NodeCosts
<1>11. Tour(N) \in Nat /\ ServiceOf(b) \in Nat
  <2>1. m + 1 \in Nat /\ Len(N) = (m + 1) + 1
    BY <1>2
  <2>2. PICK t : DrivenAlong(t, m + 1, N) /\ Tour(N) = t[m + 1]
    BY <1>2, <2>1, TourRuns
  <2>3. m + 1 \in 0..(m + 1)
    OBVIOUS
  <2> QED BY <2>2, <2>3, NodeCosts DEF DrivenAlong
<1>12. PICK L : L = EdgeLabel(a, w, b)
  OBVIOUS
<1>13. Len(N) - 1 = m + 1
  BY <1>2
<1>14. L = [from |-> a, to |-> b, initialized |-> TRUE, legs |-> legs, tail |-> tail,
            travel |-> Tour(N), service |-> ServiceOf(b)]
  BY <1>7, <1>9, <1>12, <1>13, WayParts
<1>15. L \in Labelled
  BY <1>8, <1>10, <1>11, <1>14 DEF Labelled
<1>16. L.from = a /\ L.to = b /\ L.legs = legs /\ L.tail = tail /\ L.travel = Tour(N) /\ L.service = ServiceOf(b)
  BY <1>14
<1>17. \A i \in 1..Len(L.legs) : L.legs[i] = LegTo(N[i], N[i + 1], 0)
  BY <1>8, <1>16
<1> QED BY <1>4, <1>8, <1>9, <1>12, <1>15, <1>16, <1>17 DEF IsWay

\* What is joined to a label by one edge is determined.
LEMMA HopDetermines ==
  ASSUME NEW L, NEW M, NEW K, NEW a, NEW b, HopJoined(M, L, a, b), HopJoined(K, L, a, b)
  PROVE  M = K
  BY SameLabel DEF HopJoined

\* One more station on the way is one more edge.
LEMMA WayNext ==
  ASSUME NEW a \in Nodes, NEW w \in Seq(Stations), NEW s \in Stations, NEW b \in Nodes
  PROVE  /\ EdgeLabel(a, w, s) \in Labelled
         /\ EdgeLabel(a, Append(w, s), b) = Join(EdgeLabel(a, w, s), Hop(s, b))
<1>1. PICK m \in Nat : m = Len(w)
  OBVIOUS
<1>2. PICK v : v = Append(w, s)
  OBVIOUS
<1>3. v \in Seq(Stations) /\ m + 1 = Len(v) /\ m + 1 \in Nat /\ v[m + 1] = s /\ \A i \in 1..m : v[i] = w[i]
  BY <1>1, <1>2
<1>4. s \in Nodes /\ w \in Seq(Nodes) /\ v \in Seq(Nodes)
  BY <1>3 DEF Nodes
<1>5. PICK M : M = Line(a, w, s)
  OBVIOUS
<1>6. PICK N : N = Line(a, v, b)
  OBVIOUS
<1>7. /\ M \in Seq(Nodes) /\ Len(M) = m + 2 /\ M[1] = a /\ M[m + 2] = s
      /\ \A i \in 1..m : M[i + 1] = w[i]
  <2>1. IsLine(Line(a, w, s), a, w, s, m)
    BY <1>1, <1>4, LineIs
  <2> QED BY <1>5, <2>1 DEF IsLine
<1>8. /\ N \in Seq(Nodes) /\ Len(N) = (m + 1) + 2 /\ N[1] = a /\ N[(m + 1) + 2] = b
      /\ \A i \in 1..(m + 1) : N[i + 1] = v[i]
  <2>1. IsLine(Line(a, v, b), a, v, b, m + 1)
    BY <1>3, <1>4, LineIs
  <2> QED BY <1>6, <2>1 DEF IsLine
<1>9. ASSUME NEW i \in 1..(m + 2)
      PROVE  N[i] = M[i]
  <2>1. CASE i = 1
    BY <1>7, <1>8, <2>1
  <2>2. CASE i # 1
    <3>1. PICK j \in 1..(m + 1) : i = j + 1
      <4>1. i - 1 \in 1..(m + 1) /\ i = (i - 1) + 1
        BY <2>2
      <4> QED BY <4>1
    <3>2. N[i] = v[j]
      BY <1>8, <3>1
    <3>3. CASE j = m + 1
      <4>1. i = m + 2
        BY <3>1, <3>3
      <4> QED BY <1>3, <1>7, <3>2, <3>3, <4>1
    <3>4. CASE j # m + 1
      <4>1. j \in 1..m
        BY <3>4
      <4> QED BY <1>3, <1>7, <3>1, <3>2, <4>1
    <3> QED BY <3>3, <3>4
  <2> QED BY <2>1, <2>2
<1>10. PICK L : L = EdgeLabel(a, w, s)
  OBVIOUS
<1>11. PICK R : R = EdgeLabel(a, v, b)
  OBVIOUS
<1>12. IsWay(L, a, M, m, s)
  BY <1>1, <1>4, <1>5, <1>10, WayIs
<1>13. IsWay(R, a, N, m + 1, b)
  BY <1>3, <1>6, <1>11, WayIs
<1>14. L \in Labelled /\ L.from = a /\ L.tail = 0 /\ L.travel = Tour(M) /\ Len(L.legs) = m + 1
       /\ \A i \in 1..(m + 1) : L.legs[i] = LegTo(M[i], M[i + 1], 0)
  BY <1>12 DEF IsWay
<1>15. /\ R \in Labelled /\ R.from = a /\ R.to = b /\ R.travel = Tour(N) /\ R.service = ServiceOf(b)
       /\ R.tail = IF b \in Stations THEN 0 ELSE Energy(N[(m + 1) + 1], b)
       /\ Len(R.legs) = IF b \in Stations THEN (m + 1) + 1 ELSE m + 1
       /\ \A i \in 1..Len(R.legs) : R.legs[i] = LegTo(N[i], N[i + 1], 0)
  BY <1>13 DEF IsWay
<1>16. N[m + 2] = s /\ N[m + 3] = b
  <2>1. m + 2 \in 1..(m + 2) /\ (m + 1) + 2 = m + 3
    OBVIOUS
  <2> QED BY <1>7, <1>8, <1>9, <2>1
<1>17. R.travel = L.travel + Dist[<<s, b>>]
  <2>1. PICK n \in Nat : n = m + 1
    OBVIOUS
  <2>2. Len(M) = n + 1 /\ Len(N) = n + 2 /\ n + 1 = m + 2 /\ n + 2 = m + 3
    BY <1>7, <1>8, <2>1
  <2>3. \A i \in 1..(n + 1) : N[i] = M[i]
    BY <1>9, <2>2
  <2>4. Tour(N) = Tour(M) + Dist[<<N[n + 1], N[n + 2]>>]
    BY <1>7, <1>8, <2>2, <2>3, TourNext
  <2> QED BY <1>14, <1>15, <1>16, <2>2, <2>4
<1>18. \A i \in 1..(m + 1) : LegTo(N[i], N[i + 1], 0) = L.legs[i]
  <2>1. ASSUME NEW i \in 1..(m + 1)
        PROVE  LegTo(N[i], N[i + 1], 0) = L.legs[i]
    <3>1. i \in 1..(m + 2) /\ i + 1 \in 1..(m + 2)
      OBVIOUS
    <3>2. N[i] = M[i] /\ N[i + 1] = M[i + 1]
      BY <1>9, <3>1
    <3> QED BY <1>14, <3>2
  <2> QED BY <2>1
<1>19. R.legs \in Seq(Leg) /\ L.legs \in Seq(Leg) /\ L.service \in Nat
  BY <1>14, <1>15 DEF Labelled
<1>20. R.service = L.service + ServiceOf(b)
  <2>1. L.service = 0
    <3>1. s \notin Customers
      BY NodesDisjoint
    <3> QED BY <1>12, <3>1 DEF IsWay, ServiceOf
  <2>2. ServiceOf(b) \in Nat
    BY NodeCosts
  <2> QED BY <1>15, <2>1, <2>2
<1>21. HopJoined(R, L, s, b)
  <2>1. CASE b \in Stations
    <3>1. R.tail = 0 /\ Len(R.legs) = m + 2
      BY <1>15, <2>1
    <3>2. PICK x : x = LegTo(s, b, 0)
      OBVIOUS
    <3>3. x \in Leg
      BY <1>4, <2>1, <3>2, LegToType
    <3>4. PICK t : t = Append(L.legs, x)
      OBVIOUS
    <3>5. t \in Seq(Leg) /\ Len(t) = m + 2 /\ t[m + 2] = x /\ \A i \in 1..(m + 1) : t[i] = L.legs[i]
      BY <1>14, <1>19, <3>3, <3>4
    <3>6. ASSUME NEW i \in 1..(m + 2)
          PROVE  R.legs[i] = t[i]
      <4>1. R.legs[i] = LegTo(N[i], N[i + 1], 0)
        BY <1>15, <3>1
      <4>2. CASE i = m + 2
        <5>1. i + 1 = m + 3
          BY <4>2
        <5> QED BY <1>16, <3>2, <3>5, <4>1, <4>2, <5>1
      <4>3. CASE i # m + 2
        <5>1. i \in 1..(m + 1)
          BY <4>3
        <5> QED BY <1>18, <3>5, <4>1, <5>1
      <4> QED BY <4>2, <4>3
    <3>7. R.legs = t
      BY <1>19, <3>1, <3>5, <3>6, SameEntries
    <3> QED BY <1>14, <1>15, <1>17, <1>20, <2>1, <3>1, <3>2, <3>4, <3>7 DEF HopJoined
  <2>2. CASE b \notin Stations
    <3>1. R.tail = Energy(s, b) /\ Len(R.legs) = m + 1
      <4>1. (m + 1) + 1 = m + 2
        OBVIOUS
      <4> QED BY <1>15, <1>16, <2>2, <4>1
    <3>2. R.legs = L.legs
      <4>1. \A i \in 1..Len(R.legs) : R.legs[i] = L.legs[i]
        BY <1>15, <1>18, <3>1
      <4> QED BY <1>14, <1>19, <3>1, <4>1, SameEntries
    <3>3. R.tail = L.tail + Energy(s, b)
      <4>1. Energy(s, b) \in Nat
        BY <1>4, NodeCosts
      <4> QED BY <1>14, <3>1, <4>1
    <3> QED BY <1>14, <1>15, <1>17, <1>20, <2>2, <3>2, <3>3 DEF HopJoined
  <2> QED BY <2>1, <2>2
<1>22. HopJoined(Join(L, Hop(s, b)), L, s, b)
  BY <1>4, <1>14, JoinHop
<1>23. R = Join(L, Hop(s, b))
  BY <1>21, <1>22, HopDetermines
<1> QED BY <1>2, <1>10, <1>11, <1>14, <1>23

\* The label of an edge is that of the way node by node.
LEMMA WayIsRide ==
  ASSUME NEW a \in Nodes, NEW w \in Seq(Stations), NEW b \in Nodes, NEW m \in Nat, m = Len(w),
         NEW N, N = Line(a, w, b)
  PROVE  EdgeLabel(a, w, b) \in Labelled /\ EdgeLabel(a, w, b) = Ride(N, 1, m + 2)
<1>1. w \in Seq(Nodes) /\ \A k \in 1..m : w[k] \in Stations
  BY DEF Nodes
<1>2. /\ N \in Seq(Nodes) /\ Len(N) = m + 2 /\ N[1] = a /\ N[m + 2] = b
      /\ \A i \in 1..m : N[i + 1] = w[i]
  <2>1. IsLine(Line(a, w, b), a, w, b, m)
    BY <1>1, LineIs
  <2> QED BY <2>1 DEF IsLine
<1>3. PICK part : part = [k \in 0..m |-> SubSeq(w, 1, k)]
  OBVIOUS
<1>4. /\ \A k \in 0..m : part[k] \in Seq(Stations) /\ Len(part[k]) = k
                         /\ \A i \in 1..k : part[k][i] = w[i]
      /\ part[0] = << >> /\ part[m] = w
  BY <1>3
<1>5. ASSUME NEW k \in 1..m
      PROVE  k - 1 \in 0..m /\ part[k] = Append(part[k - 1], w[k])
  <2>1. k - 1 \in 0..m /\ k \in 0..m
    OBVIOUS
  <2>2. PICK t : t = Append(part[k - 1], w[k])
    OBVIOUS
  <2>3. part[k - 1] \in Seq(Stations) /\ Len(part[k - 1]) = k - 1 /\ w[k] \in Stations
        /\ part[k] \in Seq(Stations) /\ Len(part[k]) = k
    BY <1>1, <1>4, <2>1
  <2>4. /\ t \in Seq(Stations) /\ Len(t) = k /\ t[k] = w[k]
        /\ \A i \in 1..(k - 1) : t[i] = part[k - 1][i]
    BY <2>2, <2>3
  <2>5. \A i \in 1..(k - 1) : part[k - 1][i] = w[i]
    BY <1>4, <2>1
  <2>6. \A i \in 1..Len(part[k]) : part[k][i] = w[i]
    BY <1>4, <2>1, <2>3
  <2>7. \A i \in 1..Len(part[k]) : part[k][i] = t[i]
    BY <2>3, <2>4, <2>5, <2>6
  <2>8. part[k] = t
    BY <2>3, <2>4, <2>7, SameEntries
  <2> QED BY <2>1, <2>2, <2>8
<1>6. PICK K : K = {k \in 0..m : EdgeLabel(a, part[k], N[k + 2]) = Ride(N, 1, k + 2)}
  OBVIOUS
<1>7. 0 \in K
  <2>1. 1 \in 1..(Len(N) - 1) /\ 1 + 1 = 2 /\ 0 + 2 = 2
    BY <1>2
  <2>2. Edge(N[1], N[2]) = Ride(N, 1, 2)
    BY <1>2, <2>1, RideEdge
  <2> QED BY <1>2, <1>4, <1>6, <2>1, <2>2 DEF Edge
<1>8. ASSUME NEW k \in 1..m, k - 1 \in K
      PROVE  k \in K
  <2>1. EdgeLabel(a, part[k - 1], N[(k - 1) + 2]) = Ride(N, 1, (k - 1) + 2)
    BY <1>6, <1>8
  <2>2. (k - 1) + 2 = k + 1 /\ k + 1 \in 1..(Len(N) - 1) /\ (k + 1) + 1 = k + 2
        /\ k + 1 \in 1..Len(N) /\ k + 2 \in 1..Len(N)
    BY <1>2
  <2>3. EdgeLabel(a, part[k - 1], N[k + 1]) = Ride(N, 1, k + 1)
    BY <2>1, <2>2
  <2>4. N[k + 1] \in Stations /\ N[k + 1] = w[k] /\ N[k + 2] \in Nodes /\ part[k - 1] \in Seq(Stations)
    BY <1>1, <1>2, <1>4, <1>5, <2>2
  <2>5. EdgeLabel(a, Append(part[k - 1], N[k + 1]), N[k + 2])
          = Join(EdgeLabel(a, part[k - 1], N[k + 1]), Hop(N[k + 1], N[k + 2]))
    BY <2>4, WayNext
  <2>6. Ride(N, 1, (k + 1) + 1) = Join(Ride(N, 1, k + 1), Hop(N[k + 1], N[(k + 1) + 1]))
    BY <1>2, <2>2, RideNext
  <2>7. EdgeLabel(a, part[k], N[k + 2]) = Ride(N, 1, k + 2)
    BY <1>5, <2>2, <2>3, <2>4, <2>5, <2>6
  <2> QED BY <1>6, <2>7
<1>9. m \in K
  <2>1. \A k \in 0..m : k \in K
    BY <1>7, <1>8, UpTo
  <2> QED BY <2>1
<1>10. EdgeLabel(a, w, b) \in Labelled
  <2>1. IsWay(EdgeLabel(a, w, b), a, N, m, b)
    BY WayIs
  <2> QED BY <2>1 DEF IsWay
<1> QED BY <1>2, <1>4, <1>6, <1>9, <1>10

\* A sequence with an entry is not empty.
LEMMA NotEmpty == ASSUME NEW s, Len(s) # 0 PROVE s # << >>
<1>1. Len(<< >>) = 0
  OBVIOUS
<1> QED BY <1>1

\* From their nodes a and c, the paths p and q go the same way for m edges.
SameWay(p, a, q, c, m) ==
  /\ p \in Seq(Nodes) /\ q \in Seq(Nodes) /\ a \in Nat /\ c \in Nat /\ m \in Nat
  /\ a >= 1 /\ a + m <= Len(p) /\ c >= 1 /\ c + m <= Len(q)
  /\ \A k \in 0..m : p[a + k] = q[c + k]

\* Stretches that go the same way have the same label.
LEMMA RideAlike ==
  ASSUME NEW p, NEW a, NEW q, NEW c, NEW m, SameWay(p, a, q, c, m)
  PROVE  Ride(p, a, a + m) = Ride(q, c, c + m)
<1>1. /\ p \in Seq(Nodes) /\ q \in Seq(Nodes) /\ a \in Nat /\ c \in Nat /\ m \in Nat
      /\ a >= 1 /\ a + m <= Len(p) /\ c >= 1 /\ c + m <= Len(q)
  BY DEF SameWay
<1>2. PICK b \in Nat, d \in Nat : b = a + m /\ d = c + m
  BY <1>1
<1>3. a \in 1..Len(p) /\ b \in a..Len(p) /\ c \in 1..Len(q) /\ d \in c..Len(q)
      /\ b - a = d - c /\ b - a = m
  BY <1>1, <1>2
<1>4. \A k \in 0..(b - a) : p[a + k] = q[c + k]
  BY <1>3 DEF SameWay
<1>5. Ride(p, a, b) = Ride(q, c, d)
  BY <1>1, <1>3, <1>4, RideSame
<1> QED BY <1>2, <1>5

\* Q is P, of n nodes, and from its end on N, of l more nodes.
GoesOn(P, n, Q, N, l) ==
  /\ P \in Seq(Nodes) /\ n \in Nat /\ l \in Nat /\ Q \in Seq(Nodes) /\ N \in Seq(Nodes)
  /\ n = Len(P) /\ n >= 1 /\ Len(Q) = n + l /\ Len(N) = l + 1
  /\ \A i \in 1..n : Q[i] = P[i]
  /\ \A k \in 0..l : Q[n + k] = N[1 + k]

\* A path that goes on as another path does.
LEMMA RideFurther ==
  ASSUME NEW P, NEW n, NEW l, NEW Q, NEW N, GoesOn(P, n, Q, N, l)
  PROVE  PathLabel(P) \in Label /\ PathLabel(Q) = Join(PathLabel(P), Ride(N, 1, 1 + l))
<1> P \in Seq(Nodes) /\ n \in Nat /\ l \in Nat /\ Q \in Seq(Nodes) /\ N \in Seq(Nodes)
  BY DEF GoesOn
<1>1. PICK a \in Nat, b \in Nat, d \in Nat : a = Len(P) /\ b = Len(Q) /\ d = Len(N)
  OBVIOUS
<1>2. n = a /\ n >= 1 /\ b = n + l /\ d = 1 + l /\ n + l <= b /\ 1 + l <= d
  BY <1>1 DEF GoesOn
<1>3. n \in 1..b /\ b \in n..b /\ 1 \in 1..d /\ 1 \in 1..b /\ 1 \in 1..n /\ n \in 1..n
  BY <1>2
<1>4. Ride(Q, n, b) = Ride(N, 1, 1 + l)
  <2>1. SameWay(Q, n, N, 1, l)
    BY <1>1, <1>2 DEF SameWay, GoesOn
  <2>2. Ride(Q, n, n + l) = Ride(N, 1, 1 + l)
    BY <2>1, RideAlike
  <2> QED BY <1>2, <2>2
<1>5. Ride(Q, 1, n) = Ride(P, 1, n)
  <2>1. PICK o \in Nat : o = n - 1 /\ 1 + o = n /\ 1 + o <= b /\ 1 + o <= a
    BY <1>2
  <2>2. \A k \in 0..o : 1 + k \in 1..n
    BY <2>1
  <2>3. SameWay(Q, 1, P, 1, o)
    BY <1>1, <2>1, <2>2 DEF SameWay, GoesOn
  <2>4. Ride(Q, 1, 1 + o) = Ride(P, 1, 1 + o)
    BY <2>3, RideAlike
  <2> QED BY <2>1, <2>4
<1>6. Ride(Q, 1, b) = Join(Ride(Q, 1, n), Ride(Q, n, b))
  BY <1>1, <1>3, RideSplit
<1>7. PathLabel(Q) = Ride(Q, 1, b) /\ PathLabel(P) = Ride(P, 1, n)
  <2>1. P # << >> /\ Q # << >>
    <3>1. Len(P) # 0 /\ Len(Q) # 0
      BY <1>1, <1>2
    <3> QED BY <3>1, NotEmpty
  <2> QED BY <1>1, <1>2, <2>1, RideWhole
<1>8. Ride(P, 1, n) \in Label
  BY <1>1, <1>2, <1>3, RideType
<1> QED BY <1>4, <1>5, <1>6, <1>7, <1>8

\* Q is P and a way over the stations w to b.
GoesOnBy(P, w, b, Q) ==
  /\ P \in Seq(Nodes) /\ Len(P) >= 1 /\ w \in Seq(Stations) /\ b \in Nodes
  /\ Q = P \o Append(w, b)

\* A path that goes on by some stations to a node.
LEMMA RideOn ==
  ASSUME NEW P, NEW w, NEW b, NEW Q, GoesOnBy(P, w, b, Q)
  PROVE  /\ Q \in Seq(Nodes) /\ Len(Q) >= 1 /\ Q[Len(Q)] = b
         /\ PathLabel(Q) = Join(PathLabel(P), EdgeLabel(P[Len(P)], w, b))
<1> P \in Seq(Nodes) /\ w \in Seq(Stations) /\ b \in Nodes
  BY DEF GoesOnBy
<1>0. PICK n \in Nat : n = Len(P) /\ n >= 1
  BY DEF GoesOnBy
<1>1. PICK m \in Nat : m = Len(w)
  OBVIOUS
<1>2. PICK v : v = Append(w, b)
  OBVIOUS
<1>3. v \in Seq(Nodes) /\ Len(v) = m + 1 /\ v[m + 1] = b /\ \A i \in 1..m : v[i] = w[i]
  <2>1. w \in Seq(Nodes)
    BY DEF Nodes
  <2> QED BY <1>1, <1>2, <2>1
<1>4. PICK l \in Nat : l = m + 1
  OBVIOUS
<1>5. /\ Q \in Seq(Nodes) /\ Len(Q) = n + l
      /\ \A i \in 1..n : Q[i] = P[i]
      /\ \A i \in 1..l : Q[n + i] = v[i]
  <2>1. l = Len(v) /\ v \in Seq(Nodes) /\ n = Len(P) /\ Q = P \o v
    BY <1>0, <1>2, <1>3, <1>4 DEF GoesOnBy
  <2> QED BY <2>1, Appended
<1>6. P[n] \in Nodes /\ w \in Seq(Nodes)
  BY <1>0 DEF Nodes
<1>7. PICK N : N = Line(P[n], w, b)
  OBVIOUS
<1>8. /\ N \in Seq(Nodes) /\ Len(N) = m + 2 /\ N[1] = P[n] /\ N[m + 2] = b
      /\ \A i \in 1..m : N[i + 1] = w[i]
  <2>1. IsLine(Line(P[n], w, b), P[n], w, b, m)
    BY <1>1, <1>6, LineIs
  <2> QED BY <1>7, <2>1 DEF IsLine
<1>9. EdgeLabel(P[n], w, b) = Ride(N, 1, m + 2)
  BY <1>1, <1>6, <1>7, WayIsRide
<1>10. ASSUME NEW k \in 0..l
       PROVE  Q[n + k] = N[1 + k]
  <2>1. CASE k = 0
    <3>1. n \in 1..n /\ n + 0 = n
      BY <1>0
    <3> QED BY <1>5, <1>8, <2>1, <3>1
  <2>2. CASE k = l
    <3>1. k \in 1..l /\ 1 + k = m + 2 /\ k = m + 1
      BY <1>4, <2>2
    <3> QED BY <1>3, <1>5, <1>8, <3>1
  <2>3. CASE k # 0 /\ k # l
    <3>1. k \in 1..m /\ k \in 1..l /\ 1 + k = k + 1
      BY <1>4, <2>3
    <3>2. Q[n + k] = v[k]
      BY <1>5, <3>1
    <3>3. v[k] = w[k]
      BY <1>3, <3>1
    <3>4. N[k + 1] = w[k]
      BY <1>8, <3>1
    <3> QED BY <3>1, <3>2, <3>3, <3>4
  <2> QED BY <2>1, <2>2, <2>3
<1>11. PathLabel(P) \in Label /\ PathLabel(Q) = Join(PathLabel(P), Ride(N, 1, 1 + l))
  <2>1. GoesOn(P, n, Q, N, l)
    BY <1>0, <1>4, <1>5, <1>8, <1>10 DEF GoesOn
  <2> QED BY <2>1, RideFurther
<1>12. Len(Q) >= 1 /\ Q[Len(Q)] = b
  <2>1. l \in 1..l /\ l = m + 1 /\ Len(Q) = n + l
    BY <1>4, <1>5
  <2>2. Q[n + l] = v[l]
    BY <1>5, <2>1
  <2> QED BY <1>0, <1>3, <2>1, <2>2
<1>13. 1 + l = m + 2
  BY <1>4
<1> QED BY <1>0, <1>5, <1>9, <1>11, <1>12, <1>13

-----------------------------------------------------------------------------
(* Routes made of links.                                                   *)

\* The anchors of a customer order are its customers between two depots.
LEMMA AnchorsAre ==
  ASSUME NEW q \in Seq(Customers), NEW n \in Nat, n = Len(q)
  PROVE  /\ Anchors(q) \in Seq(Nodes) /\ Len(Anchors(q)) = n + 2
         /\ Anchors(q)[1] = Depot /\ Anchors(q)[n + 2] = Depot
         /\ \A i \in 1..n : Anchors(q)[i + 1] = q[i]
<1>1. q \in Seq(Nodes)
  BY DEF Nodes
<1>2. Anchors(q) = Closed(q)
  BY DEF Anchors, Closed
<1> QED BY <1>1, <1>2, ClosedIs

\* A path for every gap of an order of n customers.
IsGaps(gaps, n) == gaps \in Seq(Seq(Stations)) /\ Len(gaps) = n + 1

\* The labels of the gaps of a customer order.
Links(q, gaps) == [g \in 1..(Len(q) + 1) |-> EdgeLabel(Anchors(q)[g], gaps[g], Anchors(q)[g + 1])]

\* Each gap has a label.
LEMMA LinksAre ==
  ASSUME NEW q \in Seq(Customers), NEW n \in Nat, n = Len(q), NEW gaps, IsGaps(gaps, n)
  PROVE  /\ Links(q, gaps) \in Seq(Label) /\ Len(Links(q, gaps)) = n + 1
         /\ \A g \in 1..(n + 1) :
              /\ gaps[g] \in Seq(Stations) /\ Anchors(q)[g] \in Nodes /\ Anchors(q)[g + 1] \in Nodes
              /\ Links(q, gaps)[g] = EdgeLabel(Anchors(q)[g], gaps[g], Anchors(q)[g + 1])
              /\ Links(q, gaps)[g] \in Label
<1>1. PICK A : A = Anchors(q)
  OBVIOUS
<1>2. A \in Seq(Nodes) /\ Len(A) = n + 2
  BY <1>1, AnchorsAre
<1>3. \A g \in 1..(n + 1) : g \in 1..(n + 2) /\ g + 1 \in 1..(n + 2)
  OBVIOUS
<1>4. \A g \in 1..(n + 1) : gaps[g] \in Seq(Stations) /\ A[g] \in Nodes /\ A[g + 1] \in Nodes
  BY <1>2, <1>3 DEF IsGaps
<1>5. ASSUME NEW g \in 1..(n + 1)
      PROVE  EdgeLabel(A[g], gaps[g], A[g + 1]) \in Label
  <2>1. PICK m \in Nat : m = Len(gaps[g])
    BY <1>4
  <2>2. EdgeLabel(A[g], gaps[g], A[g + 1]) \in Labelled
    BY <1>4, <2>1, WayIsRide
  <2> QED BY <2>2 DEF Label
<1>6. PICK L : L = [g \in 1..(n + 1) |-> EdgeLabel(A[g], gaps[g], A[g + 1])]
  OBVIOUS
<1>7. /\ L \in Seq(Label) /\ Len(L) = n + 1
      /\ \A g \in 1..(n + 1) : L[g] = EdgeLabel(A[g], gaps[g], A[g + 1]) /\ L[g] \in Label
  BY <1>5, <1>6
<1>8. L = Links(q, gaps)
  BY <1>1, <1>6 DEF Links
<1> QED BY <1>1, <1>4, <1>7, <1>8

\* The visits up to some customer.
LinkedUpTo(P, q, gaps, k) ==
  /\ P \in Seq(Nodes) /\ Len(P) >= 1 /\ P[Len(P)] = Anchors(q)[k + 1]
  /\ PathLabel(P) = Piece(Links(q, gaps), 1, k + 1)

\* A path that has linked k customers links the next one.
LEMMA LinkNext ==
  ASSUME NEW q \in Seq(Customers), NEW n \in Nat, n = Len(q), NEW gaps, IsGaps(gaps, n),
         NEW k \in 1..(n + 1), NEW P, LinkedUpTo(P, q, gaps, k - 1),
         NEW Q, GoesOnBy(P, gaps[k], Anchors(q)[k + 1], Q)
  PROVE  LinkedUpTo(Q, q, gaps, k)
<1>1. PICK A, L : A = Anchors(q) /\ L = Links(q, gaps)
  OBVIOUS
<1>2. \A g \in 1..(n + 1) :
        /\ gaps[g] \in Seq(Stations) /\ A[g] \in Nodes /\ A[g + 1] \in Nodes
        /\ L[g] = EdgeLabel(A[g], gaps[g], A[g + 1]) /\ L[g] \in Label
  BY <1>1, LinksAre
<1>3. (k - 1) + 1 = k /\ k \in Int /\ 1 <= k
  OBVIOUS
<1>4. P \in Seq(Nodes) /\ Len(P) >= 1 /\ P[Len(P)] = A[k] /\ PathLabel(P) = Piece(L, 1, k)
  BY <1>1, <1>3 DEF LinkedUpTo
<1>5. PICK w \in Seq(Stations), b \in Nodes : w = gaps[k] /\ b = A[k + 1]
  BY <1>2
<1>6. GoesOnBy(P, w, b, Q)
  BY <1>1, <1>5
<1>7. /\ Q \in Seq(Nodes) /\ Len(Q) >= 1 /\ Q[Len(Q)] = b
      /\ PathLabel(Q) = Join(PathLabel(P), EdgeLabel(P[Len(P)], w, b))
  BY <1>6, RideOn
<1>8. PathLabel(Q) = Join(Piece(L, 1, k), L[k])
  BY <1>2, <1>4, <1>5, <1>7
<1>9. Piece(L, 1, k + 1) = Join(Piece(L, 1, k), L[k])
  <2>1. \A g \in 1..k : g \in 1..(n + 1)
    OBVIOUS
  <2>2. \A g \in 1..k : L[g] \in Label
    BY <1>2, <2>1
  <2> QED BY <1>3, <2>2, PieceNext
<1> QED BY <1>1, <1>5, <1>7, <1>8, <1>9 DEF LinkedUpTo

\* Appending is joining a sequence of one entry.
LEMMA AppendJoins ==
  ASSUME NEW S, NEW w \in Seq(S), NEW b \in S
  PROVE  w \o <<b>> = Append(w, b)
  OBVIOUS

\* Nodes can be joined in any order.
LEMMA NodesAssociate ==
  ASSUME NEW d \in Seq(Nodes), NEW x \in Seq(Nodes), NEW v \in Seq(Nodes)
  PROVE  (d \o x) \o v = d \o (x \o v)
  BY ConcatAssociative

\* The p start with d and go on with the h,
StartsWith(p, n, d, h) == p = [j \in 0..n |-> d \o h[j]]

GoesOnWith(h, k, v) == h[k - 1] \in Seq(Nodes) /\ h[k] = h[k - 1] \o v

\* so that what is joined to h is joined to p.
LEMMA GoesOnAfter ==
  ASSUME NEW n \in Nat, NEW k \in 1..n, NEW d \in Seq(Nodes), NEW v \in Seq(Nodes),
         NEW h, GoesOnWith(h, k, v), NEW p, StartsWith(p, n, d, h)
  PROVE  p[k] = p[k - 1] \o v
<1>1. k \in 0..n /\ k - 1 \in 0..n
  OBVIOUS
<1>2. p[k] = d \o h[k] /\ p[k - 1] = d \o h[k - 1]
  BY <1>1 DEF StartsWith
<1>3. PICK x \in Seq(Nodes) : x = h[k - 1] /\ h[k] = x \o v
  BY DEF GoesOnWith
<1>4. (d \o x) \o v = d \o (x \o v)
  BY NodesAssociate
<1> QED BY <1>2, <1>3, <1>4

\* The label of a route is made of the links of its customers.
LEMMA RouteIsLinked ==
  ASSUME NEW q \in Seq(Customers), NEW n \in Nat, n = Len(q), NEW gaps, IsGaps(gaps, n)
  PROVE  RouteLabel(ExpandRoute(q, gaps)) = Piece(Links(q, gaps), 1, n + 2)
<1>1. PICK A, L : A = Anchors(q) /\ L = Links(q, gaps)
  OBVIOUS
<1>2. \A g \in 1..(n + 1) : gaps[g] \in Seq(Stations) /\ A[g] \in Nodes /\ A[g + 1] \in Nodes
  BY <1>1, LinksAre
<1>3. A[1] = Depot /\ A[n + 2] = Depot /\ \A i \in 1..n : A[i + 1] = q[i]
  BY <1>1, AnchorsAre
<1>4. PICK seqs : seqs = [i \in 1..n |-> Append(gaps[i], q[i])]
  OBVIOUS
<1>5. seqs \in Seq(Seq(Nodes)) /\ Len(seqs) = n
  <2>1. ASSUME NEW i \in 1..n
        PROVE  Append(gaps[i], q[i]) \in Seq(Nodes)
    <3>1. i \in 1..(n + 1)
      OBVIOUS
    <3>2. gaps[i] \in Seq(Nodes) /\ q[i] \in Nodes
      BY <1>2, <3>1 DEF Nodes
    <3> QED BY <3>2
  <2> QED BY <1>4, <2>1
<1>6. seqs = [i \in DOMAIN q |-> Append(gaps[i], q[i])]
  BY <1>4
<1>7. PICK h : Joins(h, Nodes, seqs)
  BY <1>5, FlattenJoins
<1>8. /\ h[0] = << >> /\ h[n] = FlattenSeq(seqs)
      /\ \A k \in 0..n : h[k] \in Seq(Nodes)
      /\ \A k \in 1..n : h[k] = h[k - 1] \o seqs[k]
  BY <1>5, <1>7 DEF Joins
<1>9. PICK d : d = <<Depot>>
  OBVIOUS
<1>10. d \in Seq(Nodes) /\ Len(d) = 1 /\ d[1] = Depot
  BY <1>9, OneEntry DEF Nodes
<1>11. PICK p : StartsWith(p, n, d, h)
  BY DEF StartsWith
<1>12. LinkedUpTo(p[0], q, gaps, 0)
  <2>1. p[0] = d
    <3>1. d \o << >> = d
      BY <1>10
    <3>2. 0 \in 0..n
      OBVIOUS
    <3> QED BY <1>8, <1>11, <3>1, <3>2 DEF StartsWith
  <2>2. PathLabel(d) = Ride(d, 1, 1)
    <3>1. Len(d) # 0
      BY <1>10
    <3>2. d # << >>
      BY <3>1, NotEmpty
    <3> QED BY <1>10, <3>2, RideWhole
  <2>3. Ride(d, 1, 1) = NoLabel /\ Piece(L, 1, 1) = NoLabel
    BY PieceEmpty DEF Ride
  <2>4. 0 + 1 = 1
    OBVIOUS
  <2>5. Len(d) >= 1 /\ d[Len(d)] = Depot
    BY <1>10
  <2>6. LinkedUpTo(d, q, gaps, 0)
    BY <1>1, <1>3, <1>10, <2>2, <2>3, <2>4, <2>5 DEF LinkedUpTo
  <2> QED BY <2>1, <2>6
<1>13. ASSUME NEW k \in 1..n, LinkedUpTo(p[k - 1], q, gaps, k - 1)
       PROVE  LinkedUpTo(p[k], q, gaps, k)
  <2>1. k \in 0..n /\ k - 1 \in 0..n /\ k \in 1..(n + 1)
    OBVIOUS
  <2>2. PICK w \in Seq(Stations), b \in Nodes : w = gaps[k] /\ b = A[k + 1]
    BY <1>2, <2>1
  <2>3. PICK v : v = Append(w, b)
    OBVIOUS
  <2>4. v \in Seq(Nodes)
    <3>1. w \in Seq(Nodes)
      BY DEF Nodes
    <3> QED BY <2>3, <3>1
  <2>5. seqs[k] = v
    BY <1>3, <1>4, <2>2, <2>3
  <2>6. GoesOnWith(h, k, v)
    BY <1>8, <2>1, <2>5 DEF GoesOnWith
  <2>7. p[k] = p[k - 1] \o v
    BY <1>10, <1>11, <2>4, <2>6, GoesOnAfter
  <2>8. p[k - 1] \in Seq(Nodes) /\ Len(p[k - 1]) >= 1
    BY <1>13 DEF LinkedUpTo
  <2>9. GoesOnBy(p[k - 1], gaps[k], Anchors(q)[k + 1], p[k])
    BY <1>1, <2>2, <2>3, <2>7, <2>8 DEF GoesOnBy
  <2> QED BY <1>13, <2>1, <2>9, LinkNext
<1>14. LinkedUpTo(p[n], q, gaps, n)
  <2>1. PICK K : K = {k \in 0..n : LinkedUpTo(p[k], q, gaps, k)}
    OBVIOUS
  <2>2. 0 \in K
    BY <1>12, <2>1
  <2>3. \A k \in 1..n : k - 1 \in K => k \in K
    <3>1. \A k \in 1..n : k \in 0..n
      OBVIOUS
    <3> QED BY <1>13, <2>1, <3>1
  <2>4. \A k \in 0..n : k \in K
    BY <2>2, <2>3, UpTo
  <2> QED BY <2>1, <2>4
<1>15. PICK F \in Seq(Nodes), w \in Seq(Stations) : F = h[n] /\ w = gaps[n + 1]
  BY <1>2, <1>8
<1>16. w \in Seq(Nodes) /\ Depot \in Nodes
  BY DEF Nodes
<1>17. PICK X : X = (d \o F) \o Append(w, Depot)
  OBVIOUS
<1>18. X = Closed(ExpandRoute(q, gaps))
  <2>1. ExpandRoute(q, gaps) = F \o w
    <3>1. Last(gaps) = w
      BY <1>15 DEF Last, IsGaps
    <3> QED BY <1>6, <1>8, <1>15, <3>1 DEF ExpandRoute
  <2>2. PICK u \in Seq(Nodes) : u = d \o F
    <3>1. d \in Seq(Nodes)
      BY <1>10
    <3> QED BY <3>1, Concatenated
  <2>3. d \o (F \o w) = u \o w
    <3>1. (d \o F) \o w = d \o (F \o w)
      BY <1>10, <1>16, NodesAssociate
    <3> QED BY <2>2, <3>1
  <2>4. (u \o w) \o d = u \o (w \o d)
    BY <1>10, <1>16, NodesAssociate
  <2>5. w \o d = Append(w, Depot)
    BY <1>9, <1>16, AppendJoins
  <2> QED BY <1>9, <1>17, <2>1, <2>2, <2>3, <2>4, <2>5 DEF Closed
<1>19. LinkedUpTo(X, q, gaps, n + 1)
  <2>1. n \in 0..n /\ n + 1 \in 1..(n + 1) /\ (n + 1) - 1 = n /\ (n + 1) + 1 = n + 2
    OBVIOUS
  <2>2. p[n] = d \o F
    BY <1>11, <1>15, <2>1 DEF StartsWith
  <2>3. p[n] \in Seq(Nodes) /\ Len(p[n]) >= 1
    BY <1>14 DEF LinkedUpTo
  <2>4. GoesOnBy(p[n], gaps[n + 1], Anchors(q)[(n + 1) + 1], X)
    BY <1>1, <1>3, <1>15, <1>16, <1>17, <2>1, <2>2, <2>3 DEF GoesOnBy
  <2>5. LinkedUpTo(p[n], q, gaps, (n + 1) - 1)
    BY <1>14, <2>1
  <2> QED BY <2>1, <2>4, <2>5, LinkNext
<1>20. (n + 1) + 1 = n + 2
  OBVIOUS
<1> QED BY <1>18, <1>19, <1>20 DEF LinkedUpTo, RouteLabel

-----------------------------------------------------------------------------
(* The paths of the incumbent between its anchors.                         *)

\* What is assumed of a solution.
Sound(solution) ==
  /\ solution \in Seq([customers : Seq(Customers), gaps : Seq(Seq(Stations)), visits : Seq(Nodes)])
  /\ \A i \in DOMAIN solution :
       /\ solution[i].customers # << >>
       /\ Len(solution[i].gaps) = Len(solution[i].customers) + 1
       /\ solution[i].gaps = GapsOf(solution[i].visits)
  /\ \A i, j \in DOMAIN solution :
       \A p \in DOMAIN solution[i].customers, q \in DOMAIN solution[j].customers :
         solution[i].customers[p] = solution[j].customers[q] => i = j /\ p = q

\* The plan of a route of n customers.
IsRoute(plan, n) ==
  /\ plan.customers \in Seq(Customers) /\ n = Len(plan.customers) /\ n >= 1 /\ n \in Nat
  /\ IsGaps(plan.gaps, n) /\ plan.gaps = GapsOf(plan.visits) /\ plan.visits \in Seq(Nodes)

\* The parts of the plans of a solution.
LEMMA SoundParts ==
  ASSUME NEW solution, Sound(solution), NEW i \in DOMAIN solution
  PROVE  i \in Nat /\ \E n \in Nat : IsRoute(solution[i], n)
<1>1. PICK plan : plan = solution[i]
  OBVIOUS
<1>2. plan \in [customers : Seq(Customers), gaps : Seq(Seq(Stations)), visits : Seq(Nodes)] /\ i \in Nat
  <2>1. PICK R : R = [customers : Seq(Customers), gaps : Seq(Seq(Stations)), visits : Seq(Nodes)]
    OBVIOUS
  <2>2. solution \in Seq(R)
    BY <2>1 DEF Sound
  <2>3. solution[i] \in R /\ i \in Nat
    BY <2>2
  <2> QED BY <1>1, <2>1, <2>3
<1>3. PICK n \in Nat : n = Len(plan.customers)
  BY <1>2
<1>4. plan.customers # << >> /\ Len(plan.gaps) = n + 1 /\ plan.gaps = GapsOf(plan.visits)
  BY <1>1, <1>3 DEF Sound
<1>5. n >= 1
  BY <1>2, <1>3, <1>4
<1> QED BY <1>1, <1>2, <1>3, <1>4, <1>5 DEF IsRoute, IsGaps

Used(solution) ==
  {x \in {<<p, g>> : p \in DOMAIN solution, g \in UNION {DOMAIN solution[q].gaps : q \in DOMAIN solution}} :
     x[2] \in DOMAIN solution[x[1]].gaps}

PairAt(solution, x) ==
  LET a == Anchors(solution[x[1]].customers) IN <<a[x[2]], a[x[2] + 1]>>

FirstAt(solution, p) ==
  CHOOSE x \in Used(solution) :
    PairAt(solution, x) = p /\ \A y \in Used(solution) : PairAt(solution, y) = p => x[1] <= y[1]

\* The map by these names.
LEMMA GapMapNamed ==
  ASSUME NEW solution
  PROVE  GapMap(solution) =
           [p \in {PairAt(solution, x) : x \in Used(solution)} |->
              solution[FirstAt(solution, p)[1]].gaps[FirstAt(solution, p)[2]]]
  BY DEF GapMap, PairAt, Used, FirstAt

\* The gaps of a solution.
LEMMA UsedIs ==
  ASSUME NEW solution
  PROVE  /\ \A x \in Used(solution) : /\ x = <<x[1], x[2]>> /\ x[1] \in DOMAIN solution
                                      /\ x[2] \in DOMAIN solution[x[1]].gaps
         /\ \A p \in DOMAIN solution : \A g \in DOMAIN solution[p].gaps : <<p, g>> \in Used(solution)
<1>1. ASSUME NEW x \in Used(solution)
      PROVE  x = <<x[1], x[2]>> /\ x[1] \in DOMAIN solution /\ x[2] \in DOMAIN solution[x[1]].gaps
  BY DEF Used
<1>2. ASSUME NEW p \in DOMAIN solution, NEW g \in DOMAIN solution[p].gaps
      PROVE  <<p, g>> \in Used(solution)
  <2>1. g \in UNION {DOMAIN solution[q].gaps : q \in DOMAIN solution}
    OBVIOUS
  <2> QED BY <2>1 DEF Used
<1> QED BY <1>1, <1>2

\* The first of the places of a pair is one of them.
LEMMA FirstIs ==
  ASSUME NEW solution, Sound(solution), NEW x0 \in Used(solution), NEW p, p = PairAt(solution, x0)
  PROVE  FirstAt(solution, p) \in Used(solution) /\ PairAt(solution, FirstAt(solution, p)) = p
<1>1. \A x \in Used(solution) : x[1] \in Nat
  BY UsedIs, SoundParts
<1>2. PICK T : T = {m \in Nat : \E x \in Used(solution) : PairAt(solution, x) = p /\ x[1] = m}
  OBVIOUS
<1>3. T \in SUBSET Nat /\ T # {}
  BY <1>1, <1>2
<1>4. PICK m \in T : \A k \in T : m <= k
  BY <1>3, SmallestNumber
<1>5. PICK x \in Used(solution) : PairAt(solution, x) = p /\ x[1] = m
  BY <1>2, <1>4
<1>6. \A y \in Used(solution) : PairAt(solution, y) = p => x[1] <= y[1]
  BY <1>1, <1>2, <1>4, <1>5
<1>7. \E z \in Used(solution) : /\ PairAt(solution, z) = p
                               /\ \A y \in Used(solution) : PairAt(solution, y) = p => z[1] <= y[1]
  BY <1>5, <1>6
<1> QED BY <1>7 DEF FirstAt

\* Each path, and the pairs of neighbours on a route and against its direction.
Knows(map, solution) ==
  /\ \A p \in DOMAIN map : map[p] \in Seq(Stations)
  /\ \A i \in DOMAIN solution : \A k \in 1..(Len(solution[i].customers) - 1) :
       LET c == solution[i].customers
       IN /\ <<c[k], c[k + 1]>> \in DOMAIN map /\ map[<<c[k], c[k + 1]>>] = solution[i].gaps[k + 1]
          /\ <<c[k + 1], c[k]>> \notin DOMAIN map

\* Where a route has a customer among its anchors.
LEMMA AnchorIsCustomer ==
  ASSUME NEW q \in Seq(Customers), NEW n \in Nat, n = Len(q), NEW g \in 1..(n + 2),
         Anchors(q)[g] \in Customers
  PROVE  g - 1 \in 1..n /\ q[g - 1] = Anchors(q)[g]
<1>1. PICK A : A = Anchors(q)
  OBVIOUS
<1>2. A[1] = Depot /\ A[n + 2] = Depot /\ \A i \in 1..n : A[i + 1] = q[i]
  BY <1>1, AnchorsAre
<1>3. Depot \notin Customers
  BY NodesDisjoint
<1>4. g # 1 /\ g # n + 2
  BY <1>1, <1>2, <1>3
<1>5. g - 1 \in 1..n /\ (g - 1) + 1 = g
  BY <1>4
<1> QED BY <1>1, <1>2, <1>5

\* A customer is an anchor of one route, at one place.
LEMMA AnchorUnique ==
  ASSUME NEW solution, Sound(solution), NEW x \in Used(solution), NEW i \in DOMAIN solution,
         NEW n \in Nat, IsRoute(solution[i], n), NEW k \in 1..n, NEW l \in {0, 1},
         Anchors(solution[x[1]].customers)[x[2] + l] = solution[i].customers[k]
  PROVE  x[1] = i /\ x[2] + l = k + 1
<1>1. PICK j, g : j = x[1] /\ g = x[2]
  OBVIOUS
<1>2. j \in DOMAIN solution /\ g \in DOMAIN solution[j].gaps
  BY <1>1, UsedIs
<1>3. PICK m \in Nat : IsRoute(solution[j], m)
  BY <1>2, SoundParts
<1>4. PICK q \in Seq(Customers) : q = solution[j].customers
  BY <1>3 DEF IsRoute
<1>5. m = Len(q) /\ g \in 1..(m + 1)
  <2>1. PICK w : w = solution[j].gaps
    OBVIOUS
  <2>2. w \in Seq(Seq(Stations)) /\ Len(w) = m + 1 /\ m = Len(q)
    BY <1>3, <1>4, <2>1 DEF IsRoute, IsGaps
  <2>3. g \in DOMAIN w
    BY <1>2, <2>1
  <2> QED BY <2>2, <2>3
<1>6. PICK h \in 1..(m + 2) : h = g + l
  BY <1>5
<1>7. PICK c \in Customers : c = solution[i].customers[k]
  BY DEF IsRoute
<1>8. Anchors(q)[h] = c
  BY <1>1, <1>4, <1>6, <1>7
<1>9. h - 1 \in 1..m /\ q[h - 1] = c
  BY <1>5, <1>8, AnchorIsCustomer
<1>10. h - 1 \in DOMAIN solution[j].customers /\ k \in DOMAIN solution[i].customers
  BY <1>4, <1>5, <1>9 DEF IsRoute
<1>11. j = i /\ h - 1 = k
  <2>1. \A a, b \in DOMAIN solution :
          \A r \in DOMAIN solution[a].customers, s \in DOMAIN solution[b].customers :
            solution[a].customers[r] = solution[b].customers[s] => a = b /\ r = s
    BY DEF Sound
  <2>2. solution[j].customers[h - 1] = solution[i].customers[k]
    BY <1>4, <1>7, <1>9
  <2> QED BY <1>2, <1>10, <2>1, <2>2
<1> QED BY <1>1, <1>6, <1>11

\* The paths of a solution are those of its routes.
LEMMA GapMapKnows ==
  ASSUME NEW solution, Sound(solution)
  PROVE  Knows(GapMap(solution), solution)
<1>1. PICK map : map = GapMap(solution)
  OBVIOUS
<1>2. PICK D : D = {PairAt(solution, x) : x \in Used(solution)}
  OBVIOUS
<1>3. map = [p \in D |-> solution[FirstAt(solution, p)[1]].gaps[FirstAt(solution, p)[2]]]
  BY <1>1, <1>2, GapMapNamed
<1>4. DOMAIN map = D
  BY <1>3
<1>5. ASSUME NEW p \in D
      PROVE  \E x \in Used(solution) : PairAt(solution, x) = p /\ map[p] = solution[x[1]].gaps[x[2]]
  <2>1. PICK x0 \in Used(solution) : p = PairAt(solution, x0)
    BY <1>2
  <2>2. FirstAt(solution, p) \in Used(solution) /\ PairAt(solution, FirstAt(solution, p)) = p
    BY <2>1, FirstIs
  <2> QED BY <1>3, <2>2
<1>6. ASSUME NEW p \in D
      PROVE  map[p] \in Seq(Stations)
  <2>1. PICK x \in Used(solution) : map[p] = solution[x[1]].gaps[x[2]]
    BY <1>5
  <2>2. x[1] \in DOMAIN solution /\ x[2] \in DOMAIN solution[x[1]].gaps
    BY UsedIs
  <2>3. PICK m \in Nat : IsRoute(solution[x[1]], m)
    BY <2>2, SoundParts
  <2> QED BY <2>1, <2>2, <2>3 DEF IsRoute, IsGaps
<1>7. ASSUME NEW i \in DOMAIN solution, NEW k \in 1..(Len(solution[i].customers) - 1),
             NEW c, c = solution[i].customers
      PROVE  /\ <<c[k], c[k + 1]>> \in D /\ map[<<c[k], c[k + 1]>>] = solution[i].gaps[k + 1]
             /\ <<c[k + 1], c[k]>> \notin D
  <2>1. PICK n \in Nat : IsRoute(solution[i], n)
    BY SoundParts
  <2>2. c \in Seq(Customers) /\ n = Len(c) /\ k \in 1..(n - 1) /\ IsGaps(solution[i].gaps, n)
    BY <1>7, <2>1 DEF IsRoute
  <2>3. k \in 1..n /\ k + 1 \in 1..n /\ k + 1 \in 1..(n + 1) /\ k \in Int
    BY <2>2
  <2>4. Anchors(c)[k + 1] = c[k] /\ Anchors(c)[(k + 1) + 1] = c[k + 1]
    BY <2>2, <2>3, AnchorsAre
  <2>5. <<i, k + 1>> \in Used(solution)
    <3>1. k + 1 \in DOMAIN solution[i].gaps
      BY <2>2, <2>3 DEF IsGaps
    <3> QED BY <3>1, UsedIs
  <2>6. PairAt(solution, <<i, k + 1>>) = <<c[k], c[k + 1]>>
    BY <1>7, <2>4 DEF PairAt
  <2>7. <<c[k], c[k + 1]>> \in D
    BY <1>2, <2>5, <2>6
  <2>8. PICK x \in Used(solution) : /\ PairAt(solution, x) = <<c[k], c[k + 1]>>
                                    /\ map[<<c[k], c[k + 1]>>] = solution[x[1]].gaps[x[2]]
    BY <1>5, <2>7
  <2>9. x[1] = i /\ x[2] = k + 1
    <3>1. Anchors(solution[x[1]].customers)[x[2] + 1] = c[k + 1]
      BY <2>8 DEF PairAt
    <3>2. x[1] = i /\ x[2] + 1 = (k + 1) + 1
      BY <1>7, <2>1, <2>3, <3>1, AnchorUnique
    <3>3. PICK m \in Nat : IsRoute(solution[i], m)
      BY <2>1
    <3>4. x[2] \in Int
      <4>1. x[2] \in DOMAIN solution[i].gaps
        BY <3>2, UsedIs
      <4> QED BY <2>2, <4>1 DEF IsGaps
    <3> QED BY <2>3, <3>2, <3>4
  <2>10. ASSUME NEW y \in Used(solution), PairAt(solution, y) = <<c[k + 1], c[k]>>
         PROVE  FALSE
    <3>1. /\ Anchors(solution[y[1]].customers)[y[2]] = c[k + 1]
          /\ Anchors(solution[y[1]].customers)[y[2] + 1] = c[k]
      BY <2>10 DEF PairAt
    <3>2. y[1] = i /\ y[2] + 1 = k + 1
      BY <1>7, <2>1, <2>3, <3>1, AnchorUnique
    <3>3. y[2] \in Int
      <4>1. y[2] \in DOMAIN solution[i].gaps
        BY <3>2, UsedIs
      <4> QED BY <2>2, <4>1 DEF IsGaps
    <3>4. y[2] + 0 = y[2]
      BY <3>3
    <3>5. y[2] + 0 = (k + 1) + 1
      BY <1>7, <2>1, <2>3, <3>1, <3>4, AnchorUnique
    <3> QED BY <2>3, <3>2, <3>3, <3>5
  <2> QED BY <1>2, <2>7, <2>8, <2>9, <2>10
<1> QED BY <1>1, <1>4, <1>6, <1>7 DEF Knows

-----------------------------------------------------------------------------
(* Fragments of the incumbent.                                             *)

\* What the scorer keeps is that of the incumbent.
Scored == /\ Sound(incumbent)
        /\ profiles = [i \in DOMAIN incumbent |-> Profile(incumbent[i])]
        /\ overrides = OverridesOf(GapMap(incumbent))

\* The path of the incumbent from a to b, and its label.
Way(a, b) == IF <<a, b>> \in DOMAIN GapMap(incumbent) THEN GapMap(incumbent)[<<a, b>>] ELSE << >>

Link(a, b) == EdgeLabel(a, Way(a, b), b)

\* The links of a customer order.
Connected(q) == [g \in 1..(Len(q) + 1) |-> Link(Anchors(q)[g], Anchors(q)[g + 1])]

\* The links between the customers of a sequence.
Inner(c) == [k \in 1..(Len(c) - 1) |-> Link(c[k], c[k + 1])]

\* The paths of the incumbent are sequences of stations.
LEMMA WayType ==
  ASSUME Scored, NEW a \in Nodes, NEW b \in Nodes
  PROVE  Way(a, b) \in Seq(Stations) /\ Link(a, b) \in Label
<1>1. Way(a, b) \in Seq(Stations)
  <2>1. Knows(GapMap(incumbent), incumbent)
    BY GapMapKnows DEF Scored
  <2>2. << >> \in Seq(Stations)
    OBVIOUS
  <2> QED BY <2>1, <2>2 DEF Way, Knows
<1>2. PICK w \in Seq(Stations) : w = Way(a, b)
  BY <1>1
<1>3. PICK m \in Nat : m = Len(w)
  OBVIOUS
<1>4. EdgeLabel(a, w, b) \in Labelled
  BY <1>3, WayIsRide
<1> QED BY <1>1, <1>2, <1>4 DEF Link, Label

\* A bridge is the link.
LEMMA BridgeIs ==
  ASSUME Scored, NEW a, NEW b
  PROVE  Bridge(a, b) = Link(a, b)
<1>1. PICK map : map = GapMap(incumbent)
  OBVIOUS
<1>2. PICK p : p = <<a, b>>
  OBVIOUS
<1>3. p[1] = a /\ p[2] = b
  BY <1>2
<1>4. overrides = [r \in {s \in DOMAIN map : map[s] # << >>} |-> EdgeLabel(r[1], map[r], r[2])]
  BY <1>1 DEF Scored, OverridesOf
<1>5. CASE p \in DOMAIN map /\ map[p] # << >>
  BY <1>1, <1>2, <1>3, <1>4, <1>5 DEF Bridge, Link, Way
<1>6. CASE p \in DOMAIN map /\ map[p] = << >>
  BY <1>1, <1>2, <1>4, <1>6 DEF Bridge, Link, Way
<1>7. CASE p \notin DOMAIN map
  BY <1>1, <1>2, <1>4, <1>7 DEF Bridge, Link, Way
<1> QED BY <1>5, <1>6, <1>7

\* The links of an order.
LEMMA ConnectedAre ==
  ASSUME Scored, NEW q \in Seq(Customers), NEW n \in Nat, n = Len(q)
  PROVE  /\ Connected(q) \in Seq(Label) /\ Len(Connected(q)) = n + 1
         /\ \A g \in 1..(n + 1) : /\ Connected(q)[g] = Link(Anchors(q)[g], Anchors(q)[g + 1])
                                  /\ Connected(q)[g] \in Label
<1>1. PICK A : A = Anchors(q)
  OBVIOUS
<1>2. A \in Seq(Nodes) /\ Len(A) = n + 2
  BY <1>1, AnchorsAre
<1>3. \A g \in 1..(n + 1) : g \in 1..(n + 2) /\ g + 1 \in 1..(n + 2)
  OBVIOUS
<1>4. \A g \in 1..(n + 1) : A[g] \in Nodes /\ A[g + 1] \in Nodes
  BY <1>2, <1>3
<1>5. \A g \in 1..(n + 1) : Link(A[g], A[g + 1]) \in Label
  BY <1>4, WayType
<1>6. PICK L : L = [g \in 1..(n + 1) |-> Link(A[g], A[g + 1])]
  OBVIOUS
<1>7. /\ L \in Seq(Label) /\ Len(L) = n + 1
      /\ \A g \in 1..(n + 1) : L[g] = Link(A[g], A[g + 1]) /\ L[g] \in Label
  BY <1>5, <1>6
<1>8. L = Connected(q)
  BY <1>1, <1>6 DEF Connected
<1> QED BY <1>1, <1>7, <1>8

\* The links between customers are those of the order, one place later.
LEMMA InnerAre ==
  ASSUME Scored, NEW q \in Seq(Customers), NEW n \in Nat, n = Len(q), n >= 1
  PROVE  /\ Inner(q) \in Seq(Label) /\ Len(Inner(q)) = n - 1
         /\ \A k \in 1..(n - 1) : /\ Inner(q)[k] = Link(q[k], q[k + 1])
                                  /\ Connected(q)[k + 1] = Link(q[k], q[k + 1])
<1>1. PICK m \in Nat : m = n - 1
  OBVIOUS
<1>2. \A k \in 1..m : k \in 1..n /\ k + 1 \in 1..n /\ k + 1 \in 1..(n + 1)
  BY <1>1
<1>3. \A k \in 1..m : q[k] \in Nodes /\ q[k + 1] \in Nodes
  BY <1>2 DEF Nodes
<1>4. \A k \in 1..m : Link(q[k], q[k + 1]) \in Label
  BY <1>3, WayType
<1>5. PICK L : L = [k \in 1..m |-> Link(q[k], q[k + 1])]
  OBVIOUS
<1>6. L \in Seq(Label) /\ Len(L) = m /\ \A k \in 1..m : L[k] = Link(q[k], q[k + 1])
  BY <1>4, <1>5
<1>7. L = Inner(q)
  BY <1>1, <1>5 DEF Inner
<1>8. ASSUME NEW k \in 1..m
      PROVE  Connected(q)[k + 1] = Link(q[k], q[k + 1])
  <2>1. Anchors(q)[k + 1] = q[k] /\ Anchors(q)[(k + 1) + 1] = q[k + 1]
    BY <1>2, AnchorsAre
  <2> QED BY <1>2, <2>1, ConnectedAre
<1> QED BY <1>1, <1>6, <1>7, <1>8

\* What the search would build is made of the links.
LEMMA BuiltIs ==
  ASSUME Scored, NEW q \in Seq(Customers), NEW n \in Nat, n = Len(q)
  PROVE  Built(q) = Piece(Connected(q), 1, n + 2)
<1>1. PICK A, gaps : A = Anchors(q) /\ gaps = GapsFor(q, GapMap(incumbent))
  OBVIOUS
<1>2. A \in Seq(Nodes) /\ Len(A) = n + 2
  BY <1>1, AnchorsAre
<1>3. gaps = [g \in 1..(n + 1) |-> Way(A[g], A[g + 1])]
  BY <1>1 DEF GapsFor, Way
<1>4. \A g \in 1..(n + 1) : Way(A[g], A[g + 1]) \in Seq(Stations)
  <2>1. \A g \in 1..(n + 1) : g \in 1..(n + 2) /\ g + 1 \in 1..(n + 2)
    OBVIOUS
  <2>2. \A g \in 1..(n + 1) : A[g] \in Nodes /\ A[g + 1] \in Nodes
    BY <1>2, <2>1
  <2> QED BY <2>2, WayType
<1>5. IsGaps(gaps, n)
  BY <1>3, <1>4 DEF IsGaps
<1>6. Links(q, gaps) = Connected(q)
  BY <1>1, <1>3 DEF Links, Connected, Link
<1>7. RouteLabel(ExpandRoute(q, gaps)) = Piece(Links(q, gaps), 1, n + 2)
  BY <1>5, RouteIsLinked
<1> QED BY <1>1, <1>6, <1>7 DEF Built

\* The trees of a route are those of its links, in both directions.
LEMMA ProfileIs ==
  ASSUME Scored, NEW i \in DOMAIN incumbent, NEW c, c = incumbent[i].customers
  PROVE  /\ profiles[i].customers = c /\ profiles[i].visits = incumbent[i].visits
         /\ profiles[i].forward = Tree(Inner(c))
         /\ profiles[i].reverse = Tree(Inner(Reverse(c)))
<1>1. PICK plan : plan = incumbent[i]
  OBVIOUS
<1>2. profiles[i] = Profile(plan)
  BY <1>1 DEF Scored
<1>3. PICK n \in Nat : IsRoute(plan, n)
  BY <1>1, SoundParts DEF Scored
<1>4. c = plan.customers /\ c \in Seq(Customers) /\ n = Len(c) /\ n >= 1
  BY <1>1, <1>3 DEF IsRoute
<1>5. Knows(GapMap(incumbent), incumbent)
  BY GapMapKnows DEF Scored
<1>6. PICK gaps : gaps = plan.gaps
  OBVIOUS
<1>7. ASSUME NEW k \in 1..(n - 1)
      PROVE  Link(c[k], c[k + 1]) = EdgeLabel(c[k], gaps[k + 1], c[k + 1])
             /\ Link(c[k + 1], c[k]) = EdgeLabel(c[k + 1], << >>, c[k])
  <2>1. /\ <<c[k], c[k + 1]>> \in DOMAIN GapMap(incumbent)
        /\ GapMap(incumbent)[<<c[k], c[k + 1]>>] = gaps[k + 1]
        /\ <<c[k + 1], c[k]>> \notin DOMAIN GapMap(incumbent)
    BY <1>1, <1>4, <1>5, <1>6 DEF Knows
  <2>2. Way(c[k], c[k + 1]) = gaps[k + 1] /\ Way(c[k + 1], c[k]) = << >>
    BY <2>1 DEF Way
  <2> QED BY <2>2 DEF Link
<1>8. [k \in 1..(n - 1) |-> EdgeLabel(c[k], gaps[k + 1], c[k + 1])] = Inner(c)
  BY <1>4, <1>7 DEF Inner
<1>9. [k \in 1..(n - 1) |-> EdgeLabel(c[n + 1 - k], << >>, c[n - k])] = Inner(Reverse(c))
  <2>1. PICK r : r = Reverse(c)
    OBVIOUS
  <2>2. r = [k \in 1..n |-> c[(n - k) + 1]]
    BY <1>4, <2>1 DEF Reverse
  <2>3. Len(r) = n
    BY <1>4, <2>2
  <2>4. ASSUME NEW k \in 1..(n - 1)
        PROVE  Link(r[k], r[k + 1]) = EdgeLabel(c[n + 1 - k], << >>, c[n - k])
    <3>1. PICK j \in 1..(n - 1) : j = n - k
      BY <1>4
    <3>2. k \in 1..n /\ k + 1 \in 1..n /\ (n - k) + 1 = j + 1 /\ (n - (k + 1)) + 1 = j
          /\ n + 1 - k = j + 1 /\ n - k = j
      BY <1>4, <3>1
    <3>3. r[k] = c[j + 1] /\ r[k + 1] = c[j]
      BY <2>2, <3>2
    <3> QED BY <1>7, <3>1, <3>2, <3>3
  <2> QED BY <2>1, <2>3, <2>4 DEF Inner
<1> QED BY <1>1, <1>2, <1>4, <1>6, <1>8, <1>9 DEF Profile

\* A slice of the route i, whose n customers are c.
IsSlice(i, c, n, begin, end) ==
  /\ i \in DOMAIN incumbent /\ c = incumbent[i].customers /\ n \in Nat /\ n = Len(c)
  /\ begin \in Nat /\ end \in Nat /\ begin < end /\ end <= n

\* The labels of a slice in the two directions.
Onward(i, begin, end) == Slice(profiles[i], begin, end, FALSE)
Backward(i, begin, end) == Slice(profiles[i], begin, end, TRUE)

\* The label of a slice is that of its links.
LEMMA SliceIs ==
  ASSUME Scored, NEW i, NEW c, NEW n, NEW begin, NEW end, IsSlice(i, c, n, begin, end)
  PROVE  /\ Onward(i, begin, end) = Piece(Inner(c), begin + 1, end)
         /\ Backward(i, begin, end) = Piece(Inner(Reverse(c)), n - end + 1, n - begin)
<1> /\ i \in DOMAIN incumbent /\ c = incumbent[i].customers /\ n \in Nat /\ n = Len(c)
    /\ begin \in Nat /\ end \in Nat /\ begin < end /\ end <= n
  BY DEF IsSlice
<1>1. PICK m \in Nat : IsRoute(incumbent[i], m)
  BY SoundParts DEF Scored
<1>2. c \in Seq(Customers) /\ n >= 1
  BY <1>1 DEF IsRoute
<1>3. PICK r : r = Reverse(c)
  OBVIOUS
<1>4. r \in Seq(Customers) /\ Len(r) = n
  <2>1. \A k \in 1..n : (n - k) + 1 \in 1..n
    OBVIOUS
  <2>2. r = [k \in 1..n |-> c[(n - k) + 1]]
    BY <1>3 DEF Reverse
  <2> QED BY <1>2, <2>1, <2>2
<1>5. /\ Inner(c) \in Seq(Label) /\ Len(Inner(c)) = n - 1
      /\ Inner(r) \in Seq(Label) /\ Len(Inner(r)) = n - 1
  BY <1>2, <1>4, InnerAre
<1>6. /\ profiles[i].customers = c /\ profiles[i].forward = Tree(Inner(c))
      /\ profiles[i].reverse = Tree(Inner(r))
  BY <1>3, ProfileIs
<1>7. PICK last \in Nat : last = end - 1
  OBVIOUS
<1>8. RangeLabel(Tree(Inner(c)), begin, last) = Piece(Inner(c), begin + 1, last + 1)
  <2>1. begin <= last /\ last <= Len(Inner(c))
    BY <1>5, <1>7
  <2> QED BY <1>5, <2>1, RangeLabelIs
<1>9. PICK from \in Nat, to \in Nat : from = n - end /\ to = n - begin - 1
  <2>1. n - end \in Nat
    OBVIOUS
  <2>2. n - begin - 1 \in Nat
    OBVIOUS
  <2> QED BY <2>1, <2>2
<1>10. RangeLabel(Tree(Inner(r)), from, to) = Piece(Inner(r), from + 1, to + 1)
  <2>1. from <= to /\ to <= Len(Inner(r))
    BY <1>5, <1>9
  <2> QED BY <1>5, <2>1, RangeLabelIs
<1>11. last + 1 = end /\ from + 1 = n - end + 1 /\ to + 1 = n - begin
  BY <1>7, <1>9
<1>12. Onward(i, begin, end) = RangeLabel(Tree(Inner(c)), begin, last)
  BY <1>6, <1>7 DEF Slice, Onward
<1>13. Backward(i, begin, end) = RangeLabel(Tree(Inner(r)), from, to)
  BY <1>6, <1>9 DEF Slice, Backward
<1> QED BY <1>3, <1>8, <1>10, <1>11, <1>12, <1>13

Alike(e, a, f, c, m) == \A k \in 1..m : e[a + k - 1] = f[c + k - 1]

\* Pieces of the same labels are the same.
LEMMA PieceAlike ==
  ASSUME NEW e, NEW a \in Int, NEW f, NEW c \in Int, NEW m \in Int, Alike(e, a, f, c, m)
  PROVE  Piece(e, a, a + m) = Piece(f, c, c + m)
<1>1. (a + m) - a = m /\ (c + m) - c = m
  OBVIOUS
<1>2. [k \in 1..m |-> e[a + k - 1]] = [k \in 1..m |-> f[c + k - 1]]
  BY DEF Alike
<1> QED BY <1>1, <1>2 DEF Piece

\* The customers at the places b + 1 .. b + l of q are those of c at a + 1 .. a + l.
Shares(q, b, c, a, l) ==
  /\ c \in Seq(Customers) /\ q \in Seq(Customers) /\ a \in Nat /\ b \in Nat /\ l \in Nat
  /\ l >= 1 /\ a + l <= Len(c) /\ b + l <= Len(q)
  /\ \A k \in 1..l : q[b + k] = c[a + k]

\* A stretch of a sequence that an order shares has the same links.
LEMMA SharedPiece ==
  ASSUME Scored, NEW q, NEW b, NEW c, NEW a, NEW l, Shares(q, b, c, a, l)
  PROVE  Piece(Inner(c), a + 1, a + l) = Piece(Connected(q), b + 2, b + l + 1)
<1> /\ c \in Seq(Customers) /\ q \in Seq(Customers) /\ a \in Nat /\ b \in Nat /\ l \in Nat
    /\ l >= 1 /\ a + l <= Len(c) /\ b + l <= Len(q)
  BY DEF Shares
<1>1. PICK m \in Nat : m = l - 1
  OBVIOUS
<1>2. PICK n \in Nat, o \in Nat : n = Len(q) /\ n >= 1 /\ o = Len(c) /\ o >= 1 /\ a + l <= o /\ b + l <= n
  OBVIOUS
<1>3. ASSUME NEW k \in 1..m
      PROVE  Inner(c)[(a + 1) + k - 1] = Connected(q)[(b + 2) + k - 1]
  <2>1. PICK s \in 1..(o - 1), t \in 1..(n - 1) : s = a + k /\ t = b + k
    BY <1>1, <1>2
  <2>2. (a + 1) + k - 1 = s /\ (b + 2) + k - 1 = t + 1 /\ s + 1 = a + (k + 1) /\ t + 1 = b + (k + 1)
        /\ k \in 1..l /\ k + 1 \in 1..l
    BY <1>1, <2>1
  <2>3. q[t] = c[s] /\ q[t + 1] = c[s + 1]
    BY <2>1, <2>2 DEF Shares
  <2>4. Inner(c)[s] = Link(c[s], c[s + 1])
    BY <1>2, InnerAre
  <2>5. Connected(q)[t + 1] = Link(q[t], q[t + 1])
    BY <1>2, InnerAre
  <2> QED BY <2>2, <2>3, <2>4, <2>5
<1>4. Alike(Inner(c), a + 1, Connected(q), b + 2, m)
  BY <1>3 DEF Alike
<1>5. Piece(Inner(c), a + 1, (a + 1) + m) = Piece(Connected(q), b + 2, (b + 2) + m)
  BY <1>4, PieceAlike
<1>6. (a + 1) + m = a + l /\ (b + 2) + m = b + l + 1
  BY <1>1
<1> QED BY <1>5, <1>6

\* The label of a slice that an order has in the direction of the route, and
\* of one that it has the other way round.
LEMMA SliceForward ==
  ASSUME Scored, NEW i \in DOMAIN incumbent, NEW c, c = incumbent[i].customers,
         NEW begin \in Nat, NEW end \in Nat, NEW l \in Nat, l = end - begin,
         NEW q, NEW b \in Nat, Shares(q, b, c, begin, l)
  PROVE  Onward(i, begin, end) = Piece(Connected(q), b + 2, b + l + 1)
<1>1. l >= 1 /\ begin + l <= Len(c) /\ c \in Seq(Customers)
  BY DEF Shares
<1>2. PICK n \in Nat : n = Len(c)
  BY <1>1
<1>3. begin < end /\ end <= n /\ begin + l = end
  BY <1>1, <1>2
<1>4. Onward(i, begin, end) = Piece(Inner(c), begin + 1, end)
  <2>1. IsSlice(i, c, n, begin, end)
    BY <1>2, <1>3 DEF IsSlice
  <2> QED BY <2>1, SliceIs
<1>5. Piece(Inner(c), begin + 1, begin + l) = Piece(Connected(q), b + 2, b + l + 1)
  BY SharedPiece
<1> QED BY <1>3, <1>4, <1>5

\* The slice, as it lies in the reversed route: l customers after the first a.
IsTurned(i, c, n, begin, end, a, l) ==
  IsSlice(i, c, n, begin, end) /\ a = n - end /\ l = end - begin

\* The same for a slice that an order has against the direction of the route.
LEMMA SliceBackward ==
  ASSUME Scored, NEW i, NEW c, NEW n, NEW begin, NEW end, NEW a, NEW l,
         IsTurned(i, c, n, begin, end, a, l),
         NEW q, NEW b \in Nat, Shares(q, b, Reverse(c), a, l)
  PROVE  Backward(i, begin, end) = Piece(Connected(q), b + 2, b + l + 1)
<1>1. PICK r : r = Reverse(c)
  OBVIOUS
<1>2. Backward(i, begin, end) = Piece(Inner(r), n - end + 1, n - begin)
  BY <1>1, SliceIs DEF IsTurned
<1>3. Piece(Inner(r), a + 1, a + l) = Piece(Connected(q), b + 2, b + l + 1)
  <2>1. Shares(q, b, r, a, l)
    BY <1>1
  <2> QED BY <2>1, SharedPiece
<1>4. n - end + 1 = a + 1 /\ n - begin = a + l
  BY DEF IsTurned, IsSlice
<1> QED BY <1>2, <1>3, <1>4

\* Where a customer is.
LEMMA LocationIs ==
  ASSUME Scored, NEW c, Located(c) # {}
  PROVE  \E i \in DOMAIN incumbent, p \in Nat :
           /\ Location(c) = <<i, p>> /\ p < Len(incumbent[i].customers)
           /\ incumbent[i].customers[p + 1] = c
<1>1. Location(c) \in Located(c)
  BY DEF Location
<1>2. PICK x : x = Location(c)
  OBVIOUS
<1>3. PICK i \in DOMAIN profiles : /\ x \in {i} \X (0..(Len(profiles[i].customers) - 1))
                                   /\ profiles[x[1]].customers[x[2] + 1] = c
  BY <1>1, <1>2 DEF Located
<1>4. DOMAIN profiles = DOMAIN incumbent
  BY DEF Scored
<1>5. PICK d : d = incumbent[i].customers
  OBVIOUS
<1>6. profiles[i].customers = d
  BY <1>4, <1>5, ProfileIs
<1>7. PICK n \in Nat : IsRoute(incumbent[i], n)
  BY <1>4, SoundParts DEF Scored
<1>8. d \in Seq(Customers) /\ n = Len(d)
  BY <1>5, <1>7 DEF IsRoute
<1>9. PICK p : p \in 0..(n - 1) /\ x = <<i, p>>
  BY <1>3, <1>6, <1>8
<1>10. d[p + 1] = c
  BY <1>3, <1>6, <1>9
<1> QED BY <1>2, <1>4, <1>5, <1>8, <1>9, <1>10

\* A step along a route.
LEMMA StepIs ==
  ASSUME NEW q, NEW k, Step(q, k) # 0
  PROVE  /\ k # Len(q) /\ Located(q[k]) # {} /\ Located(q[k + 1]) # {}
         /\ Location(q[k])[1] = Location(q[k + 1])[1]
         /\ Step(q, k) = Location(q[k + 1])[2] - Location(q[k])[2]
         /\ Step(q, k) \in {1, -1}
  BY DEF Step

\* There is no other step.
LEMMA StepValues ==
  ASSUME NEW q, NEW k
  PROVE  Step(q, k) \in {0, 1, -1}
  BY DEF Step

\* A fragment ends within the order, and all its steps are the same.
LEMMA FragmentEndIs ==
  ASSUME NEW q, NEW n \in Nat, n = Len(q), NEW k \in 1..n
  PROVE  /\ FragmentEnd(q, k) \in k..n
         /\ \A j \in k..(FragmentEnd(q, k) - 1) : Step(q, j) = Step(q, k)
         /\ Step(q, k) = 0 => FragmentEnd(q, k) = k
<1>1. CASE Step(q, k) = 0
  <2>1. FragmentEnd(q, k) = k
    BY <1>1 DEF FragmentEnd
  <2>2. k \in k..n /\ k..(k - 1) = {}
    OBVIOUS
  <2> QED BY <2>1, <2>2
<1>2. CASE Step(q, k) # 0
  <2>1. PICK S : S = {e \in (k + 1)..Len(q) : \A j \in k..(e - 1) : Step(q, j) = Step(q, k)}
    OBVIOUS
  <2>2. k # n
    BY <1>2, StepIs
  <2>3. k + 1 \in (k + 1)..n /\ \A j \in k..((k + 1) - 1) : j = k
    BY <2>2
  <2>4. k + 1 \in S
    BY <2>1, <2>3
  <2>5. S \in SUBSET (1..n) /\ S # {}
    BY <2>1, <2>4
  <2>6. Max(S) \in S
    BY <2>5, LastPosition
  <2>7. FragmentEnd(q, k) = Max(S)
    BY <1>2, <2>1 DEF FragmentEnd
  <2>8. PICK e \in (k + 1)..n : /\ e = FragmentEnd(q, k)
                                /\ \A j \in k..(e - 1) : Step(q, j) = Step(q, k)
    BY <2>1, <2>6, <2>7
  <2> QED BY <1>2, <2>8
<1> QED BY <1>1, <1>2

\* The place of the customer that is m places on.
Placed(q, k, i, p, s, m) ==
  Located(q[k + m]) # {} /\ Location(q[k + m])[1] = i /\ Location(q[k + m])[2] = p + s * m

\* Along a fragment the route is the same and the places follow one another.
LEMMA FragmentRuns ==
  ASSUME Scored, NEW q, NEW n \in Nat, n = Len(q), NEW k \in 1..n, Located(q[k]) # {},
         NEW i, NEW p \in Nat, Location(q[k]) = <<i, p>>,
         NEW s \in {1, -1}, Step(q, k) \in {0, s}, NEW e \in k..n, e = FragmentEnd(q, k)
  PROVE  \A m \in 0..(e - k) : Placed(q, k, i, p, s, m)
<1>1. PICK K : K = {m \in 0..(e - k) : Placed(q, k, i, p, s, m)}
  OBVIOUS
<1>2. PICK d \in Nat : d = e - k
  OBVIOUS
<1>3. 0 \in K
  <2>1. 0 \in 0..(e - k) /\ k + 0 = k /\ p + s * 0 = p
    OBVIOUS
  <2> QED BY <1>1, <2>1 DEF Placed
<1>4. ASSUME NEW m \in 1..d, m - 1 \in K
      PROVE  m \in K
  <2>1. PICK j \in k..(e - 1) : j = k + (m - 1)
    BY <1>2
  <2>2. Step(q, j) = Step(q, k) /\ Step(q, k) = s
    <3>1. Step(q, j) = Step(q, k)
      BY FragmentEndIs
    <3>2. e # k
      BY <2>1
    <3> QED BY <3>1, <3>2, FragmentEndIs
  <2>3. Step(q, j) # 0
    BY <2>2
  <2>4. /\ Located(q[j + 1]) # {} /\ Location(q[j])[1] = Location(q[j + 1])[1]
        /\ Step(q, j) = Location(q[j + 1])[2] - Location(q[j])[2]
    BY <2>3, StepIs
  <2>5. Location(q[j])[1] = i /\ Location(q[j])[2] = p + s * (m - 1)
    BY <1>1, <1>4, <2>1 DEF Placed
  <2>6. Location(q[j + 1])[2] \in Nat
    <3>1. PICK a \in DOMAIN incumbent, b \in Nat : Location(q[j + 1]) = <<a, b>>
      BY <2>4, LocationIs
    <3> QED BY <3>1
  <2>7. Location(q[j + 1])[2] = p + s * m
    <3>1. PICK b \in Nat : b = Location(q[j + 1])[2]
      BY <2>6
    <3>2. s = b - (p + s * (m - 1))
      BY <2>2, <2>4, <2>5, <3>1
    <3>3. CASE s = 1
      BY <3>1, <3>2, <3>3
    <3>4. CASE s = -1
      BY <3>1, <3>2, <3>4
    <3> QED BY <3>3, <3>4
  <2>8. j + 1 = k + m /\ m \in 0..(e - k)
    BY <1>2, <2>1
  <2> QED BY <1>1, <2>4, <2>5, <2>7, <2>8 DEF Placed
<1>5. \A m \in 0..d : m \in K
  BY <1>3, <1>4, UpTo
<1> QED BY <1>1, <1>2, <1>5

\* What an order has of the route that its k-th customer is on.
LEMMA PlacedIs ==
  ASSUME Scored, NEW q, NEW k, NEW i, NEW p, NEW s, NEW m, Placed(q, k, i, p, s, m)
  PROVE  /\ i \in DOMAIN incumbent /\ p + s * m \in Nat
         /\ p + s * m < Len(incumbent[i].customers)
         /\ incumbent[i].customers[(p + s * m) + 1] = q[k + m]
<1>1. PICK c, x : c = q[k + m] /\ x = p + s * m
  OBVIOUS
<1>2. Located(c) # {} /\ Location(c)[1] = i /\ Location(c)[2] = x
  BY <1>1 DEF Placed
<1>3. PICK j \in DOMAIN incumbent, r \in Nat : /\ Location(c) = <<j, r>> /\ r < Len(incumbent[j].customers)
                                               /\ incumbent[j].customers[r + 1] = c
  BY <1>2, LocationIs
<1>4. j = i /\ r = x
  BY <1>2, <1>3
<1> QED BY <1>1, <1>3, <1>4

\* From its k-th entry to its e-th, n being the last of all.
IsFragment(q, n, k, e) == n = Len(q) /\ e = FragmentEnd(q, k)

\* Its length is l = d + 1 and b entries are before it.
IsStretch(k, e, d, b, l) ==
  /\ d = e - k /\ b = k - 1 /\ l = d + 1 /\ l >= 1 /\ k + d = e
  /\ b + l = e /\ b + 2 = k + 1 /\ b + l + 1 = e + 1

\* There are such d, b and l.
LEMMA StretchOf ==
  ASSUME NEW n \in Nat, NEW k \in 1..n, NEW e \in k..n
  PROVE  \E d \in Nat, b \in Nat, l \in Nat : IsStretch(k, e, d, b, l)
<1>1. e - k \in Nat /\ k - 1 \in Nat /\ (e - k) + 1 \in Nat
  OBVIOUS
<1>2. IsStretch(k, e, e - k, k - 1, (e - k) + 1)
  BY DEF IsStretch
<1> QED BY <1>1, <1>2

\* Of a route of o customers it takes those after the first begin up to end, the p-th the last,
\* and a come before them in the reversed route.
IsTurn(p, o, d, l, begin, end, a) ==
  /\ begin = p - d /\ end = p + 1 /\ a = o - end
  /\ begin < end /\ end <= o /\ end - begin = l /\ a + l = o - begin /\ begin <= o /\ a + l <= o

\* There are such begin, end and a.
LEMMA TurnOf ==
  ASSUME NEW p \in Nat, NEW o \in Nat, NEW d \in Nat, NEW l \in Nat,
         p - d \in Nat, p < o, l = d + 1
  PROVE  \E begin \in Nat, end \in Nat, a \in Nat : IsTurn(p, o, d, l, begin, end, a)
<1>1. p + 1 \in Nat /\ o - (p + 1) \in Nat
  OBVIOUS
<1>2. IsTurn(p, o, d, l, p - d, p + 1, o - (p + 1))
  BY <1>1 DEF IsTurn
<1> QED BY <1>1, <1>2

\* The label of a fragment is that of its links: along the route,
LEMMA FragmentOnward ==
  ASSUME Scored, NEW q \in Seq(Customers), NEW n \in Nat, NEW k \in 1..n, Located(q[k]) # {},
         Step(q, k) \in {0, 1}, NEW e \in k..n, IsFragment(q, n, k, e)
  PROVE  FragmentLabel(q, k, e) = Piece(Connected(q), k + 1, e + 1)
<1>1. PICK i \in DOMAIN incumbent, p \in Nat : Location(q[k]) = <<i, p>>
  BY LocationIs
<1>2. PICK c : c = incumbent[i].customers
  OBVIOUS
<1>3. PICK d \in Nat, b \in Nat, l \in Nat : IsStretch(k, e, d, b, l)
  BY StretchOf
<1>4. \A m \in 0..d : Placed(q, k, i, p, 1, m)
  BY <1>1, <1>3, FragmentRuns DEF IsFragment, IsStretch
<1>5. PICK o \in Nat : IsRoute(incumbent[i], o)
  BY SoundParts DEF Scored
<1>6. c \in Seq(Customers) /\ o = Len(c)
  BY <1>2, <1>5 DEF IsRoute
<1>7. ASSUME NEW m \in 0..d
      PROVE  p + m < o /\ c[(p + m) + 1] = q[k + m]
  <2>1. p + 1 * m = p + m
    OBVIOUS
  <2>2. p + 1 * m < Len(incumbent[i].customers) /\ incumbent[i].customers[(p + 1 * m) + 1] = q[k + m]
    <3>1. Placed(q, k, i, p, 1, m)
      BY <1>4
    <3> QED BY <3>1, PlacedIs
  <2> QED BY <1>2, <1>6, <2>1, <2>2
<1>8. l = d + 1 /\ b = k - 1
  BY <1>3 DEF IsStretch
<1>9. p + d < o /\ d \in 0..d
  <2>1. d \in 0..d
    OBVIOUS
  <2> QED BY <1>7, <2>1
<1>10. ASSUME NEW m \in 1..l
       PROVE  q[b + m] = c[p + m]
  <2>1. PICK x \in 0..d : x = m - 1
    BY <1>8
  <2>2. (p + x) + 1 = p + m /\ k + x = b + m
    BY <1>8, <2>1
  <2>3. c[(p + x) + 1] = q[k + x]
    BY <1>7
  <2> QED BY <2>2, <2>3
<1>11. Shares(q, b, c, p, l)
  <2>1. p + l <= o /\ b + l <= n /\ l >= 1
    <3>1. b + l <= n /\ l >= 1
      BY <1>3 DEF IsStretch
    <3>2. p + l <= o
      BY <1>8, <1>9
    <3> QED BY <3>1, <3>2
  <2>2. n = Len(q)
    BY DEF IsFragment
  <2> QED BY <1>6, <1>10, <2>1, <2>2 DEF Shares
<1>12. PICK end \in Nat : end = p + d + 1 /\ l = end - p
  BY <1>8
<1>13. Onward(i, p, end) = Piece(Connected(q), b + 2, b + l + 1)
  BY <1>2, <1>11, <1>12, SliceForward
<1>14. b + 2 = k + 1 /\ b + l + 1 = e + 1
  BY <1>3 DEF IsStretch
<1>15. FragmentLabel(q, k, e) = Onward(i, p, end)
  <2>1. Placed(q, k, i, p, 1, d)
    BY <1>4, <1>9
  <2>2. k + d = e /\ p + 1 * d = p + d
    BY <1>3 DEF IsStretch
  <2>3. Location(q[e])[2] = p + d
    BY <2>1, <2>2 DEF Placed
  <2>4. Location(q[k])[1] = i /\ Location(q[k])[2] = p
    BY <1>1
  <2>5. Step(q, k) >= 0
    OBVIOUS
  <2> QED BY <1>12, <2>3, <2>4, <2>5 DEF FragmentLabel, Onward
<1> QED BY <1>13, <1>14, <1>15

\* and against its direction.
LEMMA FragmentBackward ==
  ASSUME Scored, NEW q \in Seq(Customers), NEW n \in Nat, NEW k \in 1..n, Located(q[k]) # {},
         Step(q, k) = -1, NEW e \in k..n, IsFragment(q, n, k, e)
  PROVE  FragmentLabel(q, k, e) = Piece(Connected(q), k + 1, e + 1)
<1>1. PICK i \in DOMAIN incumbent, p \in Nat : Location(q[k]) = <<i, p>> /\ p < Len(incumbent[i].customers)
  BY LocationIs
<1>2. PICK c : c = incumbent[i].customers
  OBVIOUS
<1>3. PICK d \in Nat, b \in Nat, l \in Nat : IsStretch(k, e, d, b, l)
  BY StretchOf
<1>4. \A m \in 0..d : Placed(q, k, i, p, -1, m)
  BY <1>1, <1>3, FragmentRuns DEF IsFragment, IsStretch
<1>5. PICK o \in Nat : IsRoute(incumbent[i], o)
  BY SoundParts DEF Scored
<1>6. c \in Seq(Customers) /\ o = Len(c)
  BY <1>2, <1>5 DEF IsRoute
<1>7. ASSUME NEW m \in 0..d
      PROVE  p - m \in Nat /\ p - m < o /\ c[(p - m) + 1] = q[k + m]
  <2>1. p + (-1) * m = p - m
    OBVIOUS
  <2>2. /\ p + (-1) * m \in Nat /\ p + (-1) * m < Len(incumbent[i].customers)
        /\ incumbent[i].customers[(p + (-1) * m) + 1] = q[k + m]
    <3>1. Placed(q, k, i, p, -1, m)
      BY <1>4
    <3> QED BY <3>1, PlacedIs
  <2> QED BY <1>2, <1>6, <2>1, <2>2
<1>8. PICK begin \in Nat, end \in Nat, a \in Nat : IsTurn(p, o, d, l, begin, end, a)
  <2>1. d \in 0..d
    OBVIOUS
  <2>2. p - d \in Nat
    BY <1>7, <2>1
  <2>3. p < o
    BY <1>1, <1>2, <1>6
  <2>4. l = d + 1
    BY <1>3 DEF IsStretch
  <2> QED BY <2>2, <2>3, <2>4, TurnOf
<1>9. begin < end /\ end <= o /\ end - begin = l /\ a + l = o - begin /\ begin <= o
  BY <1>8 DEF IsTurn
<1>10. PICK r : r = Reverse(c)
  OBVIOUS
<1>11. r = [m \in 1..o |-> c[(o - m) + 1]]
  BY <1>6, <1>10 DEF Reverse
<1>12. r \in Seq(Customers) /\ Len(r) = o
  <2>1. \A m \in 1..o : (o - m) + 1 \in 1..o
    OBVIOUS
  <2> QED BY <1>6, <1>11, <2>1
<1>13. ASSUME NEW m \in 1..l
       PROVE  q[b + m] = r[a + m]
  <2>1. PICK x \in 0..d : x = m - 1
    BY <1>3 DEF IsStretch
  <2>2. k + x = b + m /\ a + m \in 1..o /\ (o - (a + m)) + 1 = (p - x) + 1
    <3>1. k + x = b + m
      BY <1>3, <2>1 DEF IsStretch
    <3>2. a + m \in 1..o /\ (o - (a + m)) + 1 = (p - x) + 1
      BY <1>8, <2>1 DEF IsTurn
    <3> QED BY <3>1, <3>2
  <2>3. r[a + m] = c[(p - x) + 1]
    <3>1. PICK y \in 1..o : y = a + m
      BY <2>2
    <3>2. r[y] = c[(o - y) + 1]
      BY <1>11
    <3> QED BY <2>2, <3>1, <3>2
  <2>4. c[(p - x) + 1] = q[k + x]
    BY <1>7
  <2> QED BY <2>2, <2>3, <2>4
<1>14. Shares(q, b, r, a, l)
  <2>1. a + l <= o
    BY <1>8 DEF IsTurn
  <2>2. b + l = e /\ l >= 1
    BY <1>3 DEF IsStretch
  <2>3. b + l <= n
    BY <2>2
  <2>4. q \in Seq(Customers) /\ b + l <= Len(q)
    BY <2>3 DEF IsFragment
  <2>5. r \in Seq(Customers) /\ a + l <= Len(r)
    BY <1>12, <2>1
  <2>6. a \in Nat /\ b \in Nat /\ l \in Nat /\ l >= 1
    BY <2>2
  <2> QED BY <1>13, <2>4, <2>5, <2>6 DEF Shares
<1>15. Backward(i, begin, end) = Piece(Connected(q), b + 2, b + l + 1)
  <2>1. IsTurned(i, c, o, begin, end, a, l)
    BY <1>2, <1>6, <1>8, <1>9 DEF IsTurn, IsSlice, IsTurned
  <2>2. Shares(q, b, Reverse(c), a, l)
    BY <1>10, <1>14
  <2> QED BY <2>1, <2>2, SliceBackward
<1>16. b + 2 = k + 1 /\ b + l + 1 = e + 1
  BY <1>3 DEF IsStretch
<1>17. FragmentLabel(q, k, e) = Backward(i, begin, end)
  <2>1. Placed(q, k, i, p, -1, d)
    BY <1>4
  <2>2. k + d = e /\ p + (-1) * d = p - d
    BY <1>3 DEF IsStretch
  <2>3. Location(q[e])[2] = begin
    <3>1. begin = p - d
      BY <1>8 DEF IsTurn
    <3> QED BY <2>1, <2>2, <3>1 DEF Placed
  <2>4. Location(q[k])[1] = i /\ Location(q[k])[2] = p
    BY <1>1
  <2>5. ~(Step(q, k) >= 0)
    OBVIOUS
  <2>6. end = p + 1
    BY <1>8 DEF IsTurn
  <2> QED BY <2>3, <2>4, <2>5, <2>6 DEF FragmentLabel, Backward
<1> QED BY <1>15, <1>16, <1>17

\* A fragment, of one customer at least, has the label of its links.
LEMMA FragmentIs ==
  ASSUME Scored, NEW q \in Seq(Customers), NEW n \in Nat, n = Len(q), NEW k \in 1..n,
         NEW e \in k..n, e = FragmentEnd(q, k)
  PROVE  FragmentLabel(q, k, e) = Piece(Connected(q), k + 1, e + 1)
<1>1. CASE Located(q[k]) = {}
  <2>1. Step(q, k) = 0
    BY <1>1, StepIs
  <2>2. e = k
    BY <2>1, FragmentEndIs
  <2>3. FragmentLabel(q, k, e) = NoLabel
    BY <1>1 DEF FragmentLabel
  <2>4. Piece(Connected(q), k + 1, k + 1) = NoLabel
    BY PieceEmpty
  <2> QED BY <2>2, <2>3, <2>4
<1>2. CASE Located(q[k]) # {}
  <2>1. Step(q, k) \in {0, 1} \/ Step(q, k) = -1
    BY StepValues
  <2>2. IsFragment(q, n, k, e)
    BY DEF IsFragment
  <2> QED BY <1>2, <2>1, <2>2, FragmentOnward, FragmentBackward
<1> QED BY <1>1, <1>2

-----------------------------------------------------------------------------
(* Orders put together from fragments.                                     *)

\* One label, and two, joined.
LEMMA JoinAllOne ==
  ASSUME NEW x \in Label
  PROVE  <<x>> \in Seq(Label) /\ JoinAll(<<x>>) = x
<1>1. << >> \in Seq(Label) /\ <<x>> = Append(<< >>, x)
  OBVIOUS
<1>2. JoinAll(Append(<< >>, x)) = Join(NoLabel, x)
  BY <1>1, JoinAllAppend, JoinAllEmpty
<1>3. <<x>> \in Seq(Label)
  BY OneEntry
<1> QED BY <1>1, <1>2, <1>3, JoinUnit

\* Two labels joined.
LEMMA JoinAllTwo ==
  ASSUME NEW x \in Label, NEW y \in Label
  PROVE  <<x, y>> \in Seq(Label) /\ JoinAll(<<x, y>>) = Join(x, y)
<1>1. PICK s \in Seq(Label) : s = <<x>> /\ JoinAll(s) = x
  BY JoinAllOne
<1>2. <<x, y>> = Append(s, y) /\ <<x, y>> \in Seq(Label)
  BY <1>1
<1>3. JoinAll(Append(s, y)) = Join(x, y)
  BY <1>1, JoinAllAppend
<1> QED BY <1>2, <1>3

\* All the places a .. b - 1 of C have labels.
Labels(C, a, b) == a \in Int /\ b \in Int /\ \A k \in a..(b - 1) : C[k] \in Label

\* A piece is its first label, what follows up to b, and the rest.
LEMMA PieceParts ==
  ASSUME NEW C, NEW a, NEW b \in Int, NEW c, Labels(C, a, c), a < b, b <= c
  PROVE  /\ Piece(C, a, c) = Join(Join(C[a], Piece(C, a + 1, b)), Piece(C, b, c))
         /\ C[a] \in Label /\ Piece(C, a + 1, b) \in Label /\ Piece(C, b, c) \in Label
<1> a \in Int /\ c \in Int
  BY DEF Labels
<1>1. PICK d \in Int : d = a + 1
  OBVIOUS
<1>2. a <= d /\ d <= b /\ a <= b /\ a \in a..(c - 1)
  BY <1>1
<1>3. /\ \A k \in a..(c - 1) : C[k] \in Label
      /\ \A k \in a..(b - 1) : C[k] \in Label
      /\ \A k \in d..(b - 1) : C[k] \in Label
      /\ \A k \in b..(c - 1) : C[k] \in Label
  BY <1>1 DEF Labels
<1>4. Piece(C, a, c) = Join(Piece(C, a, b), Piece(C, b, c))
  BY <1>2, <1>3, PieceSplit
<1>5. Piece(C, a, b) = Join(Piece(C, a, d), Piece(C, d, b))
  BY <1>2, <1>3, PieceSplit
<1>6. C[a] \in Label /\ Piece(C, a, a + 1) = C[a]
  BY <1>2, <1>3, PieceOne
<1>7. Piece(C, d, b) \in Label /\ Piece(C, b, c) \in Label
  BY <1>2, <1>3, PieceType
<1> QED BY <1>1, <1>4, <1>5, <1>6, <1>7

Before(q, k) == IF k = 1 THEN Depot ELSE q[k - 1]

FragmentsFrom(q, f, k) ==
  IF k = Len(q) + 1 THEN <<Bridge(q[Len(q)], Depot)>>
  ELSE <<Bridge(Before(q, k), q[k]), FragmentLabel(q, k, FragmentEnd(q, k))>> \o f[FragmentEnd(q, k) + 1]

SolvesFragments(f, q) == f = [k \in 1..(Len(q) + 1) |-> FragmentsFrom(q, f, k)]

\* SequenceLabel as the recursive function it is.
LEMMA SequenceChosen ==
  ASSUME NEW q
  PROVE  SequenceLabel(q) = JoinAll((CHOOSE f : SolvesFragments(f, q))[1])
  BY DEF SequenceLabel, SolvesFragments, FragmentsFrom, Before

\* The labels of what follows a customer are those of its links.
IsRest(s, q, n, k) ==
  s \in Seq(Label) /\ JoinAll(s) = Piece(Connected(q), k, n + 2)

\* A bridge is the link that precedes a customer, or the last one.
LEMMA BridgesAre ==
  ASSUME Scored, NEW q \in Seq(Customers), NEW n \in Nat, n = Len(q), n >= 1
  PROVE  /\ Labels(Connected(q), 1, n + 2)
         /\ \A k \in 1..n : Bridge(Before(q, k), q[k]) = Connected(q)[k]
         /\ Bridge(q[n], Depot) = Connected(q)[n + 1]
<1>1. PICK A : A = Anchors(q)
  OBVIOUS
<1>2. A[1] = Depot /\ A[n + 2] = Depot /\ \A i \in 1..n : A[i + 1] = q[i]
  BY <1>1, AnchorsAre
<1>3. \A g \in 1..(n + 1) : Connected(q)[g] = Link(A[g], A[g + 1]) /\ Connected(q)[g] \in Label
  BY <1>1, ConnectedAre
<1>4. ASSUME NEW k \in 1..n
      PROVE  Bridge(Before(q, k), q[k]) = Connected(q)[k]
  <2>1. A[k] = Before(q, k)
    <3>1. CASE k = 1
      BY <1>2, <3>1 DEF Before
    <3>2. CASE k # 1
      <4>1. k - 1 \in 1..n /\ (k - 1) + 1 = k
        BY <3>2
      <4>2. A[k] = q[k - 1]
        BY <1>2, <4>1
      <4> QED BY <3>2, <4>2 DEF Before
    <3> QED BY <3>1, <3>2
  <2>2. k \in 1..(n + 1)
    OBVIOUS
  <2> QED BY <1>2, <1>3, <2>1, <2>2, BridgeIs
<1>5. Bridge(q[n], Depot) = Connected(q)[n + 1]
  <2>1. n \in 1..n /\ n + 1 \in 1..(n + 1) /\ (n + 1) + 1 = n + 2
    OBVIOUS
  <2> QED BY <1>2, <1>3, <2>1, BridgeIs
<1>6. Labels(Connected(q), 1, n + 2)
  <2>1. \A k \in 1..((n + 2) - 1) : k \in 1..(n + 1)
    OBVIOUS
  <2> QED BY <1>3, <2>1 DEF Labels
<1> QED BY <1>4, <1>5, <1>6

\* One fragment more.
LEMMA RestNext ==
  ASSUME Scored, NEW q \in Seq(Customers), NEW n \in Nat, n = Len(q), NEW k \in 1..n,
         NEW e \in k..n, e = FragmentEnd(q, k), NEW s, IsRest(s, q, n, e + 1)
  PROVE  IsRest(<<Bridge(Before(q, k), q[k]), FragmentLabel(q, k, e)>> \o s, q, n, k)
<1>1. PICK C : C = Connected(q)
  OBVIOUS
<1>2. Labels(C, 1, n + 2) /\ Bridge(Before(q, k), q[k]) = C[k]
  BY <1>1, BridgesAre
<1>3. Labels(C, k, n + 2)
  <2>1. \A i \in k..((n + 2) - 1) : i \in 1..((n + 2) - 1)
    OBVIOUS
  <2> QED BY <1>2, <2>1 DEF Labels
<1>4. PICK b \in Int, c \in Int : b = e + 1 /\ c = n + 2 /\ k < b /\ b <= c
  OBVIOUS
<1>5. /\ Piece(C, k, c) = Join(Join(C[k], Piece(C, k + 1, b)), Piece(C, b, c))
      /\ C[k] \in Label /\ Piece(C, k + 1, b) \in Label /\ Piece(C, b, c) \in Label
  BY <1>3, <1>4, PieceParts
<1>6. FragmentLabel(q, k, e) = Piece(C, k + 1, b)
  BY <1>1, <1>4, FragmentIs
<1>7. PICK x \in Label, y \in Label : x = C[k] /\ y = Piece(C, k + 1, b)
  BY <1>5
<1>8. PICK t \in Seq(Label) : t = <<x, y>> /\ JoinAll(t) = Join(x, y)
  BY JoinAllTwo
<1>9. s \in Seq(Label) /\ JoinAll(s) = Piece(C, b, c)
  BY <1>1, <1>4 DEF IsRest
<1>10. JoinAll(t \o s) = Join(Join(x, y), Piece(C, b, c)) /\ t \o s \in Seq(Label)
  BY <1>8, <1>9, JoinAllConcat, Concatenated
<1>11. IsRest(t \o s, q, n, k)
  BY <1>1, <1>4, <1>5, <1>7, <1>10 DEF IsRest
<1> QED BY <1>2, <1>6, <1>7, <1>8, <1>11

\* There are labels for the rests of any order.
LEMMA FragmentsExist ==
  ASSUME NEW q, NEW n \in Nat, n = Len(q), n >= 1
  PROVE  \E f : SolvesFragments(f, q)
<1>1. PICK N \in Nat : N = n + 1
  OBVIOUS
<1>2. PICK K : K = {j \in 0..N : \E f : /\ DOMAIN f = 1..N /\ f = [i \in 1..N |-> f[i]]
                                        /\ \A i \in 1..N : i > N - j => f[i] = FragmentsFrom(q, f, i)}
  OBVIOUS
<1>3. 0 \in K
  <2>1. PICK f : f = [i \in 1..N |-> 0]
    OBVIOUS
  <2>2. DOMAIN f = 1..N /\ f = [i \in 1..N |-> f[i]]
    BY <2>1
  <2>3. 0 \in 0..N /\ \A i \in 1..N : ~(i > N - 0)
    OBVIOUS
  <2> QED BY <1>2, <2>2, <2>3
<1>4. ASSUME NEW j \in 1..N, j - 1 \in K
      PROVE  j \in K
  <2>1. PICK f : /\ DOMAIN f = 1..N
                 /\ \A i \in 1..N : i > N - (j - 1) => f[i] = FragmentsFrom(q, f, i)
    BY <1>2, <1>4
  <2>2. PICK h \in 1..N : h = N - (j - 1)
    OBVIOUS
  <2>3. PICK g : g = [i \in 1..N |-> IF i = h THEN FragmentsFrom(q, f, h) ELSE f[i]]
    OBVIOUS
  <2>4. ASSUME NEW i \in 1..N, i > N - j
        PROVE  g[i] = FragmentsFrom(q, g, i)
    <3>1. i >= h
      BY <2>2, <2>4
    <3>2. FragmentsFrom(q, g, i) = FragmentsFrom(q, f, i)
      <4>1. CASE i = N
        BY <1>1, <4>1 DEF FragmentsFrom
      <4>2. CASE i # N
        <5>1. i \in 1..n
          BY <1>1, <4>2
        <5>2. PICK e \in i..n : e = FragmentEnd(q, i)
          BY <5>1, FragmentEndIs
        <5>3. e + 1 \in 1..N /\ e + 1 # h
          BY <1>1, <3>1, <5>2
        <5>4. g[e + 1] = f[e + 1]
          BY <2>3, <5>3
        <5> QED BY <5>2, <5>4 DEF FragmentsFrom
      <4> QED BY <4>1, <4>2
    <3>3. CASE i = h
      BY <2>3, <3>2, <3>3
    <3>4. CASE i # h
      <4>1. i > N - (j - 1)
        BY <2>2, <3>1, <3>4
      <4>2. g[i] = f[i]
        BY <2>3, <3>4
      <4> QED BY <2>1, <3>2, <4>1, <4>2
    <3> QED BY <3>3, <3>4
  <2>5. DOMAIN g = 1..N /\ g = [i \in 1..N |-> g[i]]
    BY <2>3
  <2> QED BY <1>2, <2>4, <2>5
<1>5. \A j \in 0..N : j \in K
  BY <1>3, <1>4, UpTo
<1>6. N \in K
  BY <1>5
<1>7. PICK f : /\ f = [i \in 1..N |-> f[i]]
               /\ \A i \in 1..N : i > N - N => f[i] = FragmentsFrom(q, f, i)
  BY <1>2, <1>6
<1>8. \A i \in 1..N : i > N - N
  OBVIOUS
<1>9. f = [i \in 1..N |-> FragmentsFrom(q, f, i)]
  BY <1>7, <1>8
<1> QED BY <1>1, <1>9 DEF SolvesFragments

\* A customer order is scored as the route the search would build.
LEMMA SequenceScored ==
  ASSUME Scored, NEW q \in Seq(Customers), q # << >>
  PROVE  SequenceLabel(q) = Built(q)
<1>1. PICK n \in Nat : n = Len(q) /\ n >= 1
  OBVIOUS
<1>2. PICK f : f = CHOOSE g : SolvesFragments(g, q)
  OBVIOUS
<1>3. SolvesFragments(f, q)
  BY <1>1, <1>2, FragmentsExist
<1>4. \A k \in 1..(n + 1) : f[k] = FragmentsFrom(q, f, k)
  <2>1. f = [k \in 1..(n + 1) |-> FragmentsFrom(q, f, k)]
    BY <1>1, <1>3 DEF SolvesFragments
  <2> QED BY <2>1
<1>5. PICK K : K = {j \in 0..n : \A k \in 1..(n + 1) : k + j >= n + 1 => IsRest(f[k], q, n, k)}
  OBVIOUS
<1>6. 0 \in K
  <2>1. f[n + 1] = <<Bridge(q[n], Depot)>>
    <3>1. n + 1 \in 1..(n + 1)
      BY <1>1
    <3>2. f[n + 1] = FragmentsFrom(q, f, n + 1)
      BY <1>4, <3>1
    <3> QED BY <1>1, <3>2 DEF FragmentsFrom
  <2>2. Bridge(q[n], Depot) = Connected(q)[n + 1] /\ Labels(Connected(q), 1, n + 2)
    BY <1>1, BridgesAre
  <2>3. PICK x \in Label : x = Connected(q)[n + 1]
    BY <2>2 DEF Labels
  <2>4. Piece(Connected(q), n + 1, (n + 1) + 1) = x
    BY <2>3, PieceOne
  <2>5. (n + 1) + 1 = n + 2 /\ \A k \in 1..(n + 1) : k + 0 >= n + 1 => k = n + 1
    OBVIOUS
  <2>6. IsRest(f[n + 1], q, n, n + 1)
    BY <2>1, <2>2, <2>3, <2>4, <2>5, JoinAllOne DEF IsRest
  <2> QED BY <1>5, <2>5, <2>6
<1>7. ASSUME NEW j \in 1..n, j - 1 \in K
      PROVE  j \in K
  <2>1. ASSUME NEW k \in 1..(n + 1), k + j >= n + 1
        PROVE  IsRest(f[k], q, n, k)
    <3>1. CASE k + (j - 1) >= n + 1
      BY <1>5, <1>7, <3>1
    <3>2. CASE ~(k + (j - 1) >= n + 1)
      <4>1. k \in 1..n /\ k # n + 1
        BY <2>1, <3>2
      <4>2. PICK e \in k..n : e = FragmentEnd(q, k)
        BY <1>1, <4>1, FragmentEndIs
      <4>3. e + 1 \in 1..(n + 1) /\ (e + 1) + (j - 1) >= n + 1
        BY <2>1, <4>2
      <4>4. IsRest(f[e + 1], q, n, e + 1)
        BY <1>5, <1>7, <4>3
      <4>5. f[k] = <<Bridge(Before(q, k), q[k]), FragmentLabel(q, k, e)>> \o f[e + 1]
        BY <1>1, <1>4, <4>1, <4>2 DEF FragmentsFrom
      <4> QED BY <1>1, <4>1, <4>2, <4>4, <4>5, RestNext
    <3> QED BY <3>1, <3>2
  <2> QED BY <1>5, <2>1
<1>8. \A j \in 0..n : j \in K
  BY <1>6, <1>7, UpTo
<1>9. IsRest(f[1], q, n, 1)
  <2>1. n \in K /\ 1 \in 1..(n + 1) /\ 1 + n >= n + 1
    BY <1>8
  <2> QED BY <1>5, <2>1
<1>10. SequenceLabel(q) = JoinAll(f[1])
  BY <1>2, SequenceChosen
<1>11. Built(q) = Piece(Connected(q), 1, n + 2)
  BY <1>1, BuiltIs
<1> QED BY <1>9, <1>10, <1>11 DEF IsRest

-----------------------------------------------------------------------------
(* Routes put together by a move.                                          *)

\* Joined, the labels of s are those of the places a .. b - 1 of C.
Covers(s, C, a, b) == s \in Seq(Label) /\ JoinAll(s) = Piece(C, a, b)

\* No label covers no place.
LEMMA CoversNone ==
  ASSUME NEW C, NEW a \in Int
  PROVE  Covers(<< >>, C, a, a)
<1>1. << >> \in Seq(Label)
  OBVIOUS
<1> QED BY <1>1, JoinAllEmpty, PieceEmpty DEF Covers

\* A label covers its place.
LEMMA CoversOne ==
  ASSUME NEW C, NEW a \in Int, NEW x \in Label, C[a] = x
  PROVE  Covers(<<x>>, C, a, a + 1)
<1>1. Piece(C, a, a + 1) = x
  BY PieceOne
<1> QED BY <1>1, JoinAllOne DEF Covers

\* A label and that of a piece cover the place and the piece.
LEMMA CoversTwo ==
  ASSUME NEW C, NEW a \in Int, NEW b \in Int, a < b, Labels(C, a, b),
         NEW x, NEW y, C[a] = x, Piece(C, a + 1, b) = y
  PROVE  Covers(<<x, y>>, C, a, b)
<1>1. PICK d \in Int : d = a + 1
  OBVIOUS
<1>2. a <= d /\ d <= b /\ a \in a..(b - 1)
  BY <1>1
<1>3. (\A k \in a..(b - 1) : C[k] \in Label) /\ (\A k \in d..(b - 1) : C[k] \in Label)
  BY <1>1 DEF Labels
<1>4. Piece(C, a, b) = Join(Piece(C, a, d), Piece(C, d, b))
  BY <1>2, <1>3, PieceSplit
<1>5. x \in Label /\ Piece(C, a, a + 1) = x
  BY <1>2, <1>3, PieceOne
<1>6. y \in Label
  BY <1>1, <1>2, <1>3, PieceType
<1> QED BY <1>1, <1>4, <1>5, <1>6, JoinAllTwo DEF Covers

\* What covers two neighbouring pieces covers both.
LEMMA CoversBoth ==
  ASSUME NEW C, NEW a \in Int, NEW b \in Int, NEW c \in Int, a <= b, b <= c, Labels(C, a, c),
         NEW s, NEW t, Covers(s, C, a, b), Covers(t, C, b, c)
  PROVE  Covers(s \o t, C, a, c)
<1>1. \A k \in a..(c - 1) : C[k] \in Label
  BY DEF Labels
<1>2. Piece(C, a, c) = Join(Piece(C, a, b), Piece(C, b, c))
  BY <1>1, PieceSplit
<1>3. s \in Seq(Label) /\ t \in Seq(Label) /\ JoinAll(s) = Piece(C, a, b) /\ JoinAll(t) = Piece(C, b, c)
  BY DEF Covers
<1>4. JoinAll(s \o t) = Join(JoinAll(s), JoinAll(t)) /\ s \o t \in Seq(Label)
  BY <1>3, JoinAllConcat, Concatenated
<1> QED BY <1>2, <1>3, <1>4 DEF Covers

\* A part of the labelled places.
LEMMA LabelsWithin ==
  ASSUME NEW C, NEW n \in Int, Labels(C, 1, n), NEW a \in Int, NEW b \in Int, 1 <= a, b <= n
  PROVE  Labels(C, a, b)
<1>1. \A k \in a..(b - 1) : k \in 1..(n - 1)
  OBVIOUS
<1> QED BY <1>1 DEF Labels

\* What a route with one more customer is made of.
IsOneMore(q, o, n, p, c) ==
  /\ o \in Seq(Customers) /\ n = Len(o) /\ n \in Nat /\ p \in 0..n /\ c \in Customers
  /\ q \in Seq(Customers) /\ Len(q) = n + 1
  /\ \A i \in 1..p : q[i] = o[i]
  /\ q[p + 1] = c
  /\ \A i \in (p + 1)..n : q[i + 1] = o[i]

\* An insertion is scored as the route the search would build.
LEMMA InsertionScored ==
  ASSUME Scored, NEW r \in DOMAIN incumbent, NEW c \in Customers,
         NEW p \in 0..Len(incumbent[r].customers)
  PROVE  InsertedLabel(r, p, c) = Built(InsertAt(incumbent[r].customers, p + 1, c))
<1>1. PICK n \in Nat : IsRoute(incumbent[r], n)
  BY SoundParts DEF Scored
<1>2. PICK o \in Seq(Customers) : o = incumbent[r].customers /\ n = Len(o) /\ n >= 1
  BY <1>1 DEF IsRoute
<1>3. PICK q : q = InsertAt(o, p + 1, c)
  OBVIOUS
<1>4. p \in 0..n
  BY <1>2
<1>5. IsOneMore(q, o, n, p, c)
  <2>1. p + 1 \in 1..(Len(o) + 1)
    BY <1>2, <1>4
  <2>2. IsInserted(q, Customers, o, Len(o), p + 1, c)
    BY <1>3, <2>1, Inserted
  <2>3. (p + 1) - 1 = p
    BY <1>4
  <2> QED BY <1>2, <1>4, <2>2, <2>3 DEF IsInserted, IsOneMore
<1>6. PICK C : C = Connected(q)
  OBVIOUS
<1>7. PICK N \in Nat : N = n + 1
  OBVIOUS
<1>8. q \in Seq(Customers) /\ Len(q) = N
  BY <1>5, <1>7 DEF IsOneMore
<1>9. /\ Labels(C, 1, N + 2)
      /\ \A k \in 1..N : Bridge(Before(q, k), q[k]) = C[k]
      /\ Bridge(q[N], Depot) = C[N + 1]
  BY <1>6, <1>7, <1>8, BridgesAre
<1>10. PICK own : own = profiles[r]
  OBVIOUS
<1>11. own.customers = o
  BY <1>2, <1>10, ProfileIs
<1>12. PICK left : left = IF p = 0 THEN << >> ELSE <<Bridge(Depot, o[1]), Slice(own, 0, p, FALSE)>>
  OBVIOUS
<1>13. PICK right : right = IF p = n THEN << >> ELSE <<Bridge(c, o[p + 1]), Slice(own, p, n, FALSE)>>
  OBVIOUS
<1>14. PICK x, y : x = Bridge(IF p = 0 THEN Depot ELSE o[p], c) /\ y = Bridge(IF p = n THEN c ELSE o[n], Depot)
  OBVIOUS
<1>15. InsertedLabel(r, p, c) = JoinAll(((left \o <<x>>) \o right) \o <<y>>)
  BY <1>2, <1>10, <1>11, <1>12, <1>13, <1>14 DEF InsertedLabel
<1>16. Covers(left, C, 1, p + 1)
  <2>1. CASE p = 0
    <3>1. p + 1 = 1
      BY <2>1
    <3> QED BY <1>12, <2>1, <3>1, CoversNone
  <2>2. CASE p # 0
    <3>1. 1 \in 1..p /\ 1 \in 1..N /\ p \in Nat
      BY <1>4, <1>7, <2>2
    <3>2. q[1] = o[1] /\ Before(q, 1) = Depot
      BY <1>5, <3>1 DEF IsOneMore, Before
    <3>3. Bridge(Depot, o[1]) = C[1]
      BY <1>9, <3>1, <3>2
    <3>4. Shares(q, 0, o, 0, p)
      <4>1. 0 + p <= Len(o) /\ 0 + p <= Len(q) /\ p >= 1
        BY <1>2, <1>4, <1>7, <1>8, <3>1
      <4>2. \A k \in 1..p : q[0 + k] = o[0 + k]
        BY <1>5 DEF IsOneMore
      <4> QED BY <1>2, <1>8, <3>1, <4>1, <4>2 DEF Shares
    <3>5. Onward(r, 0, p) = Piece(C, 0 + 2, 0 + p + 1)
      <4>1. p = p - 0
        BY <3>1
      <4> QED BY <1>2, <1>6, <3>1, <3>4, <4>1, SliceForward
    <3>6. 0 + 2 = 1 + 1 /\ 0 + p + 1 = p + 1 /\ 1 < p + 1 /\ p + 1 <= N + 2 /\ p + 1 \in Int
      BY <1>4, <1>7, <3>1
    <3>7. Labels(C, 1, p + 1)
      BY <1>9, <3>6, LabelsWithin
    <3>8. Covers(<<Bridge(Depot, o[1]), Onward(r, 0, p)>>, C, 1, p + 1)
      BY <3>3, <3>5, <3>6, <3>7, CoversTwo
    <3> QED BY <1>10, <1>12, <2>2, <3>8 DEF Onward
  <2> QED BY <2>1, <2>2
<1>17. Covers(<<x>>, C, p + 1, p + 2)
  <2>1. PICK k \in 1..N : k = p + 1
    BY <1>4, <1>7
  <2>2. q[k] = c
    BY <1>5, <2>1 DEF IsOneMore
  <2>3. Before(q, k) = IF p = 0 THEN Depot ELSE o[p]
    <3>1. CASE p = 0
      BY <2>1, <3>1 DEF Before
    <3>2. CASE p # 0
      <4>1. p \in 1..p /\ k # 1 /\ k - 1 = p
        BY <1>4, <2>1, <3>2
      <4>2. q[p] = o[p]
        BY <1>5, <4>1 DEF IsOneMore
      <4> QED BY <3>2, <4>1, <4>2 DEF Before
    <3> QED BY <3>1, <3>2
  <2>4. C[k] = x
    BY <1>9, <1>14, <2>2, <2>3
  <2>5. C[k] \in Label
    <3>1. k \in 1..((N + 2) - 1)
      OBVIOUS
    <3> QED BY <1>9, <3>1 DEF Labels
  <2>6. k + 1 = p + 2
    BY <1>4, <2>1
  <2>7. Covers(<<x>>, C, k, k + 1)
    BY <2>4, <2>5, CoversOne
  <2> QED BY <2>1, <2>6, <2>7
<1>18. Covers(right, C, p + 2, n + 2)
  <2>1. CASE p = n
    BY <1>13, <2>1, CoversNone
  <2>2. CASE p # n
    <3>1. PICK l \in Nat : l = n - p /\ l >= 1
      BY <1>4, <2>2
    <3>2. PICK k \in 1..N : k = p + 2 /\ k # 1 /\ k - 1 = p + 1
      BY <1>4, <1>7, <2>2
    <3>3. q[k] = o[p + 1] /\ q[k - 1] = c
      <4>1. p + 1 \in (p + 1)..n /\ (p + 1) + 1 = k
        BY <1>4, <2>2, <3>2
      <4> QED BY <1>5, <3>2, <4>1 DEF IsOneMore
    <3>4. Bridge(c, o[p + 1]) = C[k]
      BY <1>9, <3>2, <3>3 DEF Before
    <3>5. PICK b \in Nat : b = p + 1
      BY <1>4
    <3>6. Shares(q, b, o, p, l)
      <4>1. p + l <= Len(o) /\ b + l <= Len(q) /\ p \in Nat
        <5>1. p + l = n /\ b + l = N /\ p \in Nat
          BY <1>4, <1>7, <3>1, <3>5
        <5> QED BY <1>2, <1>7, <1>8, <5>1
      <4>2. ASSUME NEW j \in 1..l
            PROVE  q[b + j] = o[p + j]
        <5>1. p + j \in (p + 1)..n /\ (p + j) + 1 = b + j
          BY <1>4, <3>1, <3>5
        <5> QED BY <1>5, <5>1 DEF IsOneMore
      <4> QED BY <1>2, <1>8, <3>1, <4>1, <4>2 DEF Shares
    <3>7. Onward(r, p, n) = Piece(C, b + 2, b + l + 1)
      <4>1. p \in Nat
        BY <1>4
      <4> QED BY <1>2, <1>6, <3>1, <3>6, <4>1, SliceForward
    <3>8. b + 2 = k + 1 /\ b + l + 1 = n + 2 /\ k < n + 2 /\ n + 2 <= N + 2
      BY <1>4, <1>7, <3>1, <3>2, <3>5, <2>2
    <3>9. Labels(C, k, n + 2)
      BY <1>9, <3>8, LabelsWithin
    <3>10. Covers(<<Bridge(c, o[p + 1]), Onward(r, p, n)>>, C, k, n + 2)
      BY <3>4, <3>7, <3>8, <3>9, CoversTwo
    <3> QED BY <1>10, <1>13, <2>2, <3>2, <3>10 DEF Onward
  <2> QED BY <2>1, <2>2
<1>19. Covers(<<y>>, C, n + 2, n + 3)
  <2>1. q[N] = IF p = n THEN c ELSE o[n]
    <3>1. CASE p = n
      BY <1>5, <1>7, <3>1 DEF IsOneMore
    <3>2. CASE p # n
      <4>1. n \in (p + 1)..n
        BY <1>4, <3>2
      <4> QED BY <1>5, <1>7, <3>2, <4>1 DEF IsOneMore
    <3> QED BY <3>1, <3>2
  <2>2. C[N + 1] = y
    BY <1>9, <1>14, <2>1
  <2>3. C[N + 1] \in Label
    <3>1. N + 1 \in 1..((N + 2) - 1)
      OBVIOUS
    <3> QED BY <1>9, <3>1 DEF Labels
  <2>4. Covers(<<y>>, C, N + 1, (N + 1) + 1)
    BY <2>2, <2>3, CoversOne
  <2>5. N + 1 = n + 2 /\ (N + 1) + 1 = n + 3
    BY <1>7
  <2> QED BY <2>4, <2>5
<1>20. Covers(((left \o <<x>>) \o right) \o <<y>>, C, 1, n + 3)
  <2>1. /\ p + 1 \in Int /\ p + 2 \in Int /\ n + 2 \in Int /\ n + 3 \in Int
        /\ 1 <= p + 1 /\ p + 1 <= p + 2 /\ 1 <= p + 2 /\ p + 2 <= n + 2 /\ 1 <= n + 2 /\ n + 2 <= n + 3
        /\ p + 2 <= N + 2 /\ n + 2 <= N + 2 /\ n + 3 <= N + 2
    BY <1>4, <1>7
  <2>2. Labels(C, 1, p + 2) /\ Labels(C, 1, n + 2) /\ Labels(C, 1, n + 3)
    BY <1>9, <2>1, LabelsWithin
  <2>3. Covers(left \o <<x>>, C, 1, p + 2)
    BY <1>16, <1>17, <2>1, <2>2, CoversBoth
  <2>4. Covers((left \o <<x>>) \o right, C, 1, n + 2)
    BY <1>18, <2>1, <2>2, <2>3, CoversBoth
  <2> QED BY <1>19, <2>1, <2>2, <2>4, CoversBoth
<1>21. Built(q) = Piece(C, 1, N + 2)
  BY <1>6, <1>8, BuiltIs
<1>22. N + 2 = n + 3
  BY <1>7
<1> QED BY <1>2, <1>3, <1>15, <1>20, <1>21, <1>22 DEF Covers

\* Two sequences joined.
LEMMA FlattenTwo ==
  ASSUME NEW A, NEW s \in Seq(A), NEW t \in Seq(A)
  PROVE  FlattenSeq(<<s, t>>) = s \o t
<1>1. PICK seqs : seqs = <<s, t>>
  OBVIOUS
<1>2. seqs \in Seq(Seq(A)) /\ Len(seqs) = 2 /\ seqs[1] = s /\ seqs[2] = t
  BY <1>1
<1>3. PICK h : Joins(h, A, seqs)
  BY <1>2, FlattenJoins
<1>4. /\ h[0] = << >> /\ h[2] = FlattenSeq(seqs)
      /\ \A k \in 1..2 : h[k] = h[k - 1] \o seqs[k]
  BY <1>2, <1>3 DEF Joins
<1>5. h[1] = h[0] \o s /\ h[2] = h[1] \o t
  <2>1. 1 \in 1..2 /\ 2 \in 1..2 /\ 1 - 1 = 0 /\ 2 - 1 = 1
    OBVIOUS
  <2>2. h[1] = h[1 - 1] \o seqs[1] /\ h[2] = h[2 - 1] \o seqs[2]
    BY <1>4, <2>1
  <2> QED BY <1>2, <2>1, <2>2
<1>6. << >> \o s = s
  OBVIOUS
<1> QED BY <1>1, <1>4, <1>5, <1>6

\* The head of o up to i and the tail of u after j, turned or not.
IsExchange(w, o, i, u, m, j, l, flip) ==
  /\ o \in Seq(Customers) /\ u \in Seq(Customers)
  /\ i \in 1..Len(o) /\ m = Len(u) /\ m \in Nat /\ j \in 0..(m - 1) /\ l \in Nat /\ j + l = m
  /\ w \in Seq(Customers) /\ Len(w) = i + l
  /\ \A k \in 1..i : w[k] = o[k]
  /\ \A k \in 1..l : w[i + k] = IF flip THEN u[m + 1 - k] ELSE u[j + k]

\* What an exchange of tails makes.
LEMMA Exchanged ==
  ASSUME NEW o \in Seq(Customers), NEW u \in Seq(Customers), NEW i \in 1..Len(o),
         NEW j \in 0..(Len(u) - 1), NEW flip \in BOOLEAN, NEW t, t = SubSeq(u, j + 1, Len(u))
  PROVE  IsExchange(SubSeq(o, 1, i) \o (IF flip THEN Reverse(t) ELSE t),
                    o, i, u, Len(u), j, Len(u) - j, flip)
<1>1. PICK m \in Nat, n \in Nat : m = Len(u) /\ n = Len(o)
  OBVIOUS
<1>1a. j \in 0..(m - 1)
  BY <1>1
<1>2. PICK l \in Nat : l = m - j /\ l >= 1
  BY <1>1a
<1>3. j + l = m /\ j \in Nat
  BY <1>1a, <1>2
<1>4. t \in Seq(Customers) /\ Len(t) = l /\ \A k \in 1..l : t[k] = u[j + k]
  <2>1. \A k \in 1..l : j + k \in 1..m
    BY <1>3
  <2>2. PICK v : v = [k \in 1..l |-> u[j + k]]
    OBVIOUS
  <2>3. v \in Seq(Customers) /\ Len(v) = l
    BY <1>1, <2>1, <2>2
  <2>4. t = v
    BY <1>1, <1>2, <1>3, <2>2
  <2> QED BY <2>2, <2>3, <2>4
<1>5. PICK z : z = Reverse(t)
  OBVIOUS
<1>6. z \in Seq(Customers) /\ Len(z) = l /\ \A k \in 1..l : z[k] = u[m + 1 - k]
  <2>1. z = [k \in 1..l |-> t[(l - k) + 1]]
    BY <1>4, <1>5 DEF Reverse
  <2>2. \A k \in 1..l : (l - k) + 1 \in 1..l
    OBVIOUS
  <2>3. z \in Seq(Customers) /\ Len(z) = l
    BY <1>4, <2>1, <2>2
  <2>4. ASSUME NEW k \in 1..l
        PROVE  z[k] = u[m + 1 - k]
    <3>1. PICK g \in 1..l : g = (l - k) + 1
      BY <2>2
    <3>2. j + g = m + 1 - k
      BY <1>3, <3>1
    <3> QED BY <1>4, <2>1, <3>1, <3>2
  <2> QED BY <2>3, <2>4
<1>7. PICK x : x = SubSeq(o, 1, i)
  OBVIOUS
<1>8. x \in Seq(Customers) /\ Len(x) = i /\ \A k \in 1..i : x[k] = o[k]
  BY <1>7
<1>9. PICK y : y = IF flip THEN z ELSE t
  OBVIOUS
<1>10. /\ y \in Seq(Customers) /\ Len(y) = l
       /\ \A k \in 1..l : y[k] = IF flip THEN u[m + 1 - k] ELSE u[j + k]
  BY <1>4, <1>6, <1>9
<1>11. PICK w : w = x \o y
  OBVIOUS
<1>12. /\ w \in Seq(Customers) /\ Len(w) = i + l
       /\ \A k \in 1..i : w[k] = x[k]
       /\ \A k \in 1..l : w[i + k] = y[k]
  <2>1. x \in Seq(Customers) /\ y \in Seq(Customers) /\ Len(x) = i /\ Len(y) = l
    BY <1>8, <1>10
  <2>2. x \in Seq(Customers) /\ y \in Seq(Customers)
    BY <2>1
  <2>3. /\ x \o y \in Seq(Customers) /\ Len(x \o y) = Len(x) + Len(y)
        /\ \A k \in 1..Len(x) : (x \o y)[k] = x[k]
        /\ \A k \in 1..Len(y) : (x \o y)[Len(x) + k] = y[k]
    BY <2>2, Concatenated
  <2> QED BY <1>11, <2>1, <2>3
<1>13. IsExchange(w, o, i, u, m, j, l, flip)
  <2>1. j \in 0..(m - 1)
    BY <1>1
  <2> QED BY <1>1, <1>3, <1>8, <1>10, <1>12, <2>1 DEF IsExchange
<1> QED BY <1>1, <1>2, <1>5, <1>7, <1>9, <1>11, <1>13

\* The slices of an exchange.
Exchange(r, i, q, j, m, flip) ==
  <<[route |-> r, begin |-> 0, end |-> i, reversed |-> FALSE],
    [route |-> q, begin |-> j, end |-> m, reversed |-> flip]>>

Turning(q, j, m, flip) == IF flip THEN Backward(q, j, m) ELSE Onward(q, j, m)

\* The bridges and fragments of an exchange.
LEMMA ExchangeParts ==
  ASSUME NEW r, NEW i, NEW q, NEW j, NEW m, NEW flip \in BOOLEAN,
         NEW o, NEW u, o = profiles[r].customers, u = profiles[q].customers,
         NEW first, NEW last, first = (IF flip THEN u[m] ELSE u[j + 1]),
         last = (IF flip THEN u[j + 1] ELSE u[m])
  PROVE  SlicesLabel(Exchange(r, i, q, j, m, flip))
           = JoinAll(FlattenSeq(<<<<Bridge(Depot, o[1]), Onward(r, 0, i)>>,
                                  <<Bridge(o[i], first), Turning(q, j, m, flip)>> >>)
                     \o <<Bridge(last, Depot)>>)
<1>1. PICK S : S = Exchange(r, i, q, j, m, flip)
  OBVIOUS
<1>2. PICK a, b : /\ a = [route |-> r, begin |-> 0, end |-> i, reversed |-> FALSE]
                  /\ b = [route |-> q, begin |-> j, end |-> m, reversed |-> flip]
  OBVIOUS
<1>3. S = <<a, b>> /\ Len(S) = 2 /\ S[1] = a /\ S[2] = b
  BY <1>1, <1>2 DEF Exchange
<1>4. /\ a.route = r /\ a.begin = 0 /\ a.end = i /\ a.reversed = FALSE
      /\ b.route = q /\ b.begin = j /\ b.end = m /\ b.reversed = flip
  BY <1>2
<1>5. FirstOf(a) = o[1] /\ LastOf(a) = o[i]
  <2>1. 0 + 1 = 1
    OBVIOUS
  <2> QED BY <1>4, <2>1 DEF FirstOf, LastOf
<1>6. FirstOf(b) = first /\ LastOf(b) = last
  BY <1>4 DEF FirstOf, LastOf
<1>7. Slice(profiles[a.route], a.begin, a.end, a.reversed) = Onward(r, 0, i)
  BY <1>4 DEF Onward
<1>8. Slice(profiles[b.route], b.begin, b.end, b.reversed) = Turning(q, j, m, flip)
  <2>1. CASE flip = TRUE
    BY <1>4, <2>1 DEF Backward, Turning
  <2>2. CASE flip = FALSE
    BY <1>4, <2>2 DEF Onward, Turning
  <2> QED BY <2>1, <2>2
<1>9. PICK L : L = [k \in 1..2 |-> <<Bridge(IF k = 1 THEN Depot ELSE LastOf(S[k - 1]), FirstOf(S[k])),
                                     Slice(profiles[S[k].route], S[k].begin, S[k].end, S[k].reversed)>>]
  OBVIOUS
<1>10. PICK x, y : /\ x = <<Bridge(Depot, o[1]), Onward(r, 0, i)>>
                   /\ y = <<Bridge(o[i], first), Turning(q, j, m, flip)>>
  OBVIOUS
<1>11. L[1] = x
  BY <1>3, <1>5, <1>7, <1>9, <1>10
<1>12. L[2] = y
  <2>1. 2 - 1 = 1 /\ 2 \in 1..2 /\ 2 # 1
    OBVIOUS
  <2> QED BY <1>3, <1>5, <1>6, <1>8, <1>9, <1>10, <2>1
<1>13. L = <<x, y>>
  BY <1>9, <1>11, <1>12
<1>14. (IF 2 + 1 = 1 THEN Depot ELSE LastOf(S[2 + 1 - 1])) = last
  <2>1. 2 + 1 # 1 /\ 2 + 1 - 1 = 2
    OBVIOUS
  <2> QED BY <1>3, <1>6, <2>1
<1>15. SlicesLabel(S) = JoinAll(FlattenSeq(L) \o <<Bridge(last, Depot)>>)
  BY <1>3, <1>9, <1>14 DEF SlicesLabel
<1> QED BY <1>1, <1>10, <1>13, <1>15

\* The same of two routes of the incumbent.
IsBetween(r, q, w, i, m, j, l, flip) ==
  /\ r \in DOMAIN incumbent /\ q \in DOMAIN incumbent /\ flip \in BOOLEAN
  /\ IsExchange(w, incumbent[r].customers, i, incumbent[q].customers, m, j, l, flip)

\* An exchange is scored as the route the search would build.
LEMMA ExchangeScored ==
  ASSUME Scored, NEW r, NEW q, NEW i, NEW j, NEW m, NEW l, NEW flip, NEW w,
         IsBetween(r, q, w, i, m, j, l, flip)
  PROVE  SlicesLabel(Exchange(r, i, q, j, m, flip)) = Built(w)
<1>0. PICK o, u : o = incumbent[r].customers /\ u = incumbent[q].customers
  OBVIOUS
<1>1. /\ o \in Seq(Customers) /\ u \in Seq(Customers)
      /\ i \in 1..Len(o) /\ m = Len(u) /\ m \in Nat /\ j \in 0..(m - 1) /\ l \in Nat /\ j + l = m
      /\ w \in Seq(Customers) /\ Len(w) = i + l
      /\ \A k \in 1..i : w[k] = o[k]
      /\ \A k \in 1..l : w[i + k] = IF flip THEN u[m + 1 - k] ELSE u[j + k]
  BY <1>0 DEF IsBetween, IsExchange
<1>1a. r \in DOMAIN incumbent /\ q \in DOMAIN incumbent /\ flip \in BOOLEAN
  BY DEF IsBetween
<1>2. PICK n \in Nat : n = Len(o) /\ i \in 1..n
  BY <1>1
<1>2a. PICK N \in Nat : N = i + l
  BY <1>1, <1>2
<1>3. l \in Nat /\ l >= 1 /\ N >= 1 /\ i + l = N /\ i \in Nat /\ i >= 1 /\ i <= n
  BY <1>1, <1>2, <1>2a
<1>3a. N = Len(w)
  BY <1>1, <1>2a
<1>4. PICK C : C = Connected(w)
  OBVIOUS
<1>5. /\ Labels(C, 1, N + 2)
      /\ \A k \in 1..N : Bridge(Before(w, k), w[k]) = C[k]
      /\ Bridge(w[N], Depot) = C[N + 1]
  BY <1>1, <1>3, <1>3a, <1>4, BridgesAre
<1>6. PICK first, last : /\ first = (IF flip THEN u[m] ELSE u[j + 1])
                         /\ last = (IF flip THEN u[j + 1] ELSE u[m])
  OBVIOUS
<1>7. PICK x : x = <<Bridge(Depot, o[1]), Onward(r, 0, i)>>
  OBVIOUS
<1>8. PICK y : y = <<Bridge(o[i], first), Turning(q, j, m, flip)>>
  OBVIOUS
<1>9. Covers(x, C, 1, i + 1)
  <2>1. 1 \in 1..i /\ 1 \in 1..N
    BY <1>3
  <2>2. Bridge(Depot, o[1]) = C[1]
    <3>1. w[1] = o[1] /\ Before(w, 1) = Depot
      BY <1>1, <2>1 DEF Before
    <3> QED BY <1>5, <2>1, <3>1
  <2>3. Shares(w, 0, o, 0, i)
    <3>1. 0 + i <= Len(o) /\ 0 + i <= Len(w)
      BY <1>2, <1>3, <1>3a
    <3>2. \A k \in 1..i : w[0 + k] = o[0 + k]
      BY <1>1, <1>3
    <3> QED BY <1>1, <1>3, <3>1, <3>2 DEF Shares
  <2>4. Onward(r, 0, i) = Piece(C, 0 + 2, 0 + i + 1)
    <3>1. i = i - 0
      BY <1>3
    <3> QED BY <1>3, <1>4, <2>3, <3>1, <1>0, <1>1a, SliceForward
  <2>5. 0 + 2 = 1 + 1 /\ 0 + i + 1 = i + 1 /\ 1 < i + 1 /\ i + 1 <= N + 2 /\ i + 1 \in Int
    BY <1>3
  <2>6. Labels(C, 1, i + 1)
    BY <1>5, <2>5, LabelsWithin
  <2> QED BY <1>7, <2>2, <2>4, <2>5, <2>6, CoversTwo
<1>10. Covers(y, C, i + 1, N + 1)
  <2>1. PICK k \in 1..N : k = i + 1 /\ k # 1 /\ k - 1 = i
    BY <1>3
  <2>2. Bridge(o[i], first) = C[k]
    <3>1. w[i] = o[i]
      BY <1>1, <1>3
    <3>2. w[k] = first
      <4>1. 1 \in 1..l /\ m + 1 - 1 = m
        BY <1>1, <1>3
      <4>2. w[i + 1] = IF flip THEN u[m + 1 - 1] ELSE u[j + 1]
        BY <1>1, <4>1
      <4> QED BY <1>6, <2>1, <4>1, <4>2
    <3>3. Before(w, k) = o[i]
      BY <2>1, <3>1 DEF Before
    <3> QED BY <1>5, <3>2, <3>3
  <2>3. Turning(q, j, m, flip) = Piece(C, i + 2, i + l + 1)
    <3>1. CASE flip = TRUE
      <4>1. IsTurned(q, u, m, j, m, 0, l)
        <5>1. j < m /\ m <= m /\ 0 = m - m /\ l = m - j /\ j \in Nat
          BY <1>1
        <5> QED BY <1>0, <1>1, <1>1a, <5>1 DEF IsTurned, IsSlice
      <4>2. PICK z : z = Reverse(u)
        OBVIOUS
      <4>3. z = [g \in 1..m |-> u[(m - g) + 1]]
        BY <1>1, <4>2 DEF Reverse
      <4>4. z \in Seq(Customers) /\ Len(z) = m
        <5>1. \A g \in 1..m : (m - g) + 1 \in 1..m
          BY <1>1
        <5> QED BY <1>1, <4>3, <5>1
      <4>5. ASSUME NEW g \in 1..l
            PROVE  w[i + g] = z[0 + g]
        <5>1. g \in 1..m /\ (m - g) + 1 = m + 1 - g /\ 0 + g = g
          BY <1>1
        <5>2. w[i + g] = u[m + 1 - g]
          BY <1>1, <3>1
        <5> QED BY <4>3, <5>1, <5>2
      <4>6. Shares(w, i, z, 0, l)
        <5>1. 0 + l <= Len(z) /\ i + l <= Len(w)
          BY <1>1, <1>3, <1>3a, <4>4
        <5> QED BY <1>1, <1>3, <4>4, <4>5, <5>1 DEF Shares
      <4>7. Backward(q, j, m) = Piece(C, i + 2, i + l + 1)
        BY <1>3, <1>4, <4>1, <4>2, <4>6, SliceBackward
      <4> QED BY <3>1, <4>7 DEF Turning
    <3>2. CASE flip = FALSE
      <4>1. Shares(w, i, u, j, l)
        <5>1. j + l <= Len(u) /\ i + l <= Len(w) /\ j \in Nat
          BY <1>1, <1>3, <1>3a
        <5>2. \A g \in 1..l : w[i + g] = u[j + g]
          BY <1>1, <3>2
        <5> QED BY <1>1, <1>3, <5>1, <5>2 DEF Shares
      <4>2. l = m - j /\ j \in Nat
        BY <1>1
      <4>3. Onward(q, j, m) = Piece(C, i + 2, i + l + 1)
        BY <1>1, <1>3, <1>4, <4>1, <4>2, <1>0, <1>1a, SliceForward
      <4> QED BY <3>2, <4>3 DEF Turning
    <3> QED BY <1>1a, <3>1, <3>2
  <2>4. i + 2 = k + 1 /\ i + l + 1 = N + 1 /\ k < N + 1 /\ N + 1 <= N + 2 /\ N + 1 \in Int
    BY <1>3, <2>1
  <2>5. Labels(C, k, N + 1)
    BY <1>5, <2>4, LabelsWithin
  <2>6. Covers(y, C, k, N + 1)
    BY <1>8, <2>2, <2>3, <2>4, <2>5, CoversTwo
  <2> QED BY <2>1, <2>6
<1>11. Covers(<<Bridge(last, Depot)>>, C, N + 1, N + 2)
  <2>1. w[N] = last
    <3>0. m \in Nat /\ l \in Nat /\ l >= 1 /\ j \in Int /\ j + l = m
      BY <1>1, <1>3
    <3>1. l \in 1..l /\ m + 1 - l = j + 1
      BY <3>0
    <3>2. w[i + l] = IF flip THEN u[m + 1 - l] ELSE u[j + l]
      BY <1>1, <3>1
    <3> QED BY <1>1, <1>3, <1>6, <3>1, <3>2
  <2>2. C[N + 1] \in Label
    <3>1. N + 1 \in 1..((N + 2) - 1)
      BY <1>3
    <3> QED BY <1>5, <3>1 DEF Labels
  <2>3. PICK v \in Label : v = Bridge(last, Depot)
    BY <1>5, <2>1, <2>2
  <2>4. PICK g \in Int : g = N + 1
    OBVIOUS
  <2>5. C[g] = v
    BY <1>5, <2>1, <2>3, <2>4
  <2>6. Covers(<<v>>, C, g, g + 1)
    BY <2>5, CoversOne
  <2>7. g + 1 = N + 2
    BY <2>4
  <2> QED BY <2>3, <2>4, <2>6, <2>7
<1>12. Covers((x \o y) \o <<Bridge(last, Depot)>>, C, 1, N + 2)
  <2>1. /\ i + 1 \in Int /\ N + 1 \in Int /\ N + 2 \in Int /\ 1 <= i + 1 /\ i + 1 <= N + 1
        /\ N + 1 <= N + 2 /\ 1 <= N + 1 /\ N + 2 <= N + 2
    BY <1>3
  <2>2. Labels(C, 1, N + 1)
    BY <1>5, <2>1, LabelsWithin
  <2>3. Covers(x \o y, C, 1, N + 1)
    BY <1>9, <1>10, <2>1, <2>2, CoversBoth
  <2> QED BY <1>5, <1>11, <2>1, <2>3, CoversBoth
<1>13. SlicesLabel(Exchange(r, i, q, j, m, flip)) = JoinAll(FlattenSeq(<<x, y>>) \o <<Bridge(last, Depot)>>)
  <2>1. o = profiles[r].customers /\ u = profiles[q].customers
    BY <1>0, <1>1a, ProfileIs
  <2> QED BY <1>6, <1>7, <1>8, <1>1a, <2>1, ExchangeParts
<1>14. FlattenSeq(<<x, y>>) = x \o y
  BY <1>9, <1>10, FlattenTwo DEF Covers
<1>15. Built(w) = Piece(C, 1, N + 2)
  BY <1>1, <1>3, <1>3a, <1>4, BuiltIs
<1> QED BY <1>12, <1>13, <1>14, <1>15 DEF Covers

-----------------------------------------------------------------------------
(* The incumbents one after the other.                                     *)

FreeFor(plans, i, used) ==
  {q \in DOMAIN profiles \ used : profiles[q].visits = plans[i].visits /\ profiles[q].customers = plans[i].customers}

TakenStep(plans, acc, i) ==
  IF FreeFor(plans, i, acc.used) = {} THEN [acc EXCEPT !.of[i] = 0]
  ELSE [acc EXCEPT !.of[i] = Min(FreeFor(plans, i, acc.used)),
                   !.used = @ \cup {Min(FreeFor(plans, i, acc.used))}]

NoneTaken(plans) == [used |-> {}, of |-> [i \in DOMAIN plans |-> 0]]

SolvesTaken(f, plans, seq) ==
  f = [n \in 0..Len(seq) |->
         IF n = 0 THEN NoneTaken(plans) ELSE With(f[n - 1], LAMBDA acc : TakenStep(plans, acc, seq[n]))]

TakenOf(plans, seq) == (CHOOSE f : SolvesTaken(f, plans, seq))[Len(seq)]

\* Taken as the recursive function it is.
LEMMA TakenChosen ==
  ASSUME NEW plans, NEW n
  PROVE  Taken(plans, n) = TakenOf(plans, [i \in DOMAIN plans |-> i]).of[n]
  BY DEF Taken, Folded, SolvesTaken, TakenOf, TakenStep, FreeFor, NoneTaken

\* What is taken over, if anything, has the visits and customers of the route.
FitsFor(plans, i, q) ==
  q # 0 => /\ q \in DOMAIN profiles
           /\ profiles[q].visits = plans[i].visits /\ profiles[q].customers = plans[i].customers

Takings(plans) ==
  {acc \in [used : SUBSET (DOMAIN profiles), of : [DOMAIN plans -> Int]] :
     \A i \in DOMAIN plans : FitsFor(plans, i, acc.of[i])}

\* The next route takes over a fitting profile or none.
LEMMA TakenStepFits ==
  ASSUME NEW plans, NEW i \in DOMAIN plans, NEW acc \in Takings(plans), DOMAIN profiles \subseteq Nat
  PROVE  TakenStep(plans, acc, i) \in Takings(plans)
<1>1. PICK used \in SUBSET (DOMAIN profiles), of \in [DOMAIN plans -> Int] :
        acc = [used |-> used, of |-> of] /\ \A k \in DOMAIN plans : FitsFor(plans, k, of[k])
  BY DEF Takings
<1>2. PICK F : F = FreeFor(plans, i, used)
  OBVIOUS
<1>3. CASE F = {}
  <2>1. TakenStep(plans, acc, i) = [used |-> used, of |-> [of EXCEPT ![i] = 0]]
    BY <1>1, <1>2, <1>3 DEF TakenStep
  <2>2. PICK new : new = [of EXCEPT ![i] = 0]
    OBVIOUS
  <2>3. new \in [DOMAIN plans -> Int] /\ \A k \in DOMAIN plans : new[k] = of[k] \/ new[k] = 0
    BY <2>2
  <2>4. \A k \in DOMAIN plans : FitsFor(plans, k, new[k])
    BY <1>1, <2>3 DEF FitsFor
  <2> QED BY <2>1, <2>2, <2>3, <2>4 DEF Takings
<1>4. CASE F # {}
  <2>1. F \in SUBSET Nat /\ F \subseteq DOMAIN profiles
    BY <1>2 DEF FreeFor
  <2>2. PICK m : m = Min(F)
    OBVIOUS
  <2>3. m \in F
    <3>1. PICK s \in F : \A k \in F : s <= k
      BY <1>4, <2>1, SmallestNumber
    <3> QED BY <2>2, <3>1 DEF Min
  <2>4. TakenStep(plans, acc, i) = [used |-> used \cup {m}, of |-> [of EXCEPT ![i] = m]]
    BY <1>1, <1>2, <1>4, <2>2 DEF TakenStep
  <2>5. PICK new : new = [of EXCEPT ![i] = m]
    OBVIOUS
  <2>6. m \in Int
    BY <2>1, <2>3
  <2>7. new \in [DOMAIN plans -> Int] /\ new[i] = m /\ \A k \in DOMAIN plans : k # i => new[k] = of[k]
    BY <2>5, <2>6
  <2>8. FitsFor(plans, i, m)
    BY <1>2, <2>3 DEF FreeFor, FitsFor
  <2>9. \A k \in DOMAIN plans : FitsFor(plans, k, new[k])
    BY <1>1, <2>7, <2>8
  <2>10. used \cup {m} \in SUBSET (DOMAIN profiles)
    BY <2>1, <2>3
  <2> QED BY <2>4, <2>5, <2>7, <2>9, <2>10 DEF Takings
<1> QED BY <1>3, <1>4

\* What a route takes over fits it.
LEMMA TakenFits ==
  ASSUME Scored, NEW plans, Sound(plans), NEW route \in DOMAIN plans
  PROVE  FitsFor(plans, route, Taken(plans, route))
<1>1. PICK n \in Nat : DOMAIN plans = 1..n
  <2>1. PICK R : R = [customers : Seq(Customers), gaps : Seq(Seq(Stations)), visits : Seq(Nodes)]
    OBVIOUS
  <2>2. plans \in Seq(R)
    BY <2>1 DEF Sound
  <2> QED BY <2>2
<1>2. DOMAIN profiles \subseteq Nat
  <2>1. DOMAIN profiles = DOMAIN incumbent /\ Sound(incumbent)
    BY DEF Scored
  <2> QED BY <2>1, SoundParts
<1>3. PICK V : V = Takings(plans)
  OBVIOUS
<1>4. PICK step : step = [k \in 1..n |-> [acc \in V |-> TakenStep(plans, acc, k)]]
  OBVIOUS
<1>5. StepsInto(step, 1..n, V)
  <2>1. ASSUME NEW k \in 1..n, NEW acc \in V
        PROVE  TakenStep(plans, acc, k) \in V
    BY <1>1, <1>2, <1>3, TakenStepFits
  <2> QED BY <1>4, <2>1 DEF StepsInto
<1>6. PICK base : base = NoneTaken(plans)
  OBVIOUS
<1>7. base \in V
  <2>1. PICK of : of = [i \in DOMAIN plans |-> 0]
    OBVIOUS
  <2>2. of \in [DOMAIN plans -> Int] /\ \A i \in DOMAIN plans : FitsFor(plans, i, of[i])
    BY <2>1 DEF FitsFor
  <2> QED BY <1>3, <1>6, <2>1, <2>2 DEF NoneTaken, Takings
<1>8. PICK p \in [0..n -> V] : Running(p, n, V, base, step)
  BY <1>5, <1>7, RunExists
<1>9. ASSUME NEW k \in 1..n
      PROVE  p[k] = TakenStep(plans, p[k - 1], k)
  <2>1. k - 1 \in 0..n
    OBVIOUS
  <2>2. p[k - 1] \in V /\ p[k] = step[k][p[k - 1]]
    BY <1>8, <2>1 DEF Running
  <2> QED BY <1>4, <2>1, <2>2
<1>10. PICK seq : seq = [i \in DOMAIN plans |-> i]
  OBVIOUS
<1>11. Len(seq) = n /\ \A k \in 1..n : seq[k] = k
  BY <1>1, <1>10
<1>12. SolvesTaken(p, plans, seq)
  <2>1. p[0] = NoneTaken(plans)
    BY <1>6, <1>8 DEF Running
  <2>2. p = [k \in 0..n |-> IF k = 0 THEN NoneTaken(plans) ELSE TakenStep(plans, p[k - 1], seq[k])]
    BY <1>8, <1>9, <1>11, <2>1
  <2> QED BY <1>11, <2>2 DEF SolvesTaken, With
<1>13. PICK f : f = CHOOSE g : SolvesTaken(g, plans, seq)
  OBVIOUS
<1>14. SolvesTaken(f, plans, seq)
  BY <1>12, <1>13
<1>15. f[0] = base /\ \A k \in 1..n : f[k] = TakenStep(plans, f[k - 1], k)
  <2>1. f = [k \in 0..n |-> IF k = 0 THEN NoneTaken(plans) ELSE TakenStep(plans, f[k - 1], seq[k])]
    BY <1>11, <1>14 DEF SolvesTaken, With
  <2>2. 0 \in 0..n /\ \A k \in 1..n : k \in 0..n /\ k # 0
    OBVIOUS
  <2>3. f[0] = NoneTaken(plans)
    BY <2>1, <2>2
  <2>4. \A k \in 1..n : f[k] = TakenStep(plans, f[k - 1], seq[k])
    BY <2>1, <2>2
  <2> QED BY <1>6, <1>11, <2>3, <2>4
<1>16. Running(f, n, V, base, step)
  <2>1. \A k \in 1..n : f[k - 1] \in V => f[k] = step[k][f[k - 1]]
    BY <1>4, <1>15
  <2> QED BY <1>5, <1>7, <1>15, <2>1, FoldedRuns
<1>17. f[n] \in V
  <2>1. n \in 0..n
    OBVIOUS
  <2> QED BY <1>16, <2>1 DEF Running
<1>18. Taken(plans, route) = f[n].of[route]
  <2>1. TakenOf(plans, seq) = f[n]
    BY <1>11, <1>13 DEF TakenOf
  <2> QED BY <1>10, <2>1, TakenChosen
<1> QED BY <1>3, <1>17, <1>18 DEF Takings

\* The profile that is kept is that of the new route.
LEMMA KeptIsNew ==
  ASSUME Scored, NEW plans, Sound(plans), NEW i \in DOMAIN plans, NEW q, q # 0, FitsFor(plans, i, q)
  PROVE  profiles[q] = Profile(plans[i])
<1>1. /\ q \in DOMAIN incumbent /\ profiles[q].visits = plans[i].visits
      /\ profiles[q].customers = plans[i].customers
  BY DEF FitsFor, Scored
<1>2. PICK old, new : old = incumbent[q] /\ new = plans[i]
  OBVIOUS
<1>3. profiles[q].visits = old.visits /\ profiles[q].customers = old.customers
  BY <1>1, <1>2, ProfileIs
<1>4. old.gaps = GapsOf(old.visits) /\ new.gaps = GapsOf(new.visits)
  BY <1>1, <1>2 DEF Scored, Sound
<1>5. old.visits = new.visits /\ old.customers = new.customers /\ old.gaps = new.gaps
  BY <1>1, <1>2, <1>3, <1>4
<1>6. Profile(old) = Profile(new)
  BY <1>5 DEF Profile
<1>7. profiles[q] = Profile(old)
  BY <1>1, <1>2 DEF Scored
<1> QED BY <1>2, <1>6, <1>7

\* Every incumbent the scorer is given is sound.
LEMMA SolutionsSound ==
  ASSUME NEW solution \in Solutions
  PROVE  Sound(solution)
  BY SolutionsType DEF Sound

\* After a reset the scorer keeps what is of the new incumbent.
LEMMA ResetKeeps ==
  ASSUME Scored, NEW solution \in Solutions, Reset(solution)
  PROVE  Scored'
<1>1. Sound(solution)
  BY SolutionsSound
<1>2. ASSUME NEW i \in DOMAIN solution
      PROVE  (IF Taken(solution, i) = 0 THEN Profile(solution[i]) ELSE profiles[Taken(solution, i)])
               = Profile(solution[i])
  <2>1. PICK q : q = Taken(solution, i)
    OBVIOUS
  <2>2. FitsFor(solution, i, q)
    BY <1>1, <2>1, TakenFits
  <2>3. q # 0 => profiles[q] = Profile(solution[i])
    BY <1>1, <2>2, KeptIsNew
  <2> QED BY <2>1, <2>3
<1>3. profiles' = [i \in DOMAIN solution |-> Profile(solution[i])]
  BY <1>2 DEF Reset
<1>4. incumbent' = solution /\ overrides' = OverridesOf(GapMap(solution))
  BY DEF Reset
<1> QED BY <1>1, <1>3, <1>4 DEF Scored

\* A scorer that keeps what is of its incumbent answers what the search would build.
LEMMA ScoredAnswers ==
  ASSUME Scored
  PROVE  FragmentsScoredTrue
<1>1. SequencesScoredTrue
  BY OrdersType, SequenceScored DEF SequencesScoredTrue
<1>2. ASSUME NEW r \in DOMAIN incumbent,
             NEW c \in Customers \ UNION {Range(incumbent[i].customers) : i \in DOMAIN incumbent},
             NEW p \in 0..Len(incumbent[r].customers)
      PROVE  InsertedLabel(r, p, c) = Built(InsertAt(incumbent[r].customers, p + 1, c))
  BY InsertionScored
<1>3. ASSUME NEW r \in DOMAIN incumbent, NEW q \in DOMAIN incumbent,
             NEW i \in 1..Len(incumbent[r].customers), NEW j \in 0..(Len(incumbent[q].customers) - 1),
             NEW flip \in BOOLEAN
      PROVE  LET tail == SubSeq(incumbent[q].customers, j + 1, Len(incumbent[q].customers))
             IN r # q =>
                SlicesLabel(<<[route |-> r, begin |-> 0, end |-> i, reversed |-> FALSE],
                              [route |-> q, begin |-> j, end |-> Len(incumbent[q].customers),
                               reversed |-> flip]>>)
                  = Built(SubSeq(incumbent[r].customers, 1, i) \o (IF flip THEN Reverse(tail) ELSE tail))
  <2>1. PICK o, u : o = incumbent[r].customers /\ u = incumbent[q].customers
    OBVIOUS
  <2>2. o \in Seq(Customers) /\ u \in Seq(Customers)
    BY <2>1, SoundParts DEF Scored, IsRoute
  <2>3. PICK m, l, tail : m = Len(u) /\ l = Len(u) - j /\ tail = SubSeq(u, j + 1, Len(u))
    OBVIOUS
  <2>4. i \in 1..Len(o) /\ j \in 0..(Len(u) - 1)
    BY <1>3, <2>1
  <2>5. PICK w : w = SubSeq(o, 1, i) \o (IF flip THEN Reverse(tail) ELSE tail)
    OBVIOUS
  <2>6. IsExchange(w, o, i, u, m, j, l, flip)
    BY <2>2, <2>3, <2>4, <2>5, Exchanged
  <2>7. SlicesLabel(Exchange(r, i, q, j, m, flip)) = Built(w)
    <3>1. IsBetween(r, q, w, i, m, j, l, flip)
      BY <2>1, <2>6 DEF IsBetween
    <3> QED BY <3>1, ExchangeScored
  <2> QED BY <2>1, <2>3, <2>5, <2>7 DEF Exchange
<1>4. MovesScoredTrue
  BY <1>2, <1>3 DEF MovesScoredTrue
<1> QED BY <1>1, <1>4 DEF FragmentsScoredTrue

\* What RouteSequenceScorer answers about an order, an insertion or an exchange
\* is the label of the route the search would build, after any sequence of
\* incumbents.
THEOREM FragmentsTrue == JoinSpec => []FragmentsScoredTrue
<1>1. JoinInit => Scored
  BY SolutionsSound DEF JoinInit, Scored
<1>2. Scored /\ [JoinNext]_joinVars => Scored'
  <2> SUFFICES ASSUME Scored, [JoinNext]_joinVars
               PROVE  Scored'
    OBVIOUS
  <2>1. CASE JoinNext
    BY <2>1, ResetKeeps DEF JoinNext
  <2>2. CASE UNCHANGED joinVars
    BY <2>2 DEF Scored, joinVars
  <2> QED BY <2>1, <2>2
<1>3. Scored => FragmentsScoredTrue
  BY ScoredAnswers
<1> QED BY <1>1, <1>2, <1>3, PTL DEF JoinSpec
=============================================================================
