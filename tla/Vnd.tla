--------------------------------- MODULE Vnd ---------------------------------
(***************************************************************************)
(* Variable neighbourhood descent (search.cpp, improve): the three         *)
(* customer neighbourhoods, the replacement of one gap's station path, and *)
(* the budget of path proposals a cooperative call owns, one token of      *)
(* which is kept for the first opened route or for the stagnation.         *)
(*                                                                         *)
(* Solutions are the nodes of a graph: a node has its generalized cost,    *)
(* its number of routes and of gaps, the best move of each customer        *)
(* neighbourhood, and the solutions one catalogue path away in each gap.   *)
(***************************************************************************)
EXTENDS Integers, FiniteSets, FiniteSetsExt

CONSTANTS
  Graphs,   \* sequences of [cost, routes, gaps, move, path]
  Profiles,    \* of "cooperative", "fixed", "adaptive"
  Kappas    \* removal counts of the perturbation before the descent

Customer == 1 .. 3   \* neighbourhoods: Swap, Relocate, TwoOptStar
PathNeighborhood == 4
NoCandidate == 0

ASSUME ProfilesAssumption ==
  Profiles \subseteq {"cooperative", "fixed", "adaptive"} /\ Kappas \subseteq Nat

ASSUME GraphsAreSolutions ==
  \A graph \in Graphs : 1 \in DOMAIN graph /\ \A s \in DOMAIN graph :
    /\ graph[s].cost \in Nat /\ graph[s].gaps \in Nat
    /\ \A n \in Customer : graph[s].move[n] \in DOMAIN graph \cup {NoCandidate}
    /\ \A g \in 1 .. graph[s].gaps : graph[s].path[g] \subseteq DOMAIN graph

VARIABLES
  graph, profile, kappa,
  pc, current,
  budget,     \* cooperative.remaining: proposals left in this call
  held,       \* opening_reserve.held
  drawn,      \* the gaps in front of next_gap: proposed since the last move
  phase,      \* which probe of the path neighbourhood is running
  allowance,  \* its proposals left
  active,     \* the remaining-neighbourhood mask (adaptive: the stage)
  late        \* the deadline has passed

descentVars == <<graph, profile, kappa, pc, current, budget, held, drawn, phase,
          allowance, active, late>>
question == <<graph, profile, kappa>>
-----------------------------------------------------------------------------
At(s) == graph[s]
Gaps(s) == 1 .. At(s).gaps

\* min(entry gaps, 2 kappa), written without the doubling.
Lifetime(gaps, k) ==
  LET entry == Min({k, gaps}) IN entry + Min({k, gaps - entry})

\* Mutant: the token kept back is offered like the others.
OrdinaryAllowanceAll(left, reserved) == left

OrdinaryAllowance(left, reserved) ==
  IF reserved /\ left # 0 THEN left - 1 ELSE left

ActiveNeighborhoods(left, reserved) ==
  IF profile = "cooperative" /\ OrdinaryAllowance(left, reserved) = 0
  THEN Customer ELSE Customer \cup {PathNeighborhood}

\* Mutant: a candidate of the same cost is accepted too.
ImprovesOrEqual(t) == t # NoCandidate /\ At(t).cost <= At(current).cost

Improves(t) == t # NoCandidate /\ At(t).cost < At(current).cost

\* accept: the layout changed, so every gap may be proposed again.
AcceptMove(t) ==
  /\ Improves(t)
  /\ current' = t
  /\ drawn' = {}

Probe(kind, count) == pc' = "propose" /\ phase' = kind /\ allowance' = count

DescentInit ==
  /\ graph \in Graphs /\ profile \in Profiles
  /\ kappa \in (IF profile = "cooperative" THEN Kappas ELSE {0})
  /\ pc = "start" /\ current = 1
  /\ budget = 0 /\ held = FALSE /\ drawn = {}
  /\ phase = "none" /\ allowance = 0 /\ active = {} /\ late = FALSE
-----------------------------------------------------------------------------
(* Cooperative calls.  Entry is attempted exactly once.                    *)

BackToSelect == pc' = "select" /\ phase' = "none" /\ allowance' = 0

Enter ==
  LET total == Lifetime(At(current).gaps, kappa)
      entry == Min({kappa, At(current).gaps, OrdinaryAllowance(total, total # 0)})
  IN /\ pc = "start" /\ profile = "cooperative"
     /\ budget' = total
     /\ held' = (total # 0)
     /\ IF late
          THEN BackToSelect /\ active' = {}
          ELSE Probe("entry", entry) /\ UNCHANGED active
     /\ UNCHANGED <<question, current, drawn, late>>

\* One proposal: an unvisited gap and one of its other paths, or none.
Proposal(g, t) ==
  /\ pc = "propose" /\ ~late
  /\ allowance > 0 /\ budget > 0
  /\ g \in Gaps(current) \ drawn
  /\ t \in At(current).path[g] \/ (At(current).path[g] = {} /\ t = NoCandidate)
  /\ budget' = budget - 1
  /\ allowance' = allowance - 1

\* A null or a non-improving proposal retires its gap.
ProposeInVain(g, t) ==
  /\ Proposal(g, t)
  /\ ~Improves(t)
  /\ drawn' = drawn \cup {g}
  /\ UNCHANGED <<question, pc, current, held, phase, active, late>>

\* The first improvement is taken; every neighbourhood is open again.
ProposeWell(g, t) ==
  /\ Proposal(g, t)
  /\ AcceptMove(t)
  /\ pc' = "select" /\ phase' = "none"
  /\ active' = ActiveNeighborhoods(budget - 1, held)
  /\ UNCHANGED <<question, held, late>>

\* Mutant: a failed probe after an opened route closes the path neighbourhood.
AfterFailureOfAll == active \ {PathNeighborhood}

AfterFailure ==
  IF phase = "ordinary" THEN active \ {PathNeighborhood}
  ELSE ActiveNeighborhoods(budget, held)

\* The probe ends without a candidate: no proposal or no gap left, or late.
\* A failed probe at stagnation ends the descent.
ProbeFails ==
  /\ pc = "propose"
  /\ late \/ allowance = 0 \/ budget = 0 \/ drawn = Gaps(current)
  /\ pc' = IF phase = "tail" THEN "done" ELSE "select"
  /\ phase' = "none" /\ allowance' = 0
  /\ active' = AfterFailure
  /\ UNCHANGED <<question, current, budget, held, drawn, late>>
-----------------------------------------------------------------------------
(* The loop over the remaining neighbourhoods.                             *)

StartFixed ==
  /\ pc = "start" /\ profile = "fixed"
  /\ pc' = "select"
  /\ active' = ActiveNeighborhoods(0, FALSE)
  /\ UNCHANGED <<question, current, budget, held, drawn, phase, allowance, late>>

\* select_active_neighborhood draws; fixed-order calls take the first.
Chosen(n) == n \in active /\ (profile = "fixed" => n = Min(active))

Opens(t) == At(t).routes > At(current).routes

\* A customer neighbourhood improves.  The first opened route releases the
\* token and is followed by one path proposal.
ImproveBy(n) ==
  LET t == At(current).move[n]
      opening == held /\ Opens(t)
  IN /\ pc = "select" /\ ~late
     /\ n \in Customer /\ Chosen(n)
     /\ AcceptMove(t)
     /\ held' = (held /\ ~Opens(t))
     /\ active' = ActiveNeighborhoods(budget, held)
     /\ IF opening THEN Probe("opening", 1) ELSE UNCHANGED <<pc, phase, allowance>>
     /\ UNCHANGED <<question, budget, late>>

Exhaust(n) ==
  /\ pc = "select" /\ ~late
  /\ n \in Customer /\ Chosen(n)
  /\ ~Improves(At(current).move[n])
  /\ active' = active \ {n}
  /\ UNCHANGED <<question, pc, current, budget, held, drawn, phase, allowance, late>>

OrdinaryProbe ==
  /\ pc = "select" /\ ~late /\ profile = "cooperative"
  /\ Chosen(PathNeighborhood)
  /\ Probe("ordinary", OrdinaryAllowance(budget, held))
  /\ UNCHANGED <<question, current, budget, held, drawn, active, late>>

\* replace_path_neighbor: one path of one gap, owing nothing to a budget.
ReplaceOnce(g, t) ==
  /\ pc = "select" /\ ~late /\ profile = "fixed"
  /\ Chosen(PathNeighborhood)
  /\ g \in Gaps(current)
  /\ t \in At(current).path[g] \/ (At(current).path[g] = {} /\ t = NoCandidate)
  /\ IF Improves(t)
       THEN AcceptMove(t) /\ active' = ActiveNeighborhoods(0, FALSE)
       ELSE active' = active \ {PathNeighborhood} /\ UNCHANGED <<current, drawn>>
  /\ UNCHANGED <<question, pc, budget, held, phase, allowance, late>>

\* No route was opened: the token is spent once at stagnation.
Stagnate ==
  /\ pc = "select" /\ ~late
  /\ active = {} /\ held
  /\ held' = FALSE
  /\ Probe("tail", 1)
  /\ UNCHANGED <<question, current, budget, drawn, active, late>>

Leave ==
  /\ pc = "select"
  /\ late \/ (active = {} /\ ~held)
  /\ pc' = "done"
  /\ UNCHANGED <<question, current, budget, held, drawn, phase, allowance,
                 active, late>>
-----------------------------------------------------------------------------
(* The adaptive profile exhausts each customer neighbourhood in turn, may  *)
(* repair the paths it touched, and ends with a pass over every gap.       *)

StartAdaptive ==
  /\ pc = "start" /\ profile = "adaptive"
  /\ pc' = "stage"
  /\ active' = Customer
  /\ UNCHANGED <<question, current, budget, held, drawn, phase, allowance, late>>

StageImprove ==
  /\ pc = "stage" /\ ~late /\ active # {}
  /\ AcceptMove(At(current).move[Min(active)])
  /\ UNCHANGED <<question, pc, budget, held, phase, allowance, active, late>>

\* The coin: inserted_replace_path or straight on to the next neighbourhood.
StageEnds ==
  /\ pc = "stage" /\ ~late /\ active # {}
  /\ ~Improves(At(current).move[Min(active)])
  /\ pc' \in {"inserted", "stage"}
  /\ active' = active \ {Min(active)}
  /\ UNCHANGED <<question, current, budget, held, drawn, phase, allowance, late>>

\* The path stages replace gaps, each replacement an improvement.
PathImproves ==
  /\ pc \in {"inserted", "final"} /\ ~late
  /\ \E g \in Gaps(current) : \E t \in At(current).path[g] : AcceptMove(t)
  /\ UNCHANGED <<question, pc, budget, held, phase, allowance, active, late>>

PathStageEnds ==
  /\ pc \in {"inserted", "final"}
  /\ pc' = IF pc = "inserted" THEN "stage" ELSE "done"
  /\ UNCHANGED <<question, current, budget, held, drawn, phase, allowance,
                 active, late>>

StagesEnd ==
  /\ pc = "stage"
  /\ late \/ active = {}
  /\ pc' = IF late THEN "done" ELSE "final"
  /\ UNCHANGED <<question, current, budget, held, drawn, phase, allowance,
                 active, late>>
-----------------------------------------------------------------------------
Expire ==
  /\ ~late /\ pc # "done"
  /\ late' = TRUE
  /\ UNCHANGED <<question, pc, current, budget, held, drawn, phase, allowance,
                 active>>

Advance ==
  \/ Enter
  \/ \E g \in Gaps(current) : \E t \in DOMAIN graph \cup {NoCandidate} :
       ProposeInVain(g, t) \/ ProposeWell(g, t) \/ ReplaceOnce(g, t)
  \/ ProbeFails
  \/ StartFixed
  \/ \E n \in Customer : ImproveBy(n) \/ Exhaust(n)
  \/ OrdinaryProbe \/ Stagnate \/ Leave
  \/ StartAdaptive \/ StageImprove \/ StageEnds
  \/ PathImproves \/ PathStageEnds \/ StagesEnd

DescentNext == Advance \/ Expire

\* The descent runs in one thread; the deadline may never pass.
DescentSpec == DescentInit /\ [][DescentNext]_descentVars /\ WF_descentVars(Advance)
-----------------------------------------------------------------------------
(* The token kept back is always backed by a proposal that is still in the *)
(* budget, and a running probe never has more proposals than the budget    *)
(* without that token (opening_reserve in improve): no probe spends the    *)
(* token of the opening.                                                   *)
ReserveBacked ==
  /\ held => budget > 0
  /\ pc = "propose" => allowance <= OrdinaryAllowance(budget, held)

(* A descent that was not cut off ends in a solution no customer           *)
(* neighbourhood improves, and a cooperative one has spent its proposals   *)
(* or proposed every gap of that solution (the remaining mask, the reserve *)
(* and the tail probe of improve).                                         *)
EndsExhausted ==
  pc = "done" /\ ~late /\ profile # "adaptive" =>
    /\ \A n \in Customer : ~Improves(At(current).move[n])
    /\ profile = "cooperative" => budget = 0 \/ drawn = Gaps(current)

(* The descent ends, deadline or not: moves are strict improvements and    *)
(* the budget is never refilled (the while loop of improve).               *)
Terminates == <>(pc = "done")
=============================================================================
