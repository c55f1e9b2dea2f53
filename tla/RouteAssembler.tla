--------------------------- MODULE RouteAssembler ---------------------------
(***************************************************************************)
(* The route assembler at work on the route pool: assemble_routes and the  *)
(* record keeping of IlsSpSolver (src/src/solver.cpp) composed with        *)
(* RoutePool.                                                              *)
(*                                                                         *)
(* A round admits the routes of the descent's solution, reprices the       *)
(* backup pool, solves the set-partitioning model over the main columns    *)
(* from the best available start, feeds the duals of the linear relaxation *)
(* back, lets FRVCP improve the selected routes one by one and offers the  *)
(* result as a record, which is then protected in the pool; a record with  *)
(* more routes than the pool has room for ends the run by an exception.    *)
(* What the solver returns is any partition no dearer than its start, or   *)
(* none.  When a round is a set-partitioning round is SpSchedule's         *)
(* subject; here any round can be one.                                     *)
(*                                                                         *)
(* A definition marked "Mutant" is a mistaken form of the one after it,    *)
(* used by nothing, to see that a property notices the mistake.            *)
(***************************************************************************)
EXTENDS Integers, FiniteSets, FiniteSetsExt, Bags

CONSTANTS
  Column, Duals, Capacity, Tol, Identity, KeepEvicted,
  Customer,
  Local,           \* descent results, records with plans (the feasible routes)
                   \* and feasible
  Refinement,      \* columns FRVCP can return
  Protect,         \* protect_best_partition
  RepriceAfterLp,  \* reprice_after_lp
  RecordPolicy     \* continuation_policy is Record

VARIABLES
  main, backup, coverageCosts, protected, duals, dualsValid,
  phase, todo, update, promise,  \* the pool's, see RoutePool
  stage,           \* where the round is
  late,            \* the deadline has passed
  local,
  routes,          \* the routes of local still to be admitted, then the
                   \* selected columns still to be optimised
  best,            \* the record, a set of columns, {} when there is none
  previous,        \* previous_sp_customer_sets_
  selected,        \* partition.selected_columns
  assembled        \* the solution being assembled, {} when there is none

poolVars == <<main, backup, coverageCosts, protected, duals, dualsValid,
              phase, todo, update, promise>>
roundVars == <<late, local, routes, best, previous, selected, assembled>>
vars == <<poolVars, stage, roundVars>>

Cover(c) == {c.seq[i] : i \in DOMAIN c.seq}
Covers(S) == {Cover(c) : c \in S}

Cost(S) == MapThenSumSet(LAMBDA c : c.cost, S)

\* validate_partition: every customer on exactly one route.
IsPartition(S) ==
  /\ UNION Covers(S) = Customer
  /\ \A c, d \in S : c # d => Cover(c) \cap Cover(d) = {}

\* The descent's solution is complete when it is feasible.
ASSUME LocalAssumption ==
  \A l \in Local : l.plans \subseteq Column /\ (l.feasible => IsPartition(l.plans))

\* Every solution that can become the record.
Candidates == {S \in SUBSET (Column \cup Refinement) : IsPartition(S)}

\* RoutePool with what is proved about it.
Pool == INSTANCE RoutePoolProofs WITH Column <- Column \cup Refinement,
                                      Partition <- Candidates

\* What RoutePool assumes of its constants holds of these.
ASSUME PoolAssumption ==
  /\ Pool!CapacityAssumption /\ Pool!ToleranceAssumption
  /\ Pool!ColumnAssumption /\ Pool!RankAssumption /\ Pool!DualsAssumption
  /\ Pool!PartitionAssumption

ASSUME CustomerAssumption == IsFiniteSet(Customer)

\* A route without customers never becomes a column.
ASSUME RouteAssumption ==
  /\ Tol \in Nat
  /\ \A c \in Column \cup Refinement :
       /\ c.cost \in Int
       /\ Cover(c) # {} /\ Cover(c) \subseteq Customer

-----------------------------------------------------------------------------
(* Warm starts of the model.                                               *)

Cheapest(cover) ==
  CHOOSE c \in main : /\ Cover(c) = cover
                      /\ \A d \in main : Cover(d) = cover => c.cost <= d.cost

\* make_sp_mip_start: the cheapest main column of every customer set of a
\* known partition, or no start when one of the sets has no column.
Start(covers) ==
  IF covers # {} /\ covers \subseteq Covers(main)
    THEN {Cheapest(k) : k \in covers} ELSE {}

\* consider_mip_start: the first start stays unless a later one is cheaper.
Better(start, other) ==
  IF other # {} /\ (start = {} \/ Cost(other) < Cost(start) - Tol)
    THEN other ELSE start

MipStart ==
  Better(Better(Start(previous), Start(Covers(best))),
         Start(IF local.feasible THEN Covers(local.plans) ELSE {}))

MainPartitions == {S \in SUBSET main : IsPartition(S)}

\* The model can stop with any incumbent, at worst its start; SpModel says
\* when it stops without one though it was given a start.
Incumbents ==
  {S \in MainPartitions : MipStart = {} \/ Cost(S) <= Cost(MipStart)}

-----------------------------------------------------------------------------
(* A round.                                                                *)

Init ==
  /\ Pool!Init
  /\ stage = "generate" /\ late = FALSE
  /\ local = [plans |-> {}, feasible |-> FALSE]
  /\ routes = {} /\ best = {} /\ previous = {} /\ selected = {} /\ assembled = {}

DeadlinePasses ==
  /\ ~late
  /\ late' = TRUE
  /\ UNCHANGED <<poolVars, stage, local, routes, best, previous, selected, assembled>>

Generate ==
  /\ stage = "generate" /\ ~late
  /\ local' \in Local
  /\ routes' = local'.plans
  /\ stage' = "admit"
  /\ UNCHANGED <<poolVars, late, best, previous, selected, assembled>>

AdmitRoute ==
  /\ stage = "admit"
  /\ \E c \in routes : Pool!AdmitColumn(c) /\ routes' = routes \ {c}
  /\ UNCHANGED <<stage, late, local, best, previous, selected, assembled>>

\* An ordinary round: the record policy passes the descent's solution through.
OrdinaryRound ==
  /\ stage = "admit" /\ routes = {}
  /\ assembled' = IF RecordPolicy /\ local.feasible THEN local.plans ELSE {}
  /\ stage' = "record"
  /\ UNCHANGED <<poolVars, late, local, routes, best, previous, selected>>

\* reprice_backup returns at once while there are no duals.
StartReprice(next) ==
  /\ IF dualsValid THEN Pool!BeginReprice ELSE UNCHANGED poolVars
  /\ stage' = next
  /\ UNCHANGED roundVars

SpRound ==
  /\ stage = "admit" /\ routes = {}
  /\ StartReprice("model")

LeaveRound ==
  /\ stage = "model" /\ phase = "idle"
  /\ late \/ UNION Covers(main) # Customer
  /\ stage' = "generate"
  /\ local' = [plans |-> {}, feasible |-> FALSE]
  /\ UNCHANGED <<poolVars, late, routes, best, previous, selected, assembled>>

SolveModel ==
  /\ stage = "model" /\ phase = "idle"
  /\ ~late /\ UNION Covers(main) = Customer
  /\ selected' \in Incumbents \cup {{}}
  /\ previous' = IF selected' = {} THEN previous ELSE Covers(selected')
  /\ assembled' = selected'
  /\ stage' = "relax"
  /\ UNCHANGED <<poolVars, late, local, routes, best>>

\* The relaxation solved to optimality replaces the duals; otherwise, and when
\* the deadline has passed, the old ones stay.
FeedBackDuals ==
  /\ stage = "relax" /\ ~late
  /\ \E d \in Duals : Pool!UpdateDuals(d)
  /\ stage' = IF RepriceAfterLp THEN "repriceDuals" ELSE "refine"
  /\ routes' = selected
  /\ UNCHANGED <<late, local, best, previous, selected, assembled>>

\* Mutant: duals that were not confirmed are thrown away.
ForgetDuals ==
  /\ stage = "relax"
  /\ dualsValid' = FALSE
  /\ stage' = IF late THEN "record" ELSE "refine"
  /\ routes' = IF late THEN {} ELSE selected
  /\ UNCHANGED <<main, backup, coverageCosts, protected, duals, phase, todo,
                 update, promise, late, local, best, previous,
                 selected, assembled>>

KeepDuals ==
  /\ stage = "relax"
  /\ stage' = IF late THEN "record" ELSE "refine"
  /\ routes' = IF late THEN {} ELSE selected
  /\ UNCHANGED <<poolVars, late, local, best, previous, selected, assembled>>

RepriceDuals ==
  /\ stage = "repriceDuals"
  /\ StartReprice("refine")

\* FRVCP on one selected route: the answer keeps the customer order, and
\* replaces the route when it is cheaper, or exact and as cheap.
Refines(r, c) ==
  /\ r.seq = c.seq
  /\ \/ r.cost < c.cost - Tol
     \/ r.exact /\ ~c.exact /\ r.cost <= c.cost + Tol

RefineRoute ==
  /\ stage = "refine" /\ phase = "idle" /\ ~late
  /\ \E c \in routes, r \in Refinement :
       /\ Refines(r, c)
       /\ assembled' = (assembled \ {c}) \cup {r}
       /\ Pool!AdmitColumn(r)
       /\ routes' = routes \ {c}
  /\ UNCHANGED <<stage, late, local, best, previous, selected>>

\* FRVCP found nothing better, or its wall budget was used up.
KeepRoute ==
  /\ stage = "refine" /\ phase = "idle"
  /\ \E c \in routes : routes' = routes \ {c}
  /\ UNCHANGED <<poolVars, stage, late, local, best, previous, selected, assembled>>

EndRefine ==
  /\ stage = "refine" /\ phase = "idle"
  /\ routes = {} \/ late
  /\ routes' = {}
  /\ stage' = "record"
  /\ UNCHANGED <<poolVars, late, local, best, previous, selected, assembled>>

EndRound ==
  /\ selected' = {} /\ assembled' = {}
  /\ local' = [plans |-> {}, feasible |-> FALSE]
  /\ UNCHANGED <<late, routes, previous>>

IsRecord == assembled # {} /\ (best = {} \/ Cost(assembled) < Cost(best) - Tol)

\* Mutant: the partition is protected before the record is replaced.
ProtectOldRecord ==
  IF Protect THEN Pool!BeginProtect(best) ELSE UNCHANGED poolVars

ProtectRecord ==
  IF Protect THEN Pool!BeginProtect(assembled) ELSE UNCHANGED poolVars

Unprotectable == Protect /\ ~Pool!Fits(assembled)

AcceptRecord ==
  /\ stage = "record" /\ IsRecord /\ ~Unprotectable
  /\ best' = assembled
  /\ ProtectRecord
  /\ stage' = "protect"
  /\ EndRound

\* The record is replaced before protect_partition throws out of solve.
RecordThrows ==
  /\ stage = "record" /\ IsRecord /\ Unprotectable
  /\ best' = assembled
  /\ stage' = "error"
  /\ EndRound
  /\ UNCHANGED poolVars

NoRecord ==
  /\ stage = "record" /\ ~IsRecord
  /\ stage' = "generate"
  /\ EndRound
  /\ UNCHANGED <<poolVars, best>>

Protected ==
  /\ stage = "protect" /\ phase = "idle"
  /\ stage' = "generate"
  /\ UNCHANGED <<poolVars, roundVars>>

\* The loop inside reprice_backup or protect_partition.
PoolLoop == Pool!LoopStep /\ UNCHANGED <<stage, roundVars>>

Body ==
  \/ Generate \/ AdmitRoute \/ OrdinaryRound \/ SpRound \/ LeaveRound
  \/ SolveModel \/ FeedBackDuals \/ KeepDuals \/ RepriceDuals
  \/ RefineRoute \/ KeepRoute \/ EndRefine
  \/ AcceptRecord \/ RecordThrows \/ NoRecord \/ Protected
  \/ PoolLoop

Next == Body \/ DeadlinePasses

\* One thread runs the rounds and every call in them returns.
Spec == Init /\ [][Next]_vars /\ WF_vars(Body)

-----------------------------------------------------------------------------
(* Properties.                                                             *)

\* The rounds use the pool only through its operations: every behaviour of the
\* composition is a behaviour of RoutePool.
PoolSpec == Pool!Spec

\* With the record protected, its partition can be rebuilt from the main pool
\* in every round, at no more than two tolerances a route above its cost: the
\* model always has a start and is never skipped for an uncovered customer.
RecordRepresentable ==
  Protect /\ best # {} /\ stage \notin {"protect", "error"} =>
    /\ UNION Covers(main) = Customer
    /\ Start(Covers(best)) # {}
    /\ Cost(Start(Covers(best))) <= Cost(best) + 2 * Tol * Cardinality(best)

\* protect_partition throws for no record but one that has more routes than
\* the pool has room for: its other test, for a repeated key, never fails.
ThrowsOnlyOnCapacity == stage = "error" => Cardinality(best) > Capacity

\* Every round comes to its end: the loops of the pool terminate, and no record
\* ends the run but one that does not fit the pool.
RoundsEnd ==
  /\ stage \notin {"generate", "error"} ~> stage \in {"generate", "error"}
  /\ []ThrowsOnlyOnCapacity

=============================================================================
