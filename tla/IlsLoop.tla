------------------------------ MODULE IlsLoop ------------------------------
(***************************************************************************)
(* The main loop of IlsSpSolver::solve (src/src/solver.cpp): perturbation, *)
(* descent, penalty feedback, assembly, acceptance and the stopping rules. *)
(*                                                                         *)
(* A solution is an opaque work state with a feasibility and a cost; the   *)
(* perturbation, the descent (VND) and the route assembler return any      *)
(* solution they may return.  Time is one bit: late becomes true when the  *)
(* global deadline passes, between any two steps, and the code reads it    *)
(* where it reads the clock.                                               *)
(*                                                                         *)
(* A definition marked "Mutant" is a mistaken form of the one after it,    *)
(* used by nothing, to see that a property notices the mistake.            *)
(***************************************************************************)
EXTENDS Integers, Sequences, FiniteSets

CONSTANTS
  Solution,        \* work states, records with fields feasible and cost
  None,            \* an empty std::optional
  Policies,        \* [record, cooperative, target]: see Record, Cooperative, Target
  HasDeadline,     \* global_time_limit_s is set
  PenaltyWindow, PenaltyFactor, LambdaMin, LambdaInitial, LambdaMax,
  MaxIterations, SpFrequency,
  Tol              \* kCostTolerance

ASSUME LoopAssumption ==
  /\ \A s \in Solution : s.feasible \in BOOLEAN /\ s.cost \in Int
  /\ None \notin Solution
  /\ Policies \subseteq [record : BOOLEAN, cooperative : BOOLEAN, target : Int \cup {None}]
  /\ HasDeadline \in BOOLEAN
  /\ {PenaltyWindow, MaxIterations, SpFrequency} \subseteq Nat \ {0}
  /\ PenaltyFactor \in Nat \ {0, 1}
  /\ {LambdaMin, LambdaInitial, LambdaMax} \subseteq Nat
  /\ LambdaMin <= LambdaInitial /\ LambdaInitial <= LambdaMax
  /\ Tol \in Nat

VARIABLES
  policy,          \* the policy of the run
  pc,              \* where in the loop body the thread is
  late,            \* the deadline has passed
  iteration, iterations,
  current, perturbed, local,
  best, fallback,
  anchor, anchorLambda,  \* return_anchor, return_anchor_lambda
  pending, pSteps,       \* pending_p_carry, cumulative_p_steps
  lambda, feasibleRun, infeasibleRun,
  lastBest,        \* last_best_improvement_iteration_
  stopReason,
  initial,         \* history: the initial solution
  offered          \* history: the feasible solutions the policy must record

penaltyVars == <<lambda, feasibleRun, infeasibleRun>>
anchorVars == <<anchor, anchorLambda, pending, pSteps>>
recordVars == <<best, lastBest, offered>>

question == <<policy, initial>>

vars == <<pc, late, iteration, iterations, current, perturbed, local, fallback,
          stopReason, question, penaltyVars, anchorVars, recordVars>>

Record == policy.record            \* continuation_policy is Record, else Operational
Cooperative == policy.cooperative  \* cooperative_mode: paper profile, preserved station visits
Target == policy.target            \* rounded_target_objective_h, or None

FixedAnchor == Record /\ Cooperative

-----------------------------------------------------------------------------
(* update_best and the rounded target.                                     *)

Improves(s, old) == s.feasible /\ (old = None \/ s.cost < old.cost - Tol)

\* record_candidate: accepted says whether the record improved.
RecordCandidate(s) ==
  /\ offered' = IF s.feasible THEN offered \cup {s} ELSE offered
  /\ best' = IF Improves(s, best) THEN s ELSE best
  /\ lastBest' = IF Improves(s, best) THEN iteration ELSE lastBest

TargetReached(s) == Target # None /\ s # None /\ s.feasible /\ s.cost <= Target

-----------------------------------------------------------------------------
(* observe_penalty.                                                        *)

Minimum(a, b) == IF a < b THEN a ELSE b
Maximum(a, b) == IF a > b THEN a ELSE b

Streak(run, hit) == IF hit THEN run + 1 ELSE 0

ObservePenalty(feasible) ==
  LET f == Streak(feasibleRun, feasible)
      i == Streak(infeasibleRun, ~feasible)
      raise == i >= PenaltyWindow
      lower == ~raise /\ f >= PenaltyWindow
  IN  /\ infeasibleRun' = IF raise THEN 0 ELSE i
      /\ feasibleRun' = IF lower THEN 0 ELSE f
      /\ lambda' = IF raise THEN Minimum(LambdaMax, lambda * PenaltyFactor)
                   ELSE IF lower THEN Maximum(LambdaMin, lambda \div PenaltyFactor)
                   ELSE lambda

-----------------------------------------------------------------------------
(* The loop.                                                               *)

Init ==
  /\ policy \in Policies
  /\ pc = "head" /\ late = FALSE
  /\ iteration = 1 /\ iterations = 0
  /\ current \in Solution /\ initial = current
  /\ fallback = IF current.feasible THEN current ELSE None
  /\ perturbed = None /\ local = None
  /\ best = None /\ lastBest = 0 /\ offered = {}
  /\ anchor = None /\ anchorLambda = 0 /\ pending = FALSE /\ pSteps = 0
  /\ lambda = LambdaInitial /\ feasibleRun = 0 /\ infeasibleRun = 0
  /\ stopReason = "max_iterations"

DeadlinePasses ==
  /\ HasDeadline /\ ~late /\ pc # "done"
  /\ late' = TRUE
  /\ UNCHANGED <<pc, iteration, iterations, current, perturbed, local, fallback,
                 stopReason, question, penaltyVars, anchorVars, recordVars>>

\* Mutant: any record displaces the initial solution.
FallbackForgotten == best # None /\ fallback # None

FallbackDropped ==
  best # None /\ fallback # None /\ ~(fallback.cost < best.cost - Tol)

\* The end of solve: the initial solution is returned beside the record only
\* when there is no record or the initial solution is strictly cheaper.
Finish(reason) ==
  /\ pc' = "done"
  /\ stopReason' = reason
  /\ fallback' = IF FallbackDropped THEN None ELSE fallback

StopAtHead ==
  /\ pc = "head" /\ late
  /\ Finish("time_limit")
  /\ UNCHANGED <<late, iteration, iterations, current, perturbed, local,
                 question, penaltyVars, anchorVars, recordVars>>

Perturb ==
  /\ pc = "head" /\ ~late
  /\ perturbed' \in Solution
  /\ current' = IF Record /\ ~Cooperative THEN perturbed' ELSE current
  /\ pc' = "descend"
  /\ UNCHANGED <<late, iteration, iterations, local, fallback, stopReason,
                 question, penaltyVars, anchorVars, recordVars>>

DropAnchor ==
  /\ anchor' = None /\ pSteps' = 0 /\ pending' = FALSE
  /\ UNCHANGED anchorLambda

\* The descent returns local.  In fixed-anchor mode a descent that comes back
\* to the anchor under the anchor's lambda continues from the perturbed state;
\* a descent cut by the deadline cannot become the anchor.
Descend ==
  /\ pc = "descend"
  /\ local' \in Solution
  /\ IF ~FixedAnchor
       THEN /\ current' = IF Cooperative THEN local' ELSE current
            /\ pending' = FALSE
            /\ UNCHANGED <<anchor, anchorLambda, pSteps>>
       ELSE \/ late /\ current' = local' /\ DropAnchor
            \/ /\ ~late
               /\ anchor # None /\ anchorLambda = lambda /\ anchor = local'
               /\ current' = perturbed /\ pending' = TRUE
               /\ UNCHANGED <<anchor, anchorLambda, pSteps>>
            \/ /\ ~late
               /\ ~(anchor # None /\ anchorLambda = lambda /\ anchor = local')
               /\ current' = local' /\ anchor' = local'
               /\ anchorLambda' = lambda /\ pSteps' = 0 /\ pending' = FALSE
  /\ pc' = "feedback"
  /\ UNCHANGED <<late, iteration, iterations, perturbed, fallback, stopReason,
                 question, penaltyVars, recordVars>>

\* Mutant: the anchor outlives the lambda it was reached under.
LambdaMoveIgnored == FALSE

LambdaMoved == FixedAnchor /\ lambda' # lambda

\* Mutant: the operational policy records only what is assembled.
RecordNothing == UNCHANGED recordVars

RecordLocal == IF Record THEN UNCHANGED recordVars ELSE RecordCandidate(local)

\* Penalty feedback; the operational policy also records local here.
Feedback ==
  /\ pc = "feedback"
  /\ ObservePenalty(local.feasible)
  /\ IF LambdaMoved
       THEN current' = local /\ DropAnchor
       ELSE UNCHANGED <<current, anchorVars>>
  /\ RecordLocal
  /\ pc' = "assemble"
  /\ UNCHANGED <<late, iteration, iterations, perturbed, local, fallback,
                 stopReason, question>>

\* What assemble_routes can return: on an ordinary round local under the record
\* policy and nothing otherwise; on a set-partitioning round nothing or a
\* feasible partition.  An adaptive round can come at any iteration.
Assembled ==
  (IF iteration % SpFrequency # 0 THEN {IF Record THEN local ELSE None} ELSE {})
    \cup {s \in Solution : s.feasible} \cup {None}

SkipAssembly ==
  /\ pc = "assemble"
  /\ late \/ TargetReached(best)
  /\ current' = IF Record THEN current ELSE local
  /\ iterations' = IF TargetReached(best) THEN iteration ELSE iterations
  /\ pc' = "close"
  /\ UNCHANGED <<late, iteration, perturbed, local, fallback, stopReason,
                 question, penaltyVars, anchorVars, recordVars>>

AnchorAfterRecord == IF FixedAnchor THEN DropAnchor ELSE UNCHANGED anchorVars

AssembleRecord ==
  /\ pc = "assemble" /\ Record
  /\ ~late /\ ~TargetReached(best)
  /\ \E s \in Assembled :
       IF s = None
         THEN UNCHANGED <<current, recordVars, anchorVars>>
         ELSE /\ RecordCandidate(s)
              /\ IF Improves(s, best)
                   THEN current' = s /\ AnchorAfterRecord
                   ELSE UNCHANGED <<current, anchorVars>>
  /\ iterations' = iteration
  /\ pc' = "close"
  /\ UNCHANGED <<late, iteration, perturbed, local, fallback, stopReason,
                 question, penaltyVars>>

AssembleOperational ==
  /\ pc = "assemble" /\ ~Record
  /\ ~late /\ ~TargetReached(best)
  /\ \E s \in Assembled :
       IF s = None
         THEN current' = local /\ UNCHANGED recordVars
         ELSE current' = s /\ RecordCandidate(s)
  /\ iterations' = iteration
  /\ pc' = "close"
  /\ UNCHANGED <<late, iteration, perturbed, local, fallback, stopReason,
                 question, penaltyVars, anchorVars>>

\* A carry that survived feedback and record is counted, then the loop ends or
\* goes on.  perturbed and local die with the iteration.
CountCarry ==
  /\ pSteps' = IF pending THEN pSteps + 1 ELSE pSteps
  /\ UNCHANGED <<anchor, anchorLambda, pending>>

\* Mutant: the deadline is looked at before the target.
DeadlineFirst ==
  IF late THEN "time_limit"
  ELSE IF TargetReached(best) THEN "rounded_target" ELSE stopReason

ReasonAtClose ==
  IF TargetReached(best) THEN "rounded_target"
  ELSE IF late THEN "time_limit" ELSE stopReason

CloseAndStop ==
  /\ pc = "close"
  /\ TargetReached(best) \/ late \/ iteration = MaxIterations
  /\ Finish(ReasonAtClose)
  /\ CountCarry
  /\ UNCHANGED <<late, iteration, iterations, current, perturbed, local,
                 question, penaltyVars, recordVars>>

NextIteration == iteration + 1

CloseAndGoOn ==
  /\ pc = "close"
  /\ ~TargetReached(best) /\ ~late /\ iteration < MaxIterations
  /\ iteration' = NextIteration
  /\ perturbed' = None /\ local' = None
  /\ pc' = "head"
  /\ CountCarry
  /\ UNCHANGED <<late, iterations, current, fallback, stopReason, question,
                 penaltyVars, recordVars>>

Body ==
  \/ StopAtHead \/ Perturb \/ Descend \/ Feedback
  \/ SkipAssembly \/ AssembleRecord \/ AssembleOperational
  \/ CloseAndStop \/ CloseAndGoOn

Next == Body \/ DeadlinePasses

Spec == Init /\ [][Next]_vars

-----------------------------------------------------------------------------
(* Properties.                                                             *)

Optional(S) == S \cup {None}

\* Between iterations the return anchor is an endpoint of the present lambda,
\* and the search stands on it unless it walked away by counted carries; with
\* no anchor no carry is counted.
AnchorSound ==
  pc = "head" =>
    /\ anchor # None => anchorLambda = lambda /\ (pSteps = 0 => current = anchor)
    /\ anchor = None => pSteps = 0

\* The record is within tolerance of everything the policy must record: every
\* assembler return, and under the operational policy every feasible descent
\* endpoint, also that of a round the deadline or the target cuts short.
RecordCoversOffered ==
  /\ \A s \in offered : best # None /\ best.cost <= s.cost + Tol
  /\ ~Record /\ pc \in {"assemble", "close"} /\ local.feasible =>
       best # None /\ best.cost <= local.cost + Tol

\* The returned answer, the fallback if there is one and the record otherwise,
\* is feasible and no worse than the initial solution or the record.
Answer == IF fallback # None THEN fallback ELSE best

AnswerNeverWorse ==
  pc = "done" =>
    /\ initial.feasible => Answer # None
    /\ Answer # None => Answer.feasible
    /\ initial.feasible => Answer.cost <= initial.cost + Tol
    /\ best # None => Answer.cost <= best.cost

\* The stop reason tells the truth: rounded_target only with a record at the
\* target, and a run with such a record never reports anything else.
StopReasonTrue ==
  pc = "done" =>
    /\ stopReason = "rounded_target" <=> TargetReached(best)
    /\ stopReason = "time_limit" => late
    /\ stopReason = "max_iterations" => iterations = MaxIterations

=============================================================================
