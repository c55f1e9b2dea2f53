---------------------------- MODULE SpSchedule -----------------------------
(***************************************************************************)
(* When IlsSpSolver::assemble_routes calls the set-partitioning model      *)
(* (src/src/solver.cpp): at every multiple of sp_frequency, and, with the  *)
(* adaptive extension, when a full pool has advanced since the last call   *)
(* and both the record and the coverage have stalled.                      *)
(*                                                                         *)
(* The pool is seen through what the decision reads: whether its effective *)
(* generation moved since the last call, whether the main pool is full and *)
(* whether its columns cover every customer.  A main pool that has become  *)
(* full stays full (RoutePool never shrinks it below its capacity).        *)
(*                                                                         *)
(* A definition marked "Mutant" is a mistaken form of the one after it,    *)
(* used by nothing, to see that a property notices the mistake.            *)
(***************************************************************************)
EXTENDS Integers

CONSTANTS
  MaxIterations,
  SpFrequency,     \* paper.sp_frequency
  BackupFrequency, \* paper.backup_frequency
  Adaptive,        \* adaptive_sp_stall_iterations is set
  Stall,           \* *adaptive_sp_stall_iterations
  MinInterval      \* adaptive_sp_minimum_interval

ASSUME ScheduleAssumption ==
  /\ {MaxIterations, SpFrequency, BackupFrequency, Stall, MinInterval}
       \subseteq Nat \ {0}
  /\ Adaptive \in BOOLEAN

VARIABLES
  record,          \* the record policy; otherwise local is recorded first
  pc, iteration,
  late,            \* the deadline has passed
  hasBest,
  full,            \* main_size() = capacity()
  advanced,        \* effective_generation() > pool_effective_generation_at_last_sp_
  runSp, adaptiveSp,
  lastSp,          \* last_sp_iteration_
  lastBest,        \* last_best_improvement_iteration_
  lastCoverage,    \* last_coverage_improvement_iteration_
  repriced,        \* reprice_backup ran before the model in this iteration
  blocked,         \* the round was left before the model: deadline or coverage
  quietBest, quietCoverage, \* history: whole iterations without a record, and
                            \* without an effective coverage improvement
  sinceSp          \* history: the pool improved since the last call began

history == <<quietBest, quietCoverage, sinceSp>>

vars == <<record, pc, iteration, late, hasBest, full, advanced, runSp, adaptiveSp,
          lastSp, lastBest, lastCoverage, repriced, blocked, history>>

\* The pool reports an effective coverage improvement, or does not.
\* Mutant: an improvement does not restart the coverage stall.
PoolStepUnmarked(improved) ==
  /\ advanced' = (advanced \/ improved)
  /\ quietCoverage' = IF improved THEN 0 ELSE quietCoverage
  /\ sinceSp' = (sinceSp \/ improved)
  /\ UNCHANGED lastCoverage

\* The pool reports an effective coverage improvement, or does not.
PoolStep(improved) ==
  /\ advanced' = (advanced \/ improved)
  /\ lastCoverage' = IF improved THEN iteration ELSE lastCoverage
  /\ quietCoverage' = IF improved THEN 0 ELSE quietCoverage
  /\ sinceSp' = (sinceSp \/ improved)

\* record_candidate accepted a solution; protecting it can improve the pool.
Recorded(improved) ==
  /\ hasBest' = TRUE
  /\ lastBest' = iteration
  /\ quietBest' = 0
  /\ PoolStep(improved)

\* Mutant: the cadence counts from the last call, adaptive ones included.
PeriodicSinceLast == iteration - lastSp >= SpFrequency

Periodic == iteration % SpFrequency = 0

UntilPeriodic == IF Periodic THEN 0 ELSE SpFrequency - (iteration % SpFrequency)

AdaptiveTrigger ==
  /\ Adaptive /\ ~Periodic
  /\ hasBest /\ full /\ advanced
  /\ iteration - lastSp >= MinInterval
  /\ UntilPeriodic >= MinInterval
  /\ iteration - lastBest >= Stall
  /\ iteration - lastCoverage >= Stall

Init ==
  /\ record \in BOOLEAN
  /\ pc = "generate" /\ iteration = 1 /\ late = FALSE
  /\ hasBest = FALSE /\ full = FALSE /\ advanced = FALSE
  /\ runSp = FALSE /\ adaptiveSp = FALSE
  /\ lastSp = 0 /\ lastBest = 0 /\ lastCoverage = 0
  /\ repriced = FALSE /\ blocked = FALSE
  /\ quietBest = 0 /\ quietCoverage = 0 /\ sinceSp = FALSE

DeadlinePasses ==
  /\ ~late /\ pc # "done"
  /\ late' = TRUE
  /\ UNCHANGED <<pc, iteration, hasBest, full, advanced, runSp, adaptiveSp,
                 lastSp, lastBest, lastCoverage, repriced, blocked, history>>

\* The route generator ran; the operational policy records its output.
Generate ==
  /\ pc = "generate"
  /\ \/ UNCHANGED <<hasBest, lastBest, lastCoverage, advanced, history>>
     \/ ~record /\ \E improved \in BOOLEAN : Recorded(improved)
  /\ pc' = IF late THEN "close" ELSE "admit"
  /\ blocked' = late
  /\ UNCHANGED <<iteration, late, full, runSp, adaptiveSp, lastSp, repriced>>

\* Every feasible route of local is admitted.
AdmitRoutes ==
  /\ pc = "admit"
  /\ \E improved \in BOOLEAN : PoolStep(improved)
  /\ full' \in {full, TRUE}
  /\ pc' = "trigger"
  /\ UNCHANGED <<iteration, late, hasBest, runSp, adaptiveSp, lastSp, lastBest,
                 repriced, blocked, quietBest>>

\* The triggers are evaluated; the backup pool is repriced on its own cadence
\* and before every model.
TriggerAndReprice ==
  /\ pc = "trigger"
  /\ adaptiveSp' = AdaptiveTrigger
  /\ runSp' = (Periodic \/ AdaptiveTrigger)
  /\ repriced' = (iteration % BackupFrequency = 0 \/ runSp')
  /\ \E improved \in IF repriced' THEN BOOLEAN ELSE {FALSE} : PoolStep(improved)
  /\ full' \in IF repriced' THEN {full, TRUE} ELSE {full}
  /\ pc' = IF runSp' THEN "guard" ELSE "record"
  /\ UNCHANGED <<iteration, late, hasBest, lastSp, lastBest, blocked, quietBest>>

\* The deadline or an incomplete pool leaves the round before the model.
LeaveRound ==
  /\ pc = "guard"
  /\ blocked' = TRUE
  /\ pc' = "close"
  /\ UNCHANGED <<iteration, late, hasBest, full, advanced, runSp, adaptiveSp,
                 lastSp, lastBest, lastCoverage, repriced, history>>

CallModel ==
  /\ pc = "guard" /\ ~late
  /\ lastSp' = iteration
  /\ advanced' = FALSE
  /\ sinceSp' = FALSE
  /\ pc' = "feedback"
  /\ UNCHANGED <<iteration, late, hasBest, full, runSp, adaptiveSp, lastBest,
                 lastCoverage, repriced, blocked, quietBest, quietCoverage>>

\* Dual feedback (repricing after the LP) and routes admitted by FRVCP.
ModelFeedback ==
  /\ pc = "feedback"
  /\ \E improved \in BOOLEAN : PoolStep(improved)
  /\ pc' = "record"
  /\ UNCHANGED <<iteration, late, hasBest, full, runSp, adaptiveSp, lastSp,
                 lastBest, repriced, blocked, quietBest>>

RecordAssembled ==
  /\ pc = "record"
  /\ \/ UNCHANGED <<hasBest, lastBest, lastCoverage, advanced, history>>
     \/ (record \/ runSp) /\ \E improved \in BOOLEAN : Recorded(improved)
  /\ pc' = "close"
  /\ UNCHANGED <<iteration, late, full, runSp, adaptiveSp, lastSp, repriced, blocked>>

NextIteration ==
  /\ pc = "close" /\ ~late /\ iteration < MaxIterations
  /\ iteration' = iteration + 1
  /\ pc' = "generate"
  /\ runSp' = FALSE /\ adaptiveSp' = FALSE /\ repriced' = FALSE /\ blocked' = FALSE
  /\ quietBest' = quietBest + 1
  /\ quietCoverage' = quietCoverage + 1
  /\ UNCHANGED <<late, hasBest, full, advanced, lastSp, lastBest, lastCoverage,
                 sinceSp>>

Stop ==
  /\ pc = "close" /\ (late \/ iteration = MaxIterations)
  /\ pc' = "done"
  /\ UNCHANGED <<iteration, late, hasBest, full, advanced, runSp, adaptiveSp,
                 lastSp, lastBest, lastCoverage, repriced, blocked, history>>

Body ==
  \/ Generate \/ AdmitRoutes \/ TriggerAndReprice \/ LeaveRound \/ CallModel
  \/ ModelFeedback \/ RecordAssembled \/ NextIteration \/ Stop

Next == Body \/ DeadlinePasses

\* The policy is chosen with the options.
Spec == Init /\ [][Next /\ UNCHANGED record]_vars

-----------------------------------------------------------------------------
(* Properties.                                                             *)

\* An adaptive call never displaces a periodic one: every multiple of
\* sp_frequency that is not left early ends with a call of its own.
CadenceKept ==
  pc \in {"close", "done"} /\ iteration % SpFrequency = 0 /\ ~blocked
    => lastSp = iteration

\* An adaptive call is triggered only when neither the record nor the coverage
\* has improved for Stall iterations, and the pool did improve since the last
\* call.  (The repricing that precedes the model may end the stall again.)
AdaptiveOnlyWhenStalled ==
  [][adaptiveSp' /\ ~adaptiveSp =>
       quietBest >= Stall /\ quietCoverage >= Stall /\ sinceSp]_adaptiveSp
=============================================================================
