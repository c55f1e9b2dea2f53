-------------------------- MODULE IterationProofs --------------------------
(***************************************************************************)
(* Proofs about an iteration.                                              *)
(*                                                                         *)
(* The main loop (IlsLoop), for every set of work states, every policy,    *)
(* penalty schedule and iteration limit: the return anchor, the record,    *)
(* the answer and the stop reason.                                         *)
(*                                                                         *)
(* The perturbation (JointRepair), for all solutions, costs and removal    *)
(* counts: remembered ranks are those of the routes as they are, and no    *)
(* visit is lost or made up.                                               *)
(***************************************************************************)
EXTENDS IlsLoop, JointRepair, FoldTheorems, SequenceTheorems

Typed ==
  /\ pc \in {"head", "descend", "feedback", "assemble", "close", "done"}
  /\ initial \in Solution
  /\ best \in Optional(Solution)
  /\ pc \in {"feedback", "assemble", "close"} => local \in Solution
  /\ pSteps \in Nat
  /\ offered \subseteq Solution

\* The anchor belongs to the present lambda; the search stands on it unless a
\* carry is pending or counted.  A carry is counted before the next iteration.
AnchorInv ==
  /\ anchor # None => FixedAnchor /\ anchorLambda = lambda
  /\ anchor # None /\ pSteps = 0 /\ ~pending => current = anchor
  /\ anchor = None => pSteps = 0 /\ ~pending
  /\ pc \in {"head", "descend"} /\ pending => pSteps # 0

RecordInv ==
  /\ best # None => best.feasible
  /\ RecordCoversOffered

\* The target can be reached only by the record of this iteration, and an
\* iteration that is not cut short is counted.
StopInv ==
  /\ pc \in {"head", "descend", "feedback"} => ~TargetReached(best)
  /\ pc = "close" /\ ~late => iterations = iteration
  /\ pc # "done" => stopReason = "max_iterations"
  /\ StopReasonTrue

AnswerInv ==
  /\ pc # "done" => fallback = IF initial.feasible THEN initial ELSE None
  /\ AnswerNeverWorse

IInv == Typed /\ AnchorInv /\ RecordInv /\ StopInv /\ AnswerInv
-----------------------------------------------------------------------------
(* What is known of the constants, in the form the provers use.            *)
LEMMA Constants ==
  /\ None \notin Solution
  /\ Tol \in Nat
  /\ \A s \in Solution : s.feasible \in BOOLEAN /\ s.cost \in Int
BY LoopAssumption

\* The search starts in the invariant.
LEMMA InitIsInv == Init => IInv
<1> SUFFICES ASSUME Init PROVE IInv
  OBVIOUS
<1>1. /\ pc = "head" /\ best = None /\ offered = {} /\ anchor = None
      /\ pSteps = 0 /\ pending = FALSE /\ stopReason = "max_iterations"
      /\ current \in Solution /\ initial = current
      /\ fallback = (IF current.feasible THEN current ELSE None) /\ late = FALSE
  BY DEF Init
<1>2. Typed
  BY <1>1 DEF Typed, Optional
<1>3. AnchorInv
  BY <1>1 DEF AnchorInv
<1>4. RecordInv
  BY <1>1 DEF RecordInv, RecordCoversOffered
<1>5. StopInv
  BY <1>1 DEF StopInv, StopReasonTrue, TargetReached
<1>6. AnswerInv
  BY <1>1 DEF AnswerInv, AnswerNeverWorse
<1>7. QED
  BY <1>2, <1>3, <1>4, <1>5, <1>6 DEF IInv
-----------------------------------------------------------------------------
(* The policy and the initial solution never change.                       *)
LEMMA QuestionStays ==
  ASSUME [Next]_vars
  PROVE  policy' = policy /\ initial' = initial
BY DEF Next, Body, DeadlinePasses, StopAtHead, Perturb, Descend, Feedback, SkipAssembly,
       AssembleRecord, AssembleOperational, CloseAndStop, CloseAndGoOn, question, vars

(* A recorded candidate is covered, and so is all that was.                *)
LEMMA RecordCovers ==
  ASSUME NEW s \in Solution, RecordCandidate(s),
         best \in Optional(Solution), offered \subseteq Solution,
         best # None => best.feasible
  PROVE  /\ best' \in Optional(Solution) /\ offered' \subseteq Solution
         /\ best' # None => best'.feasible
         /\ s.feasible => best' # None /\ best'.cost <= s.cost + Tol
         /\ best # None => best' # None /\ best'.cost <= best.cost
         /\ offered' \subseteq offered \cup {s}
         /\ ~s.feasible => offered' = offered
<1>1. CASE Improves(s, best)
  BY <1>1, Constants DEF RecordCandidate, Improves, Optional
<1>2. CASE ~Improves(s, best)
  <2>1. best' = best
    BY <1>2 DEF RecordCandidate
  <2>2. s.feasible => best # None /\ best.cost <= s.cost + Tol
    BY <1>2, Constants DEF Improves, Optional
  <2>3. best # None => best.cost <= best.cost
    BY Constants DEF Optional
  <2>4. offered' \subseteq offered \cup {s} /\ (~s.feasible => offered' = offered)
    BY DEF RecordCandidate
  <2>5. QED
    BY <2>1, <2>2, <2>3, <2>4
<1>3. QED
  BY <1>1, <1>2

\* Every step keeps the types.
LEMMA TypedKept == IInv /\ [Next]_vars => Typed'
<1> SUFFICES ASSUME IInv, [Next]_vars PROVE Typed'
  OBVIOUS
<1> USE DEF IInv, Typed
<1>1. initial' \in Solution
  BY QuestionStays
<1>2. CASE StopAtHead \/ CloseAndStop \/ CloseAndGoOn \/ DeadlinePasses \/ SkipAssembly
           \/ UNCHANGED vars
  BY <1>1, <1>2 DEF StopAtHead, CloseAndStop, CloseAndGoOn, CountCarry, Finish, DeadlinePasses,
     SkipAssembly, vars, anchorVars, recordVars
<1>3. CASE Perturb
  BY <1>1, <1>3 DEF Perturb, anchorVars, recordVars
<1>4. CASE Descend
  BY <1>1, <1>4 DEF Descend, DropAnchor, recordVars
<1>5. CASE Feedback
  <2>1. local \in Solution /\ local' = local /\ pc' = "assemble"
    BY <1>5 DEF Feedback
  <2>2. pSteps' \in Nat
    BY <1>5 DEF Feedback, DropAnchor, anchorVars
  <2>3. best' \in Optional(Solution) /\ offered' \subseteq Solution
    BY <1>5, <2>1, RecordCovers DEF Feedback, RecordLocal, recordVars, RecordInv
  <2>4. QED
    BY <1>1, <2>1, <2>2, <2>3
<1>6. CASE AssembleRecord
  <2>1. PICK s \in Assembled :
          IF s = None
            THEN UNCHANGED <<current, recordVars, anchorVars>>
            ELSE /\ RecordCandidate(s)
                 /\ IF Improves(s, best)
                      THEN current' = s /\ AnchorAfterRecord
                      ELSE UNCHANGED <<current, anchorVars>>
    BY <1>6 DEF AssembleRecord
  <2>2. local \in Solution /\ local' = local /\ pc' = "close"
    BY <1>6 DEF AssembleRecord
  <2>3. s # None => s \in Solution
    BY <1>6, <2>2 DEF Assembled, AssembleRecord
  <2>4. pSteps' \in Nat
    BY <2>1 DEF DropAnchor, AnchorAfterRecord, anchorVars
  <2>5. best' \in Optional(Solution) /\ offered' \subseteq Solution
    BY <2>1, <2>3, RecordCovers DEF recordVars, RecordInv
  <2>6. QED
    BY <1>1, <2>2, <2>4, <2>5
<1>7. CASE AssembleOperational
  <2>1. PICK s \in Assembled : IF s = None THEN UNCHANGED recordVars ELSE RecordCandidate(s)
    BY <1>7 DEF AssembleOperational
  <2>2. /\ local \in Solution /\ local' = local /\ pc' = "close"
        /\ pSteps' \in Nat
    BY <1>7 DEF AssembleOperational, anchorVars
  <2>3. s # None => s \in Solution
    BY <1>7, <2>2 DEF Assembled, AssembleOperational
  <2>4. best' \in Optional(Solution) /\ offered' \subseteq Solution
    BY <2>1, <2>3, RecordCovers DEF recordVars, RecordInv
  <2>5. QED
    BY <1>1, <2>2, <2>4
<1>8. QED
  BY <1>2, <1>3, <1>4, <1>5, <1>6, <1>7 DEF Next, Body
-----------------------------------------------------------------------------
\* Every step keeps what ties the return anchor to lambda and to the carries.
LEMMA AnchorKept == IInv /\ [Next]_vars => AnchorInv'
<1> SUFFICES ASSUME IInv, [Next]_vars PROVE AnchorInv'
  OBVIOUS
<1> USE DEF IInv, AnchorInv
<1>1. Record' = Record /\ Cooperative' = Cooperative /\ FixedAnchor' = FixedAnchor
  BY QuestionStays DEF Record, Cooperative, FixedAnchor
<1>2. CASE StopAtHead \/ DeadlinePasses \/ UNCHANGED vars
  BY <1>1, <1>2 DEF StopAtHead, Finish, DeadlinePasses, vars, anchorVars, penaltyVars
<1>3. CASE Perturb
  <2>1. anchor # None => current' = current
    BY <1>3 DEF Perturb, FixedAnchor
  <2>2. QED
    BY <1>1, <1>3, <2>1 DEF Perturb, anchorVars, penaltyVars
<1>4. CASE Descend
  <2>1. lambda' = lambda /\ pc' = "feedback"
    BY <1>4 DEF Descend, penaltyVars
  <2>2. CASE ~FixedAnchor
    BY <1>1, <1>4, <2>1, <2>2 DEF Descend
  <2>3. CASE FixedAnchor /\ anchor' = None
    BY <1>1, <1>4, <2>1, <2>3 DEF Descend, DropAnchor
  <2>4. CASE FixedAnchor /\ anchor' # None
    BY <1>1, <1>4, <2>1, <2>4 DEF Descend, DropAnchor
  <2>5. QED
    BY <2>2, <2>3, <2>4
<1>5. CASE Feedback
  <2>1. CASE LambdaMoved
    BY <1>5, <2>1 DEF Feedback, DropAnchor
  <2>2. CASE ~LambdaMoved
    <3>1. FixedAnchor => lambda' = lambda
      BY <2>2 DEF LambdaMoved
    <3>2. QED
      BY <1>1, <1>5, <2>2, <3>1 DEF Feedback, anchorVars
  <2>3. QED
    BY <2>1, <2>2
<1>6. CASE SkipAssembly \/ AssembleOperational
  <2>1. anchor # None => current' = current
    BY <1>6 DEF SkipAssembly, AssembleOperational, FixedAnchor
  <2>2. UNCHANGED <<anchor, anchorLambda, pending, pSteps, lambda>> /\ pc' = "close"
    BY <1>6 DEF SkipAssembly, AssembleOperational, anchorVars, penaltyVars
  <2>3. QED
    BY <1>1, <2>1, <2>2
<1>7. CASE AssembleRecord
  <2>1. lambda' = lambda /\ pc' = "close"
    BY <1>7 DEF AssembleRecord, penaltyVars
  <2>2. \/ UNCHANGED <<current, anchor, anchorLambda, pending, pSteps>>
        \/ FixedAnchor /\ DropAnchor
        \/ ~FixedAnchor /\ UNCHANGED <<anchor, anchorLambda, pending, pSteps>>
    BY <1>7 DEF AssembleRecord, AnchorAfterRecord, anchorVars
  <2>3. QED
    BY <1>1, <2>1, <2>2 DEF DropAnchor
<1>8. CASE CloseAndStop \/ CloseAndGoOn
  <2>1. UNCHANGED <<anchor, anchorLambda, pending, lambda, current>>
    BY <1>8 DEF CloseAndStop, CloseAndGoOn, CountCarry, penaltyVars
  <2>2. pSteps' = IF pending THEN pSteps + 1 ELSE pSteps
    BY <1>8 DEF CloseAndStop, CloseAndGoOn, CountCarry
  <2>3. pSteps \in Nat
    BY DEF Typed
  <2>4. (pending => pSteps' # 0) /\ (pSteps' = 0 => pSteps = 0)
    BY <2>2, <2>3
  <2>5. anchor = None => pSteps' = 0
    BY <2>2
  <2>6. QED
    BY <1>1, <2>1, <2>4, <2>5
<1>9. QED
  BY <1>2, <1>3, <1>4, <1>5, <1>6, <1>7, <1>8 DEF Next, Body
-----------------------------------------------------------------------------
(* What each step does to the record: nothing, or it records a candidate.  *)
LEMMA RecordSteps ==
  ASSUME Typed, [Next]_vars
  PROVE  \/ UNCHANGED <<best, offered>>
         \/ /\ pc = "feedback" /\ ~Record /\ pc' = "assemble" /\ RecordCandidate(local)
         \/ /\ pc = "assemble" /\ pc' = "close" /\ ~late /\ iterations' = iteration
            /\ \E s \in Solution : RecordCandidate(s)
<1>1. CASE Feedback
  BY <1>1 DEF Feedback, RecordLocal, recordVars
<1>2. CASE AssembleRecord \/ AssembleOperational
  <2>1. PICK s \in Assembled : IF s = None THEN UNCHANGED recordVars ELSE RecordCandidate(s)
    BY <1>2 DEF AssembleRecord, AssembleOperational
  <2>2. s # None => s \in Solution
    BY <1>2 DEF Assembled, AssembleRecord, AssembleOperational, Typed
  <2>3. QED
    BY <1>2, <2>1, <2>2 DEF AssembleRecord, AssembleOperational, recordVars
<1>3. CASE UNCHANGED recordVars
  BY <1>3 DEF recordVars
<1>4. QED
  BY <1>1, <1>2, <1>3 DEF Next, Body, StopAtHead, Perturb, Descend, SkipAssembly, CloseAndStop,
     CloseAndGoOn, DeadlinePasses, vars

\* Every step keeps the record within tolerance of what had to be recorded.
LEMMA RecordKept == IInv /\ [Next]_vars => RecordInv'
<1> SUFFICES ASSUME IInv, [Next]_vars PROVE RecordInv'
  OBVIOUS
<1>1. Record' = Record
  BY QuestionStays DEF Record
<1>2. /\ best \in Optional(Solution) /\ offered \subseteq Solution
      /\ best # None => best.feasible
      /\ \A s \in offered : best # None /\ best.cost <= s.cost + Tol
  BY DEF IInv, Typed, RecordInv, RecordCoversOffered
<1>3. pc' \in {"assemble", "close"} =>
        local' = local /\ local \in Solution /\ pc \in {"feedback", "assemble", "close"}
  BY DEF IInv, Typed, Next, Body, DeadlinePasses, StopAtHead, Perturb, Descend, Feedback,
     SkipAssembly, AssembleRecord, AssembleOperational, CloseAndStop, CloseAndGoOn, Finish, vars
<1>4. ~Record /\ pc \in {"assemble", "close"} /\ local.feasible =>
        best # None /\ best.cost <= local.cost + Tol
  BY DEF IInv, RecordInv, RecordCoversOffered
<1>5. pc = "feedback" /\ pc' \in {"assemble", "close"} =>
        Record \/ RecordCandidate(local) \/ Feedback
  BY DEF Next, Body, DeadlinePasses, StopAtHead, Perturb, Descend, Feedback,
     SkipAssembly, AssembleRecord, AssembleOperational, CloseAndStop, CloseAndGoOn, Finish, vars
<1>6. CASE UNCHANGED <<best, offered>>
  <2>1. CASE pc = "feedback" /\ pc' \in {"assemble", "close"} /\ ~Record
    <3>1. RecordCandidate(local)
      BY <1>5, <2>1 DEF Feedback, RecordLocal
    <3>2. local.feasible => best' # None /\ best'.cost <= local.cost + Tol
      BY <1>2, <1>3, <2>1, <3>1, RecordCovers
    <3>3. QED
      BY <1>1, <1>2, <1>3, <1>6, <2>1, <3>2 DEF RecordInv, RecordCoversOffered
  <2>2. CASE ~(pc = "feedback" /\ pc' \in {"assemble", "close"} /\ ~Record)
    BY <1>1, <1>2, <1>3, <1>4, <1>6, <2>2 DEF RecordInv, RecordCoversOffered
  <2>3. QED
    BY <2>1, <2>2
<1>7. ASSUME NEW s \in Solution, RecordCandidate(s),
             (pc = "feedback" /\ s = local) \/ pc = "assemble"
      PROVE  RecordInv'
  <2>1. /\ best' \in Optional(Solution)
        /\ best' # None => best'.feasible
        /\ s.feasible => best' # None /\ best'.cost <= s.cost + Tol
        /\ best # None => best' # None /\ best'.cost <= best.cost
        /\ offered' \subseteq offered \cup {s}
        /\ ~s.feasible => offered' = offered
    BY <1>2, <1>7, RecordCovers
  <2>2. best # None => best.cost \in Int /\ best'.cost \in Int
    BY <1>2, <2>1, Constants DEF Optional
  <2>3. ASSUME NEW t \in offered'
        PROVE  best' # None /\ best'.cost <= t.cost + Tol
    <3>1. CASE t \in offered
      <4>1. best # None /\ best.cost <= t.cost + Tol /\ t.cost \in Int
        BY <1>2, <3>1, Constants
      <4>2. QED
        BY <2>1, <2>2, <4>1, Constants
    <3>2. CASE t \notin offered
      BY <2>1, <2>3, <3>2, Constants
    <3>3. QED
      BY <3>1, <3>2
  <2>4. ASSUME ~Record, pc' \in {"assemble", "close"}, local.feasible
        PROVE  best' # None /\ best'.cost <= local.cost + Tol
    <3>1. CASE pc = "feedback" /\ s = local
      BY <2>1, <2>4, <3>1
    <3>2. CASE pc = "assemble"
      <4>1. best # None /\ best.cost <= local.cost + Tol
        BY <1>4, <2>4, <3>2
      <4>2. local.cost \in Int
        BY <1>3, <2>4, Constants
      <4>3. QED
        BY <2>1, <2>2, <4>1, <4>2, Constants
    <3>3. QED
      BY <1>7, <3>1, <3>2
  <2>5. QED
    BY <1>1, <1>3, <2>1, <2>3, <2>4 DEF RecordInv, RecordCoversOffered
<1>8. QED
  <2>1. pc = "feedback" => local \in Solution
    BY DEF IInv, Typed
  <2>2. QED
    BY <1>6, <1>7, <2>1, RecordSteps DEF IInv
-----------------------------------------------------------------------------
\* Every step keeps the reason of the stop true.
LEMMA StopKept == IInv /\ [Next]_vars => StopInv'
<1> SUFFICES ASSUME IInv, [Next]_vars PROVE StopInv'
  OBVIOUS
<1>1. policy' = policy
  BY QuestionStays
<1>2. StopInv
  BY DEF IInv
<1>3. best' = best => (TargetReached(best)' <=> TargetReached(best))
  BY <1>1 DEF TargetReached, Target
<1>4. CASE Perturb \/ Descend
  BY <1>2, <1>3, <1>4 DEF Perturb, Descend, recordVars, StopInv, StopReasonTrue
<1>5. CASE Feedback \/ AssembleRecord \/ AssembleOperational
  BY <1>2, <1>5 DEF Feedback, AssembleRecord, AssembleOperational, StopInv, StopReasonTrue
<1>6. CASE SkipAssembly
  BY <1>2, <1>6 DEF SkipAssembly, StopInv, StopReasonTrue
<1>7. CASE StopAtHead
  <2>1. /\ pc = "head" /\ late /\ pc' = "done" /\ stopReason' = "time_limit"
        /\ best' = best /\ late' = late
    BY <1>7 DEF StopAtHead, Finish, recordVars
  <2>2. ~TargetReached(best)
    BY <1>2, <2>1 DEF StopInv
  <2>3. QED
    BY <1>3, <2>1, <2>2 DEF StopInv, StopReasonTrue
<1>8. CASE CloseAndStop
  <2>1. /\ pc = "close" /\ pc' = "done" /\ stopReason' = ReasonAtClose
        /\ best' = best /\ late' = late /\ iterations' = iterations
        /\ TargetReached(best) \/ late \/ iteration = MaxIterations
    BY <1>8 DEF CloseAndStop, Finish, recordVars
  <2>2. stopReason = "max_iterations" /\ (~late => iterations = iteration)
    BY <1>2, <2>1 DEF StopInv
  <2>3. QED
    BY <1>3, <2>1, <2>2 DEF ReasonAtClose, StopInv, StopReasonTrue
<1>9. CASE CloseAndGoOn
  BY <1>2, <1>3, <1>9 DEF CloseAndGoOn, recordVars, StopInv, StopReasonTrue
<1>10. CASE DeadlinePasses
  BY <1>2, <1>3, <1>10 DEF DeadlinePasses, recordVars, StopInv, StopReasonTrue
<1>11. CASE UNCHANGED vars
  BY <1>2, <1>3, <1>11 DEF vars, recordVars, StopInv, StopReasonTrue
<1>12. QED
  BY <1>4, <1>5, <1>6, <1>7, <1>8, <1>9, <1>10, <1>11 DEF Next, Body
-----------------------------------------------------------------------------
(* The end of solve: the fallback is the initial solution or nothing.      *)
LEMMA FinishAnswers ==
  ASSUME IInv, pc # "done", NEW why, Finish(why), best' = best, initial' = initial
  PROVE  AnswerInv'
<1>1. fallback = IF initial.feasible THEN initial ELSE None
  BY DEF IInv, AnswerInv
<1>2. /\ initial \in Solution /\ best \in Optional(Solution)
      /\ best # None => best.feasible
  BY DEF IInv, Typed, RecordInv
<1>3. fallback' = IF FallbackDropped THEN None ELSE fallback
  BY DEF Finish
<1>4. /\ initial # None /\ initial.cost \in Int
      /\ best # None => best.cost \in Int
  BY <1>2, Constants DEF Optional
<1>5. CASE FallbackDropped
  <2>1. fallback' = None /\ best # None /\ fallback = initial
    BY <1>1, <1>3, <1>5 DEF FallbackDropped
  <2>2. best.cost <= initial.cost + Tol
    BY <1>4, <1>5, <2>1, Constants DEF FallbackDropped
  <2>3. Answer' = best
    BY <2>1 DEF Answer
  <2>4. QED
    BY <1>2, <1>4, <2>1, <2>2, <2>3 DEF AnswerInv, AnswerNeverWorse, Finish
<1>6. CASE ~FallbackDropped /\ initial.feasible
  <2>1. fallback' = initial /\ Answer' = initial
    BY <1>1, <1>3, <1>4, <1>6 DEF Answer
  <2>2. best # None => initial.cost <= best.cost
    BY <1>1, <1>4, <1>6, Constants DEF FallbackDropped
  <2>3. QED
    BY <1>4, <1>6, <2>1, <2>2, Constants DEF AnswerInv, AnswerNeverWorse, Finish
<1>7. CASE ~FallbackDropped /\ ~initial.feasible
  <2>1. fallback' = None /\ Answer' = best
    BY <1>1, <1>3, <1>7 DEF Answer
  <2>2. QED
    BY <1>2, <1>4, <1>7, <2>1 DEF AnswerInv, AnswerNeverWorse, Finish
<1>8. QED
  BY <1>5, <1>6, <1>7

\* Every step keeps the answer no worse than the record and the initial solution.
LEMMA AnswerKept == IInv /\ [Next]_vars => AnswerInv'
<1> SUFFICES ASSUME IInv, [Next]_vars PROVE AnswerInv'
  OBVIOUS
<1>1. initial' = initial
  BY QuestionStays
<1>2. CASE StopAtHead \/ CloseAndStop
  <2>1. pc # "done" /\ best' = best /\ \E why : Finish(why)
    BY <1>2 DEF StopAtHead, CloseAndStop, recordVars
  <2>2. QED
    BY <1>1, <2>1, FinishAnswers
<1>3. CASE \/ Perturb \/ Descend \/ Feedback \/ SkipAssembly \/ AssembleRecord
           \/ AssembleOperational \/ CloseAndGoOn \/ DeadlinePasses
  <2>1. pc # "done" /\ pc' # "done" /\ fallback' = fallback
    BY <1>3 DEF Perturb, Descend, Feedback, SkipAssembly, AssembleRecord,
       AssembleOperational, CloseAndGoOn, DeadlinePasses
  <2>2. QED
    BY <1>1, <2>1 DEF IInv, AnswerInv, AnswerNeverWorse
<1>4. CASE UNCHANGED vars
  BY <1>4 DEF IInv, AnswerInv, AnswerNeverWorse, Answer, vars, question, recordVars
<1>5. QED
  BY <1>2, <1>3, <1>4 DEF Next, Body
-----------------------------------------------------------------------------
(* The inductive invariant of the main loop (IlsSpSolver::solve).          *)
THEOREM LoopInvariant == Spec => []IInv
<1>1. IInv /\ [Next]_vars => IInv'
  BY TypedKept, AnchorKept, RecordKept, StopKept, AnswerKept DEF IInv
<1>2. QED
  BY InitIsInv, <1>1, PTL DEF Spec

(* Between iterations the return anchor is an endpoint of the present      *)
(* lambda, on which the search stands unless it walked away by counted     *)
(* carries (return_anchor, pending_p_carry of solve).                      *)
THEOREM AnchorHolds == Spec => []AnchorSound
<1>1. IInv => AnchorSound
  BY DEF IInv, AnchorInv, AnchorSound
<1>2. QED
  BY <1>1, LoopInvariant, PTL

(* The record is within tolerance of every solution the policy must        *)
(* record, however a round is cut short (record_candidate).                *)
THEOREM RecordHolds == Spec => []RecordCoversOffered
<1>1. IInv => RecordCoversOffered
  BY DEF IInv, RecordInv
<1>2. QED
  BY <1>1, LoopInvariant, PTL

(* The returned answer is feasible and no worse than the initial solution  *)
(* or the record (the end of solve).                                       *)
THEOREM AnswerHolds == Spec => []AnswerNeverWorse
<1>1. IInv => AnswerNeverWorse
  BY DEF IInv, AnswerInv
<1>2. QED
  BY <1>1, LoopInvariant, PTL

(* The stop reason tells the truth about target, deadline and iterations.  *)
THEOREM StopReasonHolds == Spec => []StopReasonTrue
<1>1. IInv => StopReasonTrue
  BY DEF IInv, StopInv
<1>2. QED
  BY <1>1, LoopInvariant, PTL

-----------------------------------------------------------------------------
(* Counting in sequences.                                                  *)

At(s, id) == {i \in DOMAIN s : s[i] = id}

\* Counts are numbers, and add up along a concatenation.
LEMMA TimesOfConcat ==
  ASSUME NEW A, NEW s \in Seq(A), NEW t \in Seq(A), NEW id
  PROVE  /\ Times(s, id) \in Nat /\ Times(t, id) \in Nat
         /\ s \o t \in Seq(A)
         /\ Times(s \o t, id) = Times(s, id) + Times(t, id)
<1>1. PICK n \in Nat : n = Len(s)
  OBVIOUS
<1>2. PICK m \in Nat : m = Len(t)
  OBVIOUS
<1>3. /\ DOMAIN s = 1..n /\ DOMAIN t = 1..m /\ DOMAIN (s \o t) = 1..(n + m)
      /\ \A i \in 1..n : (s \o t)[i] = s[i]
      /\ \A i \in 1..m : (s \o t)[n + i] = t[i]
  BY <1>1, <1>2
<1>4. IsFiniteSet(At(s, id)) /\ IsFiniteSet(At(t, id))
  <2>1. IsFiniteSet(1..n) /\ IsFiniteSet(1..m)
    BY FS_Interval
  <2> QED BY <2>1, <1>3, FS_Subset DEF At
<1>5. PICK f : f = [i \in At(t, id) |-> n + i]
  OBVIOUS
<1>6. PICK R : R = {n + i : i \in At(t, id)}
  OBVIOUS
<1>7. f \in Bijection(At(t, id), R)
  <2>1. \A i \in At(t, id) : i \in Int /\ f[i] = n + i
    BY <1>3, <1>5 DEF At
  <2>2. f \in Injection(At(t, id), R)
    <3>1. f \in [At(t, id) -> R]
      BY <1>5, <1>6
    <3>2. \A i, j \in At(t, id) : f[i] = f[j] => i = j
      BY <2>1
    <3> QED BY <3>1, <3>2 DEF Injection, IsInjective
  <2>3. f \in Surjection(At(t, id), R)
    BY <1>5, <1>6 DEF Surjection
  <2> QED BY <2>2, <2>3 DEF Bijection
<1>8. IsFiniteSet(R) /\ Cardinality(R) = Cardinality(At(t, id))
  <2>1. PICK S : S = At(t, id)
    OBVIOUS
  <2>2. IsFiniteSet(S) /\ f \in Bijection(S, R)
    BY <1>4, <1>7, <2>1
  <2>3. IsFiniteSet(R) /\ Cardinality(R) = Cardinality(S)
    BY <2>2, FS_Bijection DEF ExistsBijection
  <2> QED BY <2>1, <2>3
<1>9. At(s \o t, id) = At(s, id) \cup R
  <2>1. \A i \in 1..(n + m) : i \in 1..n \/ \E j \in 1..m : i = n + j
    <3> SUFFICES ASSUME NEW i \in 1..(n + m), i \notin 1..n
                 PROVE  \E j \in 1..m : i = n + j
      OBVIOUS
    <3>1. i - n \in 1..m /\ i = n + (i - n)
      OBVIOUS
    <3> QED BY <3>1
  <2>2. \A i \in 1..n : i \in 1..(n + m)
    OBVIOUS
  <2>3. \A i \in 1..m : n + i \in 1..(n + m)
    OBVIOUS
  <2> QED BY <2>1, <2>2, <2>3, <1>3, <1>6 DEF At
<1>10. At(s, id) \cap R = {}
  BY <1>3, <1>6 DEF At
<1>11. Cardinality(At(s \o t, id)) = Cardinality(At(s, id)) + Cardinality(At(t, id))
  <2>1. PICK S : S = At(s, id)
    OBVIOUS
  <2>2. Cardinality(S \cup R) = Cardinality(S) + Cardinality(R) - Cardinality(S \cap R)
    BY <1>4, <1>8, <2>1, FS_Union
  <2>3. Cardinality(S \cap R) = 0
    BY <1>10, <2>1, FS_EmptySet
  <2>4. Cardinality(S) \in Nat /\ Cardinality(R) \in Nat
    BY <1>4, <1>8, <2>1, FS_CardinalityType
  <2> QED BY <1>8, <1>9, <2>1, <2>2, <2>3, <2>4
<1>12. Cardinality(At(s, id)) \in Nat /\ Cardinality(At(t, id)) \in Nat
  BY <1>4, FS_CardinalityType
<1>13. \A r : Times(r, id) = Cardinality(At(r, id))
  BY DEF Times, At
<1>14. s \o t \in Seq(A)
  OBVIOUS
<1> QED BY <1>11, <1>12, <1>13, <1>14

\* One visit counts once.
LEMMA TimesOfOne ==
  ASSUME NEW x, NEW id
  PROVE  /\ Times(<<x>>, id) = IF x = id THEN 1 ELSE 0
         /\ Times(<< >>, id) = 0
<1>1. {i \in DOMAIN <<x>> : <<x>>[i] = id} = IF x = id THEN {1} ELSE {}
  OBVIOUS
<1>2. {i \in DOMAIN << >> : << >>[i] = id} = {}
  OBVIOUS
<1>3. Cardinality({1}) = 1 /\ Cardinality({}) = 0
  BY FS_Singleton, FS_EmptySet
<1> QED BY <1>1, <1>2, <1>3 DEF Times

\* One visit more at the end counts once.
LEMMA TimesOfAppend ==
  ASSUME NEW A, NEW s \in Seq(A), NEW x \in A, NEW id
  PROVE  /\ Append(s, x) \in Seq(A) /\ Times(s, id) \in Nat
         /\ Times(Append(s, x), id) = Times(s, id) + (IF x = id THEN 1 ELSE 0)
<1>1. PICK t : t = <<x>>
  OBVIOUS
<1>2. Append(s, x) = s \o t /\ t \in Seq(A) /\ Append(s, x) \in Seq(A)
  BY <1>1
<1>3. Times(s, id) \in Nat /\ Times(s \o t, id) = Times(s, id) + Times(t, id)
  BY <1>2, TimesOfConcat
<1>4. Times(t, id) = IF x = id THEN 1 ELSE 0
  BY <1>1, TimesOfOne
<1> QED BY <1>2, <1>3, <1>4

\* The same for three pieces.
LEMMA TimesOfThree ==
  ASSUME NEW A, NEW a \in Seq(A), NEW x \in A, NEW b \in Seq(A), NEW id
  PROVE  /\ a \o <<x>> \o b \in Seq(A) /\ a \o b \in Seq(A) /\ Times(a \o b, id) \in Nat
         /\ Times(a \o <<x>> \o b, id) = Times(a \o b, id) + (IF x = id THEN 1 ELSE 0)
<1>1. PICK t : t = Append(a, x)
  OBVIOUS
<1>2. t = a \o <<x>>
  BY <1>1
<1>2a. t \in Seq(A)
  BY <1>1
<1>3. Times(t, id) = Times(a, id) + (IF x = id THEN 1 ELSE 0) /\ Times(a, id) \in Nat
  BY <1>1, TimesOfAppend
<1>4. Times(t \o b, id) = Times(t, id) + Times(b, id) /\ t \o b \in Seq(A) /\ Times(b, id) \in Nat
  BY <1>2a, TimesOfConcat
<1>5. Times(a \o b, id) = Times(a, id) + Times(b, id) /\ a \o b \in Seq(A)
  BY TimesOfConcat
<1> QED BY <1>2, <1>3, <1>4, <1>5

\* A visit put in counts once more, a visit taken out once less.
LEMMA TimesOfInsert ==
  ASSUME NEW A, NEW s \in Seq(A), NEW i \in 1..(Len(s) + 1), NEW x \in A, NEW id
  PROVE  /\ InsertAt(s, i, x) \in Seq(A) /\ Times(s, id) \in Nat
         /\ Times(InsertAt(s, i, x), id) = Times(s, id) + (IF x = id THEN 1 ELSE 0)
<1>1. PICK a : a = SubSeq(s, 1, i - 1)
  OBVIOUS
<1>2. PICK b : b = SubSeq(s, i, Len(s))
  OBVIOUS
<1>3. a \in Seq(A) /\ b \in Seq(A)
  BY <1>1, <1>2
<1>4. s = a \o b
  <2>1. Len(s) \in Nat /\ i \in Nat
    OBVIOUS
  <2>2. 1 \in 1..(Len(s) + 1) /\ i - 1 \in (1 - 1)..Len(s) /\ Len(s) \in (i - 1)..Len(s) /\ (i - 1) + 1 = i
    BY <2>1
  <2>3. SubSeq(s, 1, i - 1) \o SubSeq(s, (i - 1) + 1, Len(s)) = SubSeq(s, 1, Len(s))
    BY <2>2, ConcatAdjacentSubSeq
  <2>4. SubSeq(s, 1, Len(s)) = s
    BY SubSeqFull
  <2> QED BY <1>1, <1>2, <2>2, <2>3, <2>4
<1>5. InsertAt(s, i, x) = a \o <<x>> \o b
  BY <1>1, <1>2 DEF InsertAt
<1> QED BY <1>3, <1>4, <1>5, TimesOfThree

\* A visit taken out counts once less.
LEMMA TimesOfRemove ==
  ASSUME NEW A, NEW s \in Seq(A), NEW i \in 1..Len(s), NEW id
  PROVE  /\ RemoveAt(s, i) \in Seq(A) /\ Times(RemoveAt(s, i), id) \in Nat
         /\ Times(s, id) = Times(RemoveAt(s, i), id) + (IF s[i] = id THEN 1 ELSE 0)
<1>1. PICK a : a = SubSeq(s, 1, i - 1)
  OBVIOUS
<1>2. PICK b : b = SubSeq(s, i + 1, Len(s))
  OBVIOUS
<1>3. a \in Seq(A) /\ b \in Seq(A) /\ s[i] \in A
  BY <1>1, <1>2
<1>4. s = a \o <<s[i]>> \o b
  <2>1. Len(s) \in Nat /\ i \in Nat
    OBVIOUS
  <2>2. 1 \in 1..(Len(s) + 1) /\ i \in (1 - 1)..Len(s) /\ Len(s) \in i..Len(s) /\ 1 \in 1..Len(s) /\ i \in 1..Len(s)
    BY <2>1
  <2>3. SubSeq(s, 1, i) \o SubSeq(s, i + 1, Len(s)) = SubSeq(s, 1, Len(s))
    BY <2>2, ConcatAdjacentSubSeq
  <2>4. SubSeq(s, 1, Len(s)) = s
    BY SubSeqFull
  <2>5. SubSeq(s, 1, i) = SubSeq(s, 1, i - 1) \o <<s[i]>>
    BY <2>2, SubSeqRecursiveSecond
  <2> QED BY <1>1, <1>2, <2>3, <2>4, <2>5
<1>5. RemoveAt(s, i) = a \o b
  BY <1>1, <1>2 DEF RemoveAt
<1>6. PICK y : y = s[i]
  OBVIOUS
<1>7. /\ a \o b \in Seq(A) /\ Times(a \o b, id) \in Nat
      /\ Times(a \o <<y>> \o b, id) = Times(a \o b, id) + (IF y = id THEN 1 ELSE 0)
  BY <1>3, <1>6, TimesOfThree
<1> QED BY <1>4, <1>5, <1>6, <1>7

\* Distinct entries with distinct entries of their own make distinct entries.
LEMMA DistinctConcat ==
  ASSUME NEW A, NEW s \in Seq(A), NEW t \in Seq(A)
  PROVE  /\ s \o t \in Seq(A)
         /\ Range(s \o t) = Range(s) \cup Range(t)
         /\ IsInjective(s) /\ IsInjective(t) /\ Range(s) \cap Range(t) = {} => IsInjective(s \o t)
<1>1. PICK n \in Nat : n = Len(s)
  OBVIOUS
<1>2. PICK m \in Nat : m = Len(t)
  OBVIOUS
<1>3. PICK w : w = s \o t
  OBVIOUS
<1>4. /\ DOMAIN s = 1..n /\ DOMAIN t = 1..m /\ DOMAIN w = 1..(n + m)
      /\ \A i \in 1..n : w[i] = s[i]
      /\ \A i \in 1..m : w[n + i] = t[i]
  BY <1>1, <1>2, <1>3
<1>5. \A i \in 1..(n + m) : i \in 1..n \/ \E j \in 1..m : i = n + j
  <2> SUFFICES ASSUME NEW i \in 1..(n + m), i \notin 1..n
               PROVE  \E j \in 1..m : i = n + j
    OBVIOUS
  <2>1. i - n \in 1..m /\ i = n + (i - n)
    OBVIOUS
  <2> QED BY <2>1
<1>6. \A i \in 1..n : i \in 1..(n + m)
  OBVIOUS
<1>7. \A i \in 1..m : n + i \in 1..(n + m)
  OBVIOUS
<1>8. Range(w) = Range(s) \cup Range(t)
  <2>1. ASSUME NEW x \in Range(w)
        PROVE  x \in Range(s) \cup Range(t)
    <3>1. PICK i \in 1..(n + m) : x = w[i]
      BY <1>4 DEF Range
    <3>2. CASE i \in 1..n
      BY <1>4, <3>1, <3>2 DEF Range
    <3>3. CASE i \notin 1..n
      <4>1. PICK j \in 1..m : i = n + j
        BY <1>5, <3>3
      <4>2. x = t[j]
        BY <1>4, <3>1, <4>1
      <4> QED BY <1>4, <4>2 DEF Range
    <3> QED BY <3>2, <3>3
  <2>2. ASSUME NEW x \in Range(s)
        PROVE  x \in Range(w)
    <3>1. PICK i \in 1..n : x = s[i]
      BY <1>4 DEF Range
    <3> QED BY <1>4, <1>6, <3>1 DEF Range
  <2>3. ASSUME NEW x \in Range(t)
        PROVE  x \in Range(w)
    <3>1. PICK i \in 1..m : x = t[i]
      BY <1>4 DEF Range
    <3>2. n + i \in DOMAIN w /\ w[n + i] = x
      BY <1>4, <1>7, <3>1
    <3> QED BY <3>2 DEF Range
  <2> QED BY <2>1, <2>2, <2>3
<1>9. ASSUME IsInjective(s), IsInjective(t), Range(s) \cap Range(t) = {}
      PROVE  IsInjective(w)
  <2>1. \A i \in 1..n : \A j \in 1..m : s[i] # t[j]
    BY <1>4, <1>9 DEF Range
  <2> SUFFICES ASSUME NEW a \in 1..(n + m), NEW b \in 1..(n + m), w[a] = w[b]
               PROVE  a = b
    BY <1>4 DEF IsInjective
  <2>2. CASE a \in 1..n /\ b \in 1..n
    BY <1>4, <1>9, <2>2 DEF IsInjective
  <2>3. CASE a \in 1..n /\ \E j \in 1..m : b = n + j
    <3>1. PICK j \in 1..m : b = n + j
      BY <2>3
    <3>2. w[a] = s[a] /\ w[b] = t[j]
      BY <1>4, <2>3, <3>1
    <3> QED BY <2>1, <2>3, <3>2
  <2>4. CASE b \in 1..n /\ \E j \in 1..m : a = n + j
    <3>1. PICK j \in 1..m : a = n + j
      BY <2>4
    <3>2. w[b] = s[b] /\ w[a] = t[j]
      BY <1>4, <2>4, <3>1
    <3> QED BY <2>1, <2>4, <3>2
  <2>5. CASE (\E j \in 1..m : a = n + j) /\ (\E j \in 1..m : b = n + j)
    <3>1. PICK j \in 1..m : a = n + j
      BY <2>5
    <3>2. PICK k \in 1..m : b = n + k
      BY <2>5
    <3>3. t[j] = t[k]
      BY <1>4, <3>1, <3>2
    <3>4. j = k
      BY <1>4, <1>9, <3>3 DEF IsInjective
    <3> QED BY <3>1, <3>2, <3>4
  <2> QED BY <1>5, <2>2, <2>3, <2>4, <2>5
<1>10. w \in Seq(A)
  BY <1>3
<1> QED BY <1>3, <1>8, <1>9, <1>10

-----------------------------------------------------------------------------
(* What Entries keeps of a sequence.                                       *)

EntriesRun(h, seq, positions) ==
  h = [n \in 0 .. Len(seq) |->
         IF n = 0 THEN << >>
         ELSE IF n \in positions THEN Append(h[n - 1], seq[n]) ELSE h[n - 1]]

Collects(h, A, seq, positions) ==
  /\ h[0] = << >> /\ h[Len(seq)] = Entries(seq, positions)
  /\ \A n \in 0..Len(seq) : h[n] \in Seq(A)
  /\ \A n \in 1..Len(seq) :
       h[n] = IF n \in positions THEN Append(h[n - 1], seq[n]) ELSE h[n - 1]

\* Entries collects from the first position to the last.
LEMMA EntriesCollect ==
  ASSUME NEW A, NEW seq \in Seq(A), NEW positions
  PROVE  \E h : Collects(h, A, seq, positions)
<1>1. PICK N \in Nat : N = Len(seq)
  OBVIOUS
<1>2. PICK step : step = [n \in 1..N |-> [v \in Seq(A) |->
                            IF n \in positions THEN Append(v, seq[n]) ELSE v]]
  OBVIOUS
<1>3. \A n \in 1..N, v \in Seq(A) :
        step[n][v] = IF n \in positions THEN Append(v, seq[n]) ELSE v
  BY <1>2
<1>4. StepsInto(step, 1..N, Seq(A))
  <2> SUFFICES ASSUME NEW n \in 1..N, NEW v \in Seq(A)
               PROVE  step[n][v] \in Seq(A)
    BY DEF StepsInto
  <2>1. PICK x \in A : x = seq[n]
    BY <1>1
  <2>2. Append(v, x) \in Seq(A)
    OBVIOUS
  <2> QED BY <1>3, <2>1, <2>2
<1>5. PICK p \in [0..N -> Seq(A)] : Running(p, N, Seq(A), << >>, step)
  <2>1. << >> \in Seq(A)
    OBVIOUS
  <2> QED BY <1>4, <2>1, RunExists
<1>6. EntriesRun(p, seq, positions)
  <2>1. ASSUME NEW n \in 0..N
        PROVE  p[n] = IF n = 0 THEN << >>
                      ELSE IF n \in positions THEN Append(p[n - 1], seq[n]) ELSE p[n - 1]
    <3>1. CASE n = 0
      BY <1>5, <3>1 DEF Running
    <3>2. CASE n # 0
      <4>1. n \in 1..N /\ n - 1 \in 0..N
        BY <3>2
      <4> QED BY <1>3, <1>5, <3>2, <4>1 DEF Running
    <3> QED BY <3>1, <3>2
  <2> QED BY <1>1, <1>5, <2>1 DEF EntriesRun
<1>7. PICK h : h = CHOOSE g : EntriesRun(g, seq, positions)
  OBVIOUS
<1>8. EntriesRun(h, seq, positions)
  BY <1>6, <1>7
<1>9. h[N] = Entries(seq, positions)
  BY <1>1, <1>7 DEF Entries, EntriesRun
<1>10. h[0] = << >>
  BY <1>1, <1>8 DEF EntriesRun
<1>11. \A n \in 1..N : h[n] = IF n \in positions THEN Append(h[n - 1], seq[n]) ELSE h[n - 1]
  <2> SUFFICES ASSUME NEW n \in 1..N
               PROVE  h[n] = IF n \in positions THEN Append(h[n - 1], seq[n]) ELSE h[n - 1]
    OBVIOUS
  <2>1. n \in 0..N /\ n # 0
    OBVIOUS
  <2> QED BY <1>1, <1>8, <2>1 DEF EntriesRun
<1>12. PICK K : K = {n \in 0..N : h[n] \in Seq(A)}
  OBVIOUS
<1>13. \A n \in 0..N : n \in K
  <2>1. 0 \in K
    <3>1. 0 \in 0..N /\ << >> \in Seq(A)
      OBVIOUS
    <3> QED BY <1>10, <1>12, <3>1
  <2>2. ASSUME NEW n \in 1..N, n - 1 \in K
        PROVE  n \in K
    <3>1. h[n - 1] \in Seq(A) /\ n \in 0..N
      BY <1>12, <2>2
    <3>2. PICK v \in Seq(A) : v = h[n - 1]
      BY <3>1
    <3>3. PICK x \in A : x = seq[n]
      BY <1>1
    <3>4. Append(v, x) \in Seq(A)
      OBVIOUS
    <3>5. h[n] = IF n \in positions THEN Append(v, x) ELSE v
      BY <1>11, <3>2, <3>3
    <3> QED BY <1>12, <3>1, <3>4, <3>5
  <2> QED BY <2>1, <2>2, UpTo
<1> QED BY <1>1, <1>9, <1>10, <1>11, <1>12, <1>13 DEF Collects

\* Entries are entries of the sequence at the positions, each as often as
\* those positions have it.
LEMMA EntriesCounted ==
  ASSUME NEW A, NEW seq \in Seq(A), NEW positions, NEW id
  PROVE  /\ Entries(seq, positions) \in Seq(A)
         /\ Times(Entries(seq, positions), id)
              = Cardinality({i \in DOMAIN seq : i \in positions /\ seq[i] = id})
<1>1. PICK N \in Nat : N = Len(seq)
  OBVIOUS
<1>2. PICK h : Collects(h, A, seq, positions)
  BY EntriesCollect
<1>3. /\ h[0] = << >> /\ h[N] = Entries(seq, positions)
      /\ \A n \in 0..N : h[n] \in Seq(A)
      /\ \A n \in 1..N : h[n] = IF n \in positions THEN Append(h[n - 1], seq[n]) ELSE h[n - 1]
  BY <1>1, <1>2 DEF Collects
<1> DEFINE Before(n) == {i \in 1..n : i \in positions /\ seq[i] = id}
<1>4. PICK K : K = {n \in 0..N : Times(h[n], id) = Cardinality(Before(n))}
  OBVIOUS
<1>5. \A n \in 0..N : n \in K
  <2>1. 0 \in K
    <3>1. Before(0) = {}
      OBVIOUS
    <3>2. Cardinality(Before(0)) = 0 /\ 0 \in 0..N
      BY <3>1, FS_EmptySet
    <3>3. Times(h[0], id) = 0
      BY <1>3, TimesOfOne
    <3> HIDE DEF Before
    <3> QED BY <1>4, <3>2, <3>3
  <2>2. ASSUME NEW n \in 1..N, n - 1 \in K
        PROVE  n \in K
    <3>1. n - 1 \in 0..N /\ n \in 0..N
      OBVIOUS
    <3>2. h[n - 1] \in Seq(A) /\ seq[n] \in A
      BY <1>1, <1>3, <3>1
    <3>3. Times(h[n - 1], id) = Cardinality(Before(n - 1))
      BY <1>4, <2>2
    <3>4. IsFiniteSet(Before(n - 1)) /\ n \notin Before(n - 1)
      <4>1. IsFiniteSet(1..(n - 1))
        BY FS_Interval
      <4> QED BY <4>1, FS_Subset
    <3>5. Before(n) = Before(n - 1) \cup (IF n \in positions /\ seq[n] = id THEN {n} ELSE {})
      OBVIOUS
    <3>6. Cardinality(Before(n)) =
            Cardinality(Before(n - 1)) + (IF n \in positions /\ seq[n] = id THEN 1 ELSE 0)
      <4>1. PICK B : B = Before(n - 1)
        OBVIOUS
      <4>2. Cardinality(B \cup {n}) = Cardinality(B) + 1 /\ Cardinality(B) \in Nat
        BY <3>4, <4>1, FS_AddElement, FS_CardinalityType
      <4> HIDE DEF Before
      <4>3. CASE n \in positions /\ seq[n] = id
        BY <3>5, <4>1, <4>2, <4>3
      <4>4. CASE ~(n \in positions /\ seq[n] = id)
        <5>1. Before(n) = B
          BY <3>5, <4>1, <4>4
        <5> QED BY <4>1, <4>2, <4>4, <5>1
      <4> QED BY <4>3, <4>4
    <3>7. Times(h[n], id) = Times(h[n - 1], id) + (IF n \in positions /\ seq[n] = id THEN 1 ELSE 0)
      <4>1. PICK s : s = h[n - 1]
        OBVIOUS
      <4>2. PICK x : x = seq[n]
        OBVIOUS
      <4>3. Times(Append(s, x), id) = Times(s, id) + (IF x = id THEN 1 ELSE 0) /\ Times(s, id) \in Nat
        BY <3>2, <4>1, <4>2, TimesOfAppend
      <4>4. h[n] = IF n \in positions THEN Append(s, x) ELSE s
        BY <1>3, <4>1, <4>2
      <4> QED BY <4>1, <4>2, <4>3, <4>4
    <3> QED BY <1>4, <3>1, <3>3, <3>6, <3>7
  <2> QED BY <2>1, <2>2, UpTo
<1>6. Times(h[N], id) = Cardinality(Before(N)) /\ h[N] \in Seq(A)
  <2>1. N \in 0..N
    OBVIOUS
  <2> QED BY <1>3, <1>4, <1>5, <2>1
<1>7. Before(N) = {i \in DOMAIN seq : i \in positions /\ seq[i] = id}
  BY <1>1
<1> HIDE DEF Before
<1> QED BY <1>3, <1>6, <1>7

\* Of distinct entries, distinct ones are kept.
LEMMA EntriesDistinct ==
  ASSUME NEW A, NEW seq \in Seq(A), NEW positions, IsInjective(seq)
  PROVE  /\ Entries(seq, positions) \in Seq(A)
         /\ IsInjective(Entries(seq, positions))
         /\ Range(Entries(seq, positions)) = {seq[i] : i \in {i \in DOMAIN seq : i \in positions}}
<1>1. PICK N \in Nat : N = Len(seq)
  OBVIOUS
<1>2. PICK h : Collects(h, A, seq, positions)
  BY EntriesCollect
<1>3. /\ h[0] = << >> /\ h[N] = Entries(seq, positions)
      /\ \A n \in 0..N : h[n] \in Seq(A)
      /\ \A n \in 1..N : h[n] = IF n \in positions THEN Append(h[n - 1], seq[n]) ELSE h[n - 1]
  BY <1>1, <1>2 DEF Collects
<1> DEFINE Before(n) == {seq[i] : i \in {i \in 1..n : i \in positions}}
<1>4. PICK K : K = {n \in 0..N : IsInjective(h[n]) /\ Range(h[n]) = Before(n)}
  OBVIOUS
<1>5. \A n \in 0..N : n \in K
  <2>1. 0 \in K
    <3>1. 0 \in 0..N /\ Before(0) = {}
      OBVIOUS
    <3>2. IsInjective(<< >>) /\ Range(<< >>) = {}
      BY DEF IsInjective, Range
    <3> QED BY <1>3, <1>4, <3>1, <3>2
  <2>2. ASSUME NEW n \in 1..N, n - 1 \in K
        PROVE  n \in K
    <3>1. n - 1 \in 0..N /\ n \in 0..N /\ DOMAIN seq = 1..N
      BY <1>1
    <3>2. PICK s : s = h[n - 1]
      OBVIOUS
    <3>3. s \in Seq(A) /\ IsInjective(s) /\ Range(s) = Before(n - 1)
      BY <1>3, <1>4, <2>2, <3>1, <3>2
    <3>4. CASE n \in positions
      <4>1. PICK m \in Nat : m = Len(s)
        BY <3>3
      <4>2. PICK t : t = Append(s, seq[n])
        OBVIOUS
      <4>3. /\ DOMAIN s = 1..m /\ DOMAIN t = 1..(m + 1)
            /\ \A i \in 1..m : t[i] = s[i]
            /\ t[m + 1] = seq[n]
        BY <3>3, <4>1, <4>2
      <4>4. seq[n] \notin Before(n - 1)
        BY <3>1 DEF IsInjective
      <4>5. \A i \in 1..m : s[i] # seq[n]
        BY <3>3, <4>3, <4>4 DEF Range
      <4>6. \A i \in 1..(m + 1) : i \in 1..m \/ i = m + 1
        OBVIOUS
      <4>7. IsInjective(t)
        BY <3>3, <4>3, <4>5, <4>6 DEF IsInjective
      <4>8. Range(t) = Range(s) \cup {seq[n]}
        BY <4>3, <4>6 DEF Range
      <4>9. Before(n) = Before(n - 1) \cup {seq[n]}
        <5>1. {i \in 1..n : i \in positions} = {i \in 1..(n - 1) : i \in positions} \cup {n}
          BY <3>4
        <5> QED BY <5>1
      <4>10. h[n] = t
        BY <1>3, <3>2, <3>4, <4>2
      <4> QED BY <1>4, <3>1, <3>3, <4>7, <4>8, <4>9, <4>10
    <3>5. CASE n \notin positions
      <4>1. {i \in 1..n : i \in positions} = {i \in 1..(n - 1) : i \in positions}
        BY <3>5
      <4>2. h[n] = s
        BY <1>3, <3>2, <3>5
      <4> QED BY <1>4, <3>1, <3>3, <4>1, <4>2
    <3> QED BY <3>4, <3>5
  <2> QED BY <2>1, <2>2, UpTo
<1>6. N \in 0..N
  OBVIOUS
<1>7. IsInjective(h[N]) /\ Range(h[N]) = Before(N) /\ h[N] \in Seq(A)
  BY <1>3, <1>4, <1>5, <1>6
<1>8. Before(N) = {seq[i] : i \in {i \in DOMAIN seq : i \in positions}}
  <2>1. DOMAIN seq = 1..N
    BY <1>1
  <2> QED BY Zenon, <2>1
<1> HIDE DEF Before
<1> QED BY Zenon, <1>3, <1>7, <1>8

-----------------------------------------------------------------------------
(* What FlattenSeq makes of sequences.                                     *)

TimesOf(seqs, id) == [r \in DOMAIN seqs |-> Times(seqs[r], id)]

OccurrenceSum(g, seqs, id) ==
  g = [s \in SUBSET (DOMAIN seqs) |-> IF s = {} THEN 0
                                      ELSE LET x == Pick(s) IN Times(seqs[x], id) + g[s \ {x}]]

\* Occurrences is the sum of the counts.
LEMMA OccurrencesTotal ==
  ASSUME NEW A, NEW seqs \in Seq(Seq(A)), NEW id
  PROVE  /\ \A r \in DOMAIN seqs : TimesOf(seqs, id)[r] = Times(seqs[r], id) /\ Times(seqs[r], id) \in Nat
         /\ IsFiniteSet(DOMAIN seqs)
         /\ Occurrences(seqs, id) = Total(TimesOf(seqs, id), DOMAIN seqs)
         /\ Occurrences(seqs, id) \in Int
<1>1. PICK f : f = TimesOf(seqs, id)
  OBVIOUS
<1>2. PICK S : S = DOMAIN seqs
  OBVIOUS
<1>3. IsFiniteSet(S)
  BY <1>2, FS_Interval
<1>4. \A r \in S : f[r] = Times(seqs[r], id) /\ Times(seqs[r], id) \in Nat
  <2> SUFFICES ASSUME NEW r \in S
               PROVE  f[r] = Times(seqs[r], id) /\ Times(seqs[r], id) \in Nat
    OBVIOUS
  <2>1. seqs[r] \in Seq(A)
    BY <1>2
  <2>2. Times(seqs[r], id) \in Nat
    BY <2>1, TimesOfConcat
  <2> QED BY <1>1, <1>2, <2>2 DEF TimesOf
<1>5. \A g : Sums(g, f, S) <=> OccurrenceSum(g, seqs, id)
  <2>1. \A s \in SUBSET S : s # {} => Pick(s) \in S
    BY DEF Pick
  <2> QED BY <1>2, <1>4, <2>1 DEF Sums, OccurrenceSum
<1>6. \E g : OccurrenceSum(g, seqs, id)
  <2>1. \A x \in S : f[x] \in Int
    BY <1>4
  <2>2. \E g : Sums(g, f, S)
    BY <1>3, <2>1, TotalSums
  <2> QED BY <1>5, <2>2
<1>7. PICK it : it = CHOOSE g : OccurrenceSum(g, seqs, id)
  OBVIOUS
<1>8. Sums(it, f, S)
  BY <1>5, <1>6, <1>7
<1>9. it[S] = Total(f, S) /\ Total(f, S) \in Int
  BY <1>3, <1>4, <1>8, TotalUnique, TotalType
<1>10. Occurrences(seqs, id) = it[S]
  BY <1>2, <1>7 DEF Occurrences, MapThenSumSet, MapThenFoldSet, OccurrenceSum, Pick
<1> QED BY <1>1, <1>2, <1>3, <1>4, <1>9, <1>10

\* Nothing is lost by joining sequences.
LEMMA FlattenCounted ==
  ASSUME NEW A, NEW seqs \in Seq(Seq(A)), NEW id
  PROVE  /\ FlattenSeq(seqs) \in Seq(A)
         /\ Times(FlattenSeq(seqs), id) = Occurrences(seqs, id)
<1>1. PICK N \in Nat : N = Len(seqs)
  OBVIOUS
<1>2. PICK h : Joins(h, A, seqs)
  BY FlattenJoins
<1>3. /\ h[0] = << >> /\ h[N] = FlattenSeq(seqs)
      /\ \A n \in 0..N : h[n] \in Seq(A)
      /\ \A n \in 1..N : h[n] = h[n - 1] \o seqs[n]
  BY <1>1, <1>2 DEF Joins
<1>4. PICK f : f = TimesOf(seqs, id)
  OBVIOUS
<1>5. /\ \A n \in 1..N : f[n] = Times(seqs[n], id) /\ f[n] \in Int /\ seqs[n] \in Seq(A)
      /\ Occurrences(seqs, id) = Total(f, 1..N)
  <2>1. DOMAIN seqs = 1..N
    BY <1>1
  <2> QED BY <1>4, <2>1, OccurrencesTotal
<1>6. PICK K : K = {n \in 0..N : Times(h[n], id) = Total(f, 1..n)}
  OBVIOUS
<1>7. \A n \in 0..N : n \in K
  <2>1. 0 \in K
    <3>1. Times(h[0], id) = 0
      BY <1>3, TimesOfOne
    <3>2. Total(f, 1..0) = 0
      BY <1>5, TotalNext
    <3> QED BY <1>6, <3>1, <3>2
  <2>2. ASSUME NEW n \in 1..N, n - 1 \in K
        PROVE  n \in K
    <3>1. Total(f, 1..n) = Total(f, 1..(n - 1)) + f[n]
      BY <1>5, TotalNext
    <3>2. n - 1 \in 0..N /\ n \in 0..N
      OBVIOUS
    <3>3. PICK s \in Seq(A) : s = h[n - 1]
      BY <1>3, <3>2
    <3>4. PICK t \in Seq(A) : t = seqs[n]
      BY <1>5
    <3>5. Times(s \o t, id) = Times(s, id) + Times(t, id)
      BY TimesOfConcat
    <3>6. h[n] = s \o t /\ f[n] = Times(t, id) /\ Times(s, id) = Total(f, 1..(n - 1))
      BY <1>3, <1>5, <1>6, <2>2, <3>3, <3>4
    <3> QED BY <1>6, <3>1, <3>2, <3>5, <3>6
  <2> QED BY <2>1, <2>2, UpTo
<1>8. N \in 0..N
  OBVIOUS
<1> QED BY <1>3, <1>5, <1>6, <1>7, <1>8

\* Joining distinct entries of sequences that have none in common keeps them distinct.
LEMMA FlattenDistinct ==
  ASSUME NEW A, NEW seqs \in Seq(Seq(A)),
         \A p \in DOMAIN seqs : IsInjective(seqs[p]),
         \A p, q \in DOMAIN seqs : p # q => Range(seqs[p]) \cap Range(seqs[q]) = {}
  PROVE  /\ FlattenSeq(seqs) \in Seq(A)
         /\ IsInjective(FlattenSeq(seqs))
         /\ Range(FlattenSeq(seqs)) = UNION {Range(seqs[p]) : p \in DOMAIN seqs}
<1>1. PICK N \in Nat : N = Len(seqs)
  OBVIOUS
<1>2. PICK h : Joins(h, A, seqs)
  BY FlattenJoins
<1>3. /\ h[0] = << >> /\ h[N] = FlattenSeq(seqs)
      /\ \A n \in 0..N : h[n] \in Seq(A)
      /\ \A n \in 1..N : h[n] = h[n - 1] \o seqs[n]
  BY <1>1, <1>2 DEF Joins
<1> DEFINE Before(n) == UNION {Range(seqs[p]) : p \in 1..n}
<1>4. PICK K : K = {n \in 0..N : IsInjective(h[n]) /\ Range(h[n]) = Before(n)}
  OBVIOUS
<1>5. \A n \in 0..N : n \in K
  <2>1. 0 \in K
    <3>1. 0 \in 0..N /\ Before(0) = {}
      OBVIOUS
    <3>2. IsInjective(<< >>) /\ Range(<< >>) = {}
      BY DEF IsInjective, Range
    <3> QED BY <1>3, <1>4, <3>1, <3>2
  <2>2. ASSUME NEW n \in 1..N, n - 1 \in K
        PROVE  n \in K
    <3>1. n - 1 \in 0..N /\ n \in 0..N /\ DOMAIN seqs = 1..N
      BY <1>1
    <3>2. PICK s \in Seq(A) : s = h[n - 1]
      BY <1>3, <3>1
    <3>3. PICK t \in Seq(A) : t = seqs[n]
      BY <1>1
    <3>4. IsInjective(s) /\ Range(s) = Before(n - 1) /\ IsInjective(t)
      BY <1>4, <2>2, <3>1, <3>2, <3>3
    <3>5. Before(n - 1) \cap Range(t) = {}
      <4>1. \A p \in 1..(n - 1) : p \in DOMAIN seqs /\ p # n
        BY <3>1
      <4> QED BY <3>1, <3>3, <4>1
    <3>6. IsInjective(s \o t) /\ Range(s \o t) = Range(s) \cup Range(t)
      BY <3>4, <3>5, DistinctConcat
    <3>7. Before(n) = Before(n - 1) \cup Range(t)
      <4>1. 1..n = 1..(n - 1) \cup {n}
        OBVIOUS
      <4> QED BY <3>3, <4>1
    <3>8. h[n] = s \o t
      BY <1>3, <3>2, <3>3
    <3> QED BY <1>4, <3>1, <3>4, <3>6, <3>7, <3>8
  <2> QED BY <2>1, <2>2, UpTo
<1>6. N \in 0..N
  OBVIOUS
<1>7. IsInjective(h[N]) /\ Range(h[N]) = Before(N) /\ h[N] \in Seq(A)
  BY <1>3, <1>4, <1>5, <1>6
<1> QED BY <1>1, <1>3, <1>7

-----------------------------------------------------------------------------
(* What a perturbation takes out.                                          *)

Below(key, S, x) == {y \in S : LexLess(key[y], key[x])}

\* Keys that differ give every place in the order to an element.
LEMMA PlacesTaken ==
  ASSUME NEW S, IsFiniteSet(S), NEW key, TellsApart(key, S),
         NEW k \in 0..(Cardinality(S) - 1)
  PROVE  \E x \in S : Cardinality(Below(key, S, x)) = k
<1>1. PICK N \in Nat : N = Cardinality(S)
  BY FS_CardinalityType
<1>2. PICK rank : rank = [x \in S |-> Cardinality(Below(key, S, x))]
  OBVIOUS
<1>3. ASSUME NEW x \in S
      PROVE  /\ IsFiniteSet(Below(key, S, x)) /\ Cardinality(Below(key, S, x)) \in Nat
             /\ x \notin Below(key, S, x) /\ Below(key, S, x) \subseteq S
  <2>1. Below(key, S, x) \subseteq S
    BY DEF Below
  <2>2. x \notin Below(key, S, x)
    BY LexIrreflexive DEF Below, TellsApart
  <2> QED BY <2>1, <2>2, FS_Subset, FS_CardinalityType
<1>4. ASSUME NEW x \in S, NEW y \in S, LexLess(key[x], key[y])
      PROVE  Cardinality(Below(key, S, x)) < Cardinality(Below(key, S, y))
  <2>1. PICK B : B = Below(key, S, x)
    OBVIOUS
  <2>2. PICK C : C = Below(key, S, y)
    OBVIOUS
  <2>3. B \cup {x} \subseteq C
    <3>1. x \in C
      BY <1>4, <2>2 DEF Below
    <3>2. ASSUME NEW z \in B
          PROVE  z \in C
      <4>1. z \in S /\ LexLess(key[z], key[x])
        BY <2>1 DEF Below
      <4>2. key[x] \in Seq(Int) /\ key[y] \in Seq(Int) /\ key[z] \in Seq(Int)
        BY <4>1 DEF TellsApart
      <4>3. LexLess(key[z], key[y])
        BY <1>4, <4>1, <4>2, LexTransitive
      <4> QED BY <2>2, <4>1, <4>3 DEF Below
    <3> QED BY <3>1, <3>2
  <2>4. IsFiniteSet(B) /\ Cardinality(B) \in Nat /\ x \notin B /\ IsFiniteSet(C) /\ Cardinality(C) \in Nat
    BY <1>3, <2>1, <2>2
  <2>5. Cardinality(B \cup {x}) = Cardinality(B) + 1
    BY <2>4, FS_AddElement
  <2>6. Cardinality(B \cup {x}) <= Cardinality(C)
    BY <2>3, <2>4, FS_Subset
  <2>7. Cardinality(B) < Cardinality(C)
    BY <2>4, <2>5, <2>6
  <2> QED BY <2>1, <2>2, <2>7
<1>5. \A x \in S : rank[x] \in 0..(N - 1)
  <2> SUFFICES ASSUME NEW x \in S
               PROVE  rank[x] \in 0..(N - 1)
    OBVIOUS
  <2>1. PICK B : B = Below(key, S, x)
    OBVIOUS
  <2>2. B \subseteq S \ {x} /\ Cardinality(B) \in Nat
    BY <1>3, <2>1
  <2>3. IsFiniteSet(S \ {x}) /\ Cardinality(S \ {x}) = N - 1
    BY <1>1, FS_RemoveElement
  <2>4. Cardinality(B) <= N - 1
    BY <2>2, <2>3, FS_Subset
  <2> QED BY <1>1, <1>2, <2>1, <2>2, <2>4
<1>6. \A x, y \in S : rank[x] = rank[y] => x = y
  <2> SUFFICES ASSUME NEW x \in S, NEW y \in S, x # y
               PROVE  rank[x] # rank[y]
    OBVIOUS
  <2>1. LexLess(key[x], key[y]) \/ LexLess(key[y], key[x])
    BY LexTotal DEF TellsApart
  <2>2. Cardinality(Below(key, S, x)) \in Nat /\ Cardinality(Below(key, S, y)) \in Nat
    BY <1>3
  <2>3. Cardinality(Below(key, S, x)) # Cardinality(Below(key, S, y))
    BY <1>4, <2>1, <2>2
  <2> QED BY <1>2, <2>3
<1>7. PICK I : I = 0..(N - 1)
  OBVIOUS
<1>8. IsFiniteSet(I) /\ Cardinality(I) = N
  BY <1>1, <1>7, FS_Interval
<1>9. rank \in Injection(S, I)
  BY <1>2, <1>5, <1>6, <1>7 DEF Injection, IsInjective
<1>10. rank \in Surjection(S, I)
  BY <1>1, <1>8, <1>9, FS_Injection
<1>11. PICK x \in S : rank[x] = k
  BY <1>1, <1>7, <1>10 DEF Surjection
<1> QED BY <1>2, <1>11

Lists(q, S, key) ==
  /\ q = [n \in 1..Cardinality(S) |-> q[n]]
  /\ \A n \in 1..Cardinality(S), x \in S :
       Cardinality(Below(key, S, x)) = n - 1
         => q[n] \in S /\ Cardinality(Below(key, S, q[n])) = n - 1

\* A list in the order of such keys has every place taken once.
LEMMA ListIsDistinct ==
  ASSUME NEW S, IsFiniteSet(S), NEW key, TellsApart(key, S), NEW q, Lists(q, S, key)
  PROVE  q \in Seq(S) /\ Len(q) = Cardinality(S) /\ IsInjective(q)
<1>1. PICK N \in Nat : N = Cardinality(S)
  BY FS_CardinalityType
<1>2. ASSUME NEW n \in 1..N
      PROVE  q[n] \in S /\ Cardinality(Below(key, S, q[n])) = n - 1
  <2>1. n - 1 \in 0..(N - 1)
    OBVIOUS
  <2>2. \E x \in S : Cardinality(Below(key, S, x)) = n - 1
    BY <1>1, <2>1, PlacesTaken
  <2> QED BY <1>1, <2>2 DEF Lists
<1>3. ASSUME NEW m \in 1..N, NEW n \in 1..N, q[m] = q[n]
      PROVE  m = n
  <2>1. m - 1 = n - 1
    BY <1>2, <1>3
  <2> QED BY <2>1
<1>4. q = [n \in 1..N |-> q[n]]
  BY <1>1 DEF Lists
<1>5. q \in Seq(S) /\ Len(q) = N
  BY <1>1, <1>2, <1>4
<1> QED BY <1>1, <1>3, <1>4, <1>5 DEF IsInjective

\* Sorted makes such a list.
LEMMA SortedIsDistinct ==
  ASSUME NEW S, IsFiniteSet(S), NEW key, TellsApart(key, S)
  PROVE  /\ Sorted(S, key) \in Seq(S) /\ IsInjective(Sorted(S, key))
         /\ Len(Sorted(S, key)) = Cardinality(S)
<1>1. PICK q : q = Sorted(S, key)
  OBVIOUS
<1> DEFINE nth(n) == CHOOSE x \in S : Cardinality({y \in S : LexLess(key[y], key[x])}) = n - 1
<1>2. q = [n \in 1..Cardinality(S) |-> nth(n)]
  BY <1>1, Zenon DEF Sorted
<1>3. ASSUME NEW n \in 1..Cardinality(S), NEW x \in S, Cardinality(Below(key, S, x)) = n - 1
      PROVE  q[n] \in S /\ Cardinality(Below(key, S, q[n])) = n - 1
  <2>1. q[n] = nth(n)
    BY <1>2
  <2>2. nth(n) \in S /\ Cardinality(Below(key, S, nth(n))) = n - 1
    BY <1>3 DEF Below
  <2> HIDE DEF nth
  <2> QED BY <2>1, <2>2
<1>4. Lists(q, S, key)
  <2> HIDE DEF nth
  <2>1. q = [n \in 1..Cardinality(S) |-> q[n]]
    BY <1>2
  <2> QED BY <1>3, <2>1 DEF Lists
<1>5. q \in Seq(S) /\ Len(q) = Cardinality(S) /\ IsInjective(q)
  BY <1>4, ListIsDistinct
<1> QED BY <1>1, <1>5

\* A part of a route is put behind what was removed before.
LEMMA QuotaDistinct ==
  ASSUME NEW r \in Seq(Customers), NEW route \in Seq(Customers), NEW k \in Int,
         IsInjective(route), NEW s \in Quota(r, route, k)
  PROVE  /\ s \in Seq(Customers)
         /\ Range(s) \subseteq Range(r) \cup Range(route)
         /\ IsInjective(r) /\ Range(r) \cap Range(route) = {} => IsInjective(s)
<1>1. PICK count \in Int : count = Smaller(Len(route), k - Len(r))
  <2>1. Len(route) \in Int /\ k - Len(r) \in Int
    OBVIOUS
  <2> QED BY <2>1 DEF Smaller
<1>2. count <= Len(route)
  BY <1>1 DEF Smaller
<1>3. PICK part : /\ s = r \o part
                  /\ \/ part = SubSeq(route, 1, count)
                     \/ \E positions : part = Entries(route, positions)
  BY <1>1 DEF Quota
<1>4. /\ part \in Seq(Customers) /\ IsInjective(part)
      /\ Range(part) \subseteq Range(route)
  <2>1. CASE part = SubSeq(route, 1, count)
    <3>1. part \in Seq(Customers)
      BY <1>2, <2>1
    <3>2. \A i \in DOMAIN part : i \in DOMAIN route /\ part[i] = route[i]
      BY <1>2, <2>1
    <3> QED BY <3>1, <3>2 DEF IsInjective, Range
  <2>2. CASE \E positions : part = Entries(route, positions)
    <3>1. PICK positions : part = Entries(route, positions)
      BY <2>2
    <3>2. /\ part \in Seq(Customers) /\ IsInjective(part)
          /\ Range(part) = {route[i] : i \in {i \in DOMAIN route : i \in positions}}
      BY <3>1, EntriesDistinct
    <3> QED BY <3>2 DEF Range
  <2> QED BY <1>3, <2>1, <2>2
<1>5. /\ r \o part \in Seq(Customers)
      /\ Range(r \o part) = Range(r) \cup Range(part)
      /\ IsInjective(r) /\ IsInjective(part) /\ Range(r) \cap Range(part) = {}
           => IsInjective(r \o part)
  BY <1>4, DistinctConcat
<1> QED BY <1>3, <1>4, <1>5

QuotaRun(h, removed0, given, k) ==
  h = [n \in 0 .. Len(given) |->
         IF n = 0 THEN {removed0} ELSE UNION {Quota(r, given[n], k) : r \in h[n - 1]}]

\* Parts of routes that have no customer in common are put together.
LEMMA UpToQuotaDistinct ==
  ASSUME NEW removed0 \in Seq(Customers), IsInjective(removed0),
         NEW given \in Seq(Seq(Customers)), NEW k \in Int,
         \A p \in DOMAIN given : IsInjective(given[p]) /\ Range(removed0) \cap Range(given[p]) = {},
         \A p, q \in DOMAIN given : p # q => Range(given[p]) \cap Range(given[q]) = {},
         NEW s \in UpToQuota(removed0, given, k)
  PROVE  s \in Seq(Customers) /\ IsInjective(s)
<1>1. PICK N \in Nat : N = Len(given)
  OBVIOUS
<1>2. PICK V : V = SUBSET Seq(Customers)
  OBVIOUS
<1>3. PICK step : step = [n \in 1..N |-> [W \in V |-> UNION {Quota(r, given[n], k) : r \in W}]]
  OBVIOUS
<1>4. \A n \in 1..N : given[n] \in Seq(Customers) /\ n \in DOMAIN given
  BY <1>1
<1>5. \A n \in 1..N, W \in V : step[n][W] = UNION {Quota(r, given[n], k) : r \in W}
  BY <1>3
<1>6. StepsInto(step, 1..N, V)
  <2> SUFFICES ASSUME NEW n \in 1..N, NEW W \in V
               PROVE  step[n][W] \in V
    BY DEF StepsInto
  <2>1. ASSUME NEW r \in W, NEW t \in Quota(r, given[n], k)
        PROVE  t \in Seq(Customers)
    <3>1. r \in Seq(Customers) /\ given[n] \in Seq(Customers) /\ IsInjective(given[n])
      BY <1>2, <1>4
    <3> QED BY <3>1, QuotaDistinct
  <2>2. UNION {Quota(r, given[n], k) : r \in W} \subseteq Seq(Customers)
    BY <2>1
  <2> QED BY <1>2, <1>5, <2>2
<1>7. {removed0} \in V
  BY <1>2
<1>8. PICK p \in [0..N -> V] : Running(p, N, V, {removed0}, step)
  BY <1>6, <1>7, RunExists
<1>9. QuotaRun(p, removed0, given, k)
  <2>1. ASSUME NEW n \in 0..N
        PROVE  p[n] = IF n = 0 THEN {removed0} ELSE UNION {Quota(r, given[n], k) : r \in p[n - 1]}
    <3>1. CASE n = 0
      BY <1>8, <3>1 DEF Running
    <3>2. CASE n # 0
      <4>1. n \in 1..N /\ n - 1 \in 0..N
        BY <3>2
      <4>2. p[n] = step[n][p[n - 1]] /\ p[n - 1] \in V
        BY <1>8, <4>1 DEF Running
      <4> QED BY <1>5, <3>2, <4>1, <4>2
    <3> QED BY <3>1, <3>2
  <2> QED BY <1>1, <1>8, <2>1 DEF QuotaRun
<1>10. PICK h : h = CHOOSE g : QuotaRun(g, removed0, given, k)
  OBVIOUS
<1>11. QuotaRun(h, removed0, given, k)
  BY <1>9, <1>10
<1>12. h[0] = {removed0} /\ \A n \in 1..N : h[n] = UNION {Quota(r, given[n], k) : r \in h[n - 1]}
  <2>1. 0 \in 0..N /\ \A n \in 1..N : n \in 0..N /\ n # 0
    OBVIOUS
  <2>2. h = [n \in 0..N |->
               IF n = 0 THEN {removed0} ELSE UNION {Quota(r, given[n], k) : r \in h[n - 1]}]
    BY <1>1, <1>11 DEF QuotaRun
  <2> QED BY <2>1, <2>2
<1>13. s \in h[N]
  BY <1>1, <1>10 DEF UpToQuota, QuotaRun
<1> DEFINE Before(n) == UNION {Range(given[q]) : q \in 1..n}
           Good(t, n) == /\ t \in Seq(Customers) /\ IsInjective(t)
                         /\ Range(t) \subseteq Range(removed0) \cup Before(n)
<1>14. PICK K : K = {n \in 0..N : \A t \in h[n] : Good(t, n)}
  OBVIOUS
<1>15. \A n \in 0..N : n \in K
  <2>1. 0 \in K
    <3>1. Good(removed0, 0) /\ 0 \in 0..N
      OBVIOUS
    <3> HIDE DEF Good
    <3> QED BY <1>12, <1>14, <3>1
  <2>2. ASSUME NEW n \in 1..N, n - 1 \in K
        PROVE  n \in K
    <3>1. ASSUME NEW t \in h[n]
          PROVE  Good(t, n)
      <4>1. PICK r \in h[n - 1] : t \in Quota(r, given[n], k)
        BY <1>12
      <4>2. Good(r, n - 1)
        BY <1>14, <2>2
      <4>3. given[n] \in Seq(Customers) /\ IsInjective(given[n]) /\ n \in DOMAIN given
        BY <1>4
      <4>4. Range(r) \cap Range(given[n]) = {}
        <5>1. Before(n - 1) \cap Range(given[n]) = {}
          <6>1. \A q \in 1..(n - 1) : q \in DOMAIN given /\ q # n
            BY <1>1
          <6>2. \A q \in 1..(n - 1) : Range(given[q]) \cap Range(given[n]) = {}
            BY <4>3, <6>1
          <6> QED BY <6>2
        <5>2. Range(removed0) \cap Range(given[n]) = {}
          BY <4>3
        <5> QED BY <4>2, <5>1, <5>2
      <4>5. t \in Seq(Customers) /\ Range(t) \subseteq Range(r) \cup Range(given[n]) /\ IsInjective(t)
        BY <4>1, <4>2, <4>3, <4>4, QuotaDistinct
      <4>6. Before(n) = Before(n - 1) \cup Range(given[n])
        <5>1. 1..n = 1..(n - 1) \cup {n}
          OBVIOUS
        <5> QED BY <5>1
      <4> QED BY <4>2, <4>5, <4>6
    <3>2. n \in 0..N
      OBVIOUS
    <3> HIDE DEF Good
    <3> QED BY <1>14, <3>1, <3>2
  <2> QED BY <2>1, <2>2, UpTo
<1>16. N \in 0..N
  OBVIOUS
<1>17. Good(s, N)
  <2> HIDE DEF Good
  <2> QED BY <1>13, <1>14, <1>15, <1>16
<1> QED BY <1>17

\* The parts of an original solution.
LEMMA OriginalParts ==
  ASSUME NEW solution \in Originals
  PROVE  /\ Len(solution) \in Nat /\ DOMAIN solution = 1..Len(solution)
         /\ IsFiniteSet(DOMAIN solution) /\ DOMAIN solution \subseteq Int
         /\ CustomerSeqs(solution) \in Seq(Seq(Customers))
         /\ \A p \in DOMAIN solution :
              /\ CustomerSeqs(solution)[p] = solution[p].customers
              /\ solution[p].customers \in Seq(Customers) /\ solution[p].customers # << >>
              /\ IsInjective(solution[p].customers)
         /\ \A p, q \in DOMAIN solution :
              p # q => Range(solution[p].customers) \cap Range(solution[q].customers) = {}
         /\ Customers \subseteq Int
<1>1. PICK cs : cs = CustomerSeqs(solution)
  OBVIOUS
<1>2. DOMAIN cs = DOMAIN solution /\ \A p \in DOMAIN solution : cs[p] = solution[p].customers
  BY <1>1 DEF CustomerSeqs
<1>3. /\ cs \in Seq(Seq(Customers) \ {<< >>})
      /\ \A p \in DOMAIN solution : IsInjective(solution[p].customers)
      /\ \A p, q \in DOMAIN solution :
           p # q => Range(solution[p].customers) \cap Range(solution[q].customers) = {}
  BY <1>1, OriginalsAreSolutions
<1>4. PICK N \in Nat : N = Len(cs)
  BY <1>3
<1>5. DOMAIN cs = 1..N /\ \A p \in 1..N : cs[p] \in Seq(Customers) /\ cs[p] # << >>
  BY <1>3, <1>4
<1>6. cs \in Seq(Seq(Customers))
  BY <1>3
<1>7. DOMAIN solution = 1..N
  BY <1>2, <1>5
<1>8. Len(solution) = N
  BY <1>7
<1>9. IsFiniteSet(1..N) /\ 1..N \subseteq Int
  BY FS_Interval
<1>10. Customers \subseteq Int
  BY NodeIds DEF Nodes
<1> QED BY <1>1, <1>2, <1>3, <1>5, <1>6, <1>7, <1>8, <1>9, <1>10

\* All customers together are distinct.
LEMMA AllAreDistinct ==
  ASSUME NEW solution \in Originals
  PROVE  /\ AllCustomers(solution) \in Seq(Customers) /\ IsInjective(AllCustomers(solution))
         /\ Len(AllCustomers(solution)) \in Nat
         /\ IsFiniteSet(Range(AllCustomers(solution)))
         /\ Cardinality(Range(AllCustomers(solution))) = Len(AllCustomers(solution))
         /\ Range(AllCustomers(solution)) \subseteq Customers
<1>1. PICK cs : cs = CustomerSeqs(solution)
  OBVIOUS
<1>2. /\ cs \in Seq(Seq(Customers)) /\ DOMAIN cs = DOMAIN solution
      /\ \A p \in DOMAIN cs : cs[p] = solution[p].customers /\ IsInjective(cs[p])
      /\ \A p, q \in DOMAIN cs : p # q => Range(cs[p]) \cap Range(cs[q]) = {}
  <2>1. DOMAIN cs = DOMAIN solution
    BY <1>1 DEF CustomerSeqs
  <2>2. cs \in Seq(Seq(Customers))
    BY <1>1, OriginalParts
  <2>3. \A p \in DOMAIN solution : cs[p] = solution[p].customers /\ IsInjective(solution[p].customers)
    BY <1>1, OriginalParts
  <2>4. \A p, q \in DOMAIN solution :
          p # q => Range(solution[p].customers) \cap Range(solution[q].customers) = {}
    BY OriginalParts
  <2>5. ASSUME NEW p \in DOMAIN cs, NEW q \in DOMAIN cs, p # q
        PROVE  Range(cs[p]) \cap Range(cs[q]) = {}
    BY <2>1, <2>3, <2>4, <2>5
  <2> QED BY <2>1, <2>2, <2>3, <2>5
<1>3. PICK all : all = FlattenSeq(cs)
  OBVIOUS
<1>4. all \in Seq(Customers) /\ IsInjective(all)
  BY <1>2, <1>3, FlattenDistinct
<1>5. PICK N \in Nat : N = Len(all)
  BY <1>4
<1>6. PICK D : D = 1..N
  OBVIOUS
<1>7. D = DOMAIN all /\ IsFiniteSet(D) /\ Cardinality(D) = N
  <2>1. D = DOMAIN all
    BY <1>4, <1>5, <1>6
  <2>2. IsFiniteSet(1..N) /\ Cardinality(1..N) = N
    BY FS_Interval
  <2> QED BY <1>6, <2>1, <2>2
<1>8. PICK R : R = Range(all)
  OBVIOUS
<1>9. all \in [D -> R]
  BY <1>4, <1>7, <1>8 DEF Range
<1>10. all \in Bijection(D, R)
  <2>1. all \in Injection(D, R)
    BY <1>4, <1>7, <1>9 DEF Injection, IsInjective
  <2>2. all \in Surjection(D, R)
    BY <1>7, <1>8, <1>9 DEF Surjection, Range
  <2> QED BY <2>1, <2>2 DEF Bijection
<1>11. IsFiniteSet(R) /\ Cardinality(R) = N
  BY <1>7, <1>10, FS_Bijection DEF ExistsBijection
<1>12. R \subseteq Customers
  BY <1>4, <1>8 DEF Range
<1>13. all = AllCustomers(solution)
  BY <1>1, <1>3 DEF AllCustomers
<1> QED BY <1>4, <1>5, <1>8, <1>11, <1>12, <1>13

Distinct(gone) == gone \in Seq(Customers) /\ IsInjective(gone)

\* Customers drawn at random are drawn once.
LEMMA RandomIsDistinct ==
  ASSUME NEW solution \in Originals, NEW n \in Nat, NEW gone \in RandomRemoval(solution, n)
  PROVE  Distinct(gone)
<1>1. gone \in [1..n -> Range(AllCustomers(solution))] /\ IsInjective(gone)
  BY DEF RandomRemoval
<1>2. gone \in [1..n -> Customers]
  BY <1>1, AllAreDistinct
<1> QED BY <1>1, <1>2 DEF Distinct

\* Whole routes share no customer, in whatever order they are taken.
LEMMA RouteIsDistinct ==
  ASSUME NEW solution \in Originals, NEW n \in Nat, NEW gone \in RandomRoute(solution, n)
  PROVE  Distinct(gone)
<1>1. PICK order : /\ order \in [DOMAIN solution -> DOMAIN solution] /\ IsInjective(order)
                   /\ gone \in UpToQuota(<< >>, [i \in DOMAIN order |-> solution[order[i]].customers], n)
  BY DEF RandomRoute
<1>2. PICK given : given = [i \in DOMAIN order |-> solution[order[i]].customers]
  OBVIOUS
<1>3. PICK N \in Nat : N = Len(solution)
  BY OriginalParts
<1>4. DOMAIN solution = 1..N
  BY <1>3, OriginalParts
<1>5. \A i \in 1..N : order[i] \in DOMAIN solution /\ given[i] = solution[order[i]].customers
  BY <1>1, <1>2, <1>4
<1>6. \A p \in DOMAIN solution : solution[p].customers \in Seq(Customers) /\ IsInjective(solution[p].customers)
  BY OriginalParts
<1>7. DOMAIN given = 1..N
  BY <1>1, <1>2, <1>4
<1>8. given \in Seq(Seq(Customers))
  <2>1. given = [i \in 1..N |-> given[i]]
    BY <1>2, <1>7
  <2>2. \A i \in 1..N : given[i] \in Seq(Customers)
    BY <1>5, <1>6
  <2> QED BY <2>1, <2>2
<1>9. \A i \in DOMAIN given : IsInjective(given[i]) /\ Range(<< >>) \cap Range(given[i]) = {}
  BY <1>5, <1>6, <1>7 DEF Range
<1>10. \A i, j \in DOMAIN given : i # j => Range(given[i]) \cap Range(given[j]) = {}
  <2>1. \A i, j \in 1..N : i # j => order[i] # order[j]
    BY <1>1, <1>4 DEF IsInjective
  <2>2. \A p, q \in DOMAIN solution :
          p # q => Range(solution[p].customers) \cap Range(solution[q].customers) = {}
    BY OriginalParts
  <2> QED BY <1>5, <1>7, <2>1, <2>2
<1>11. << >> \in Seq(Customers) /\ IsInjective(<< >>)
  BY DEF IsInjective
<1>12. gone \in UpToQuota(<< >>, given, n)
  BY <1>1, <1>2
<1>13. gone \in Seq(Customers) /\ IsInjective(gone)
  <2>1. PICK none : none = << >>
    OBVIOUS
  <2>2. none \in Seq(Customers) /\ IsInjective(none) /\ n \in Int
    BY <1>11, <2>1
  <2>3. \A p \in DOMAIN given : IsInjective(given[p]) /\ Range(none) \cap Range(given[p]) = {}
    BY <1>9, <2>1
  <2>4. gone \in UpToQuota(none, given, n)
    BY <1>12, <2>1
  <2> QED BY <1>8, <1>10, <2>2, <2>3, <2>4, UpToQuotaDistinct
<1> QED BY <1>13 DEF Distinct

\* The seed and those nearest to it are different customers.
LEMMA ClosestIsDistinct ==
  ASSUME NEW solution \in Originals, NEW n \in Nat, n <= Len(AllCustomers(solution)),
         NEW gone \in ClosestRemoval(solution, n)
  PROVE  Distinct(gone)
<1>1. PICK R : R = Range(AllCustomers(solution))
  OBVIOUS
<1>2. PICK N \in Nat : N = Len(AllCustomers(solution))
  BY AllAreDistinct
<1>3. IsFiniteSet(R) /\ Cardinality(R) = N /\ R \subseteq Customers
  BY <1>1, <1>2, AllAreDistinct
<1>4. PICK seed \in R : gone = SubSeq(<<seed>> \o Sorted(R \ {seed}, [c \in Customers |-> <<Dist[<<seed, c>>], c>>]), 1, n)
  BY <1>1 DEF ClosestRemoval
<1>5. PICK key : key = [c \in Customers |-> <<Dist[<<seed, c>>], c>>]
  OBVIOUS
<1>6. PICK S : S = R \ {seed}
  OBVIOUS
<1>7. IsFiniteSet(S) /\ Cardinality(S) = N - 1 /\ S \subseteq Customers
  BY <1>3, <1>6, FS_RemoveElement
<1>8. TellsApart(key, S)
  <2>1. \A c \in S : key[c] = <<Dist[<<seed, c>>], c>> /\ c \in Int /\ Dist[<<seed, c>>] \in Int
    <3>1. \A c \in Customers : c \in Int /\ c \in Nodes
      BY NodeIds DEF Nodes
    <3>2. seed \in Nodes
      BY <1>3, <3>1
    <3>3. \A c \in Nodes : Dist[<<seed, c>>] \in Int
      BY <3>2, MetricType
    <3> QED BY <1>5, <1>7, <3>1, <3>3
  <2>2. ASSUME NEW c \in S
        PROVE  key[c] \in Seq(Int)
    <3>1. PICK d \in Int : d = Dist[<<seed, c>>]
      BY <2>1
    <3>2. PICK i \in Int : i = c
      BY <2>1
    <3>3. <<d, i>> \in Seq(Int)
      OBVIOUS
    <3> QED BY <2>1, <3>1, <3>2, <3>3
  <2>3. ASSUME NEW c \in S
        PROVE  key[c][2] = c
    <3>1. PICK d \in Int : d = Dist[<<seed, c>>]
      BY <2>1
    <3>2. key[c] = <<d, c>>
      BY <2>1, <3>1
    <3> QED BY <3>2
  <2>4. \A x, y \in S : key[x] = key[y] => x = y
    BY <2>3
  <2> QED BY <2>2, <2>4 DEF TellsApart
<1>9. PICK q : q = Sorted(S, key)
  OBVIOUS
<1>10. q \in Seq(S) /\ IsInjective(q) /\ Len(q) = N - 1
  BY <1>7, <1>8, <1>9, SortedIsDistinct
<1>11. PICK t : t = <<seed>>
  OBVIOUS
<1>12. t \in Seq(Customers) /\ q \in Seq(Customers) /\ IsInjective(t) /\ Range(t) \cap Range(q) = {} /\ Len(t) = 1
  <2>1. t \in Seq(Customers) /\ Len(t) = 1 /\ t[1] = seed
    BY <1>3, <1>11
  <2>2. Range(t) = {seed} /\ IsInjective(t)
    BY <1>11, <2>1 DEF Range, IsInjective
  <2>3. Range(q) \subseteq S
    BY <1>10 DEF Range
  <2>4. q \in Seq(Customers)
    BY <1>7, <1>10
  <2> QED BY <1>6, <2>1, <2>2, <2>3, <2>4
<1>13. PICK w : w = t \o q
  OBVIOUS
<1>14. w \in Seq(Customers) /\ IsInjective(w)
  BY <1>10, <1>12, <1>13, DistinctConcat
<1>15. Len(w) = N
  <2>1. Len(t \o q) = Len(t) + Len(q)
    BY <1>12, ConcatProperties
  <2> QED BY <1>10, <1>12, <1>13, <2>1
<1>16. gone = SubSeq(w, 1, n)
  BY <1>4, <1>5, <1>6, <1>9, <1>11, <1>13
<1>17. n \in Int /\ n <= Len(w)
  BY <1>2, <1>15
<1>18. gone \in Seq(Customers)
  BY <1>14, <1>16, <1>17
<1>19. \A i \in DOMAIN gone : i \in DOMAIN w /\ gone[i] = w[i]
  BY <1>14, <1>16, <1>17
<1> QED BY <1>14, <1>18, <1>19 DEF Distinct, IsInjective

\* The smallest of some distances is one of them.
LEMMA NearestTyped ==
  ASSUME NEW c \in Customers, NEW customers \in Seq(Customers), customers # << >>
  PROVE  Min({Dist[<<c, d>>] : d \in Range(customers)}) \in Int
<1>1. PICK R : R = {Dist[<<c, d>>] : d \in Range(customers)}
  OBVIOUS
<1>2. PICK n \in Nat : n = Len(customers)
  OBVIOUS
<1>3. DOMAIN customers = 1..n /\ n # 0
  BY <1>2
<1>4. PICK f : f = [i \in 1..n |-> Dist[<<c, customers[i]>>]]
  OBVIOUS
<1>5. f \in Surjection(1..n, R)
  BY <1>1, <1>3, <1>4 DEF Surjection, Range
<1>6. IsFiniteSet(1..n)
  BY FS_Interval
<1>7. IsFiniteSet(R)
  BY <1>5, <1>6, FS_Surjection
<1>8. R # {}
  <2>1. 1 \in DOMAIN customers
    BY <1>3
  <2> QED BY <1>1, <2>1 DEF Range
<1>9. \A x \in R : x \in Int
  <2>1. \A d \in Range(customers) : d \in Nodes
    BY DEF Range, Nodes
  <2>2. c \in Nodes
    BY DEF Nodes
  <2>3. \A d \in Nodes : Dist[<<c, d>>] \in Int
    BY <2>2, MetricType
  <2> QED BY <1>1, <2>1, <2>3
<1>10. PICK g : g = [x \in R |-> x]
  OBVIOUS
<1>11. \A x \in R : g[x] = x /\ g[x] \in Int
  BY <1>9, <1>10
<1>12. \E x \in R : \A y \in R : g[x] <= g[y]
  BY <1>7, <1>8, <1>11, LeastExists
<1>13. \E x \in R : \A y \in R : x <= y
  BY <1>11, <1>12
<1>14. Min(R) \in R
  BY <1>13 DEF Min
<1> QED BY <1>1, <1>9, <1>14

\* The routes by distance share no customer with each other nor with c.
LEMMA ByDistanceDistinct ==
  ASSUME NEW solution \in Originals, NEW p \in DOMAIN solution, NEW c \in Range(solution[p].customers)
  PROVE  LET given == ByDistance(solution, c, p)
         IN /\ given \in Seq(Seq(Customers))
            /\ \A i \in DOMAIN given : IsInjective(given[i]) /\ c \notin Range(given[i])
            /\ \A i, j \in DOMAIN given : i # j => Range(given[i]) \cap Range(given[j]) = {}
<1>1. PICK near : near = [q \in DOMAIN solution |-> <<Min({Dist[<<c, d>>] : d \in Range(solution[q].customers)}), q>>]
  OBVIOUS
<1>2. PICK S : S = DOMAIN solution \ {p}
  OBVIOUS
<1>3. IsFiniteSet(S) /\ S \subseteq Int /\ S \subseteq DOMAIN solution /\ p \notin S
  BY <1>2, OriginalParts, FS_Subset
<1>3a. \A q \in DOMAIN solution :
         /\ solution[q].customers \in Seq(Customers) /\ solution[q].customers # << >>
         /\ IsInjective(solution[q].customers)
  BY OriginalParts
<1>3b. \A q, r \in DOMAIN solution :
         q # r => Range(solution[q].customers) \cap Range(solution[r].customers) = {}
  BY OriginalParts
<1>3c. c \in Customers
  BY <1>3a DEF Range
<1>4. TellsApart(near, S)
  <2>1. ASSUME NEW q \in S
        PROVE  near[q] \in Seq(Int) /\ near[q][2] = q
    <3>1. PICK t \in Int : t = Min({Dist[<<c, d>>] : d \in Range(solution[q].customers)})
      BY <1>3, <1>3a, <1>3c, NearestTyped
    <3>2. PICK i \in Int : i = q
      BY <1>3
    <3>3. near[q] = <<t, i>>
      BY <1>1, <1>3, <3>1, <3>2
    <3>4. <<t, i>> \in Seq(Int)
      OBVIOUS
    <3> QED BY <3>2, <3>3, <3>4
  <2>2. \A x, y \in S : near[x] = near[y] => x = y
    BY <2>1
  <2> QED BY <2>1, <2>2 DEF TellsApart
<1>5. PICK others : others = Sorted(S, near)
  OBVIOUS
<1>6. others \in Seq(S) /\ IsInjective(others)
  BY <1>3, <1>4, <1>5, SortedIsDistinct
<1>7. PICK m \in Nat : m = Len(others)
  BY <1>6
<1>8. DOMAIN others = 1..m /\ \A i \in 1..m : others[i] \in DOMAIN solution /\ others[i] # p
  <2>1. DOMAIN others = 1..m /\ \A i \in 1..m : others[i] \in S
    BY <1>6, <1>7
  <2>2. \A q \in S : q \in DOMAIN solution /\ q # p
    BY <1>2
  <2> QED BY <2>1, <2>2
<1>9. PICK a : a = [i \in DOMAIN others |-> solution[others[i]].customers]
  OBVIOUS
<1>10. \A i \in 1..m : a[i] = solution[others[i]].customers /\ a[i] \in Seq(Customers)
  BY <1>3a, <1>8, <1>9
<1>11. a \in Seq(Seq(Customers)) /\ Len(a) = m
  <2>1. a = [i \in 1..m |-> a[i]]
    BY <1>8, <1>9
  <2> QED BY <1>10, <2>1
<1>12. PICK rest : rest = Without(solution[p].customers, {c})
  OBVIOUS
<1>13. /\ rest \in Seq(Customers) /\ IsInjective(rest)
       /\ Range(rest) \subseteq Range(solution[p].customers) /\ c \notin Range(rest)
  <2>1. PICK seq : seq = solution[p].customers
    OBVIOUS
  <2>2. seq \in Seq(Customers) /\ IsInjective(seq)
    BY <1>3a, <2>1
  <2>3. PICK positions : positions = {i \in DOMAIN seq : seq[i] \notin {c}}
    OBVIOUS
  <2>4. rest = Entries(seq, positions)
    BY <1>12, <2>1, <2>3 DEF Without
  <2>5. /\ rest \in Seq(Customers) /\ IsInjective(rest)
        /\ Range(rest) = {seq[i] : i \in {i \in DOMAIN seq : i \in positions}}
    BY <2>2, <2>4, EntriesDistinct
  <2>6. Range(rest) \subseteq Range(seq) /\ c \notin Range(rest)
    BY <2>3, <2>5 DEF Range
  <2> QED BY <2>1, <2>5, <2>6
<1>14. PICK given : given = a \o <<rest>>
  OBVIOUS
<1>15. given = ByDistance(solution, c, p)
  BY <1>1, <1>2, <1>5, <1>9, <1>12, <1>14 DEF ByDistance
<1>16. /\ given \in Seq(Seq(Customers)) /\ DOMAIN given = 1..(m + 1)
       /\ \A i \in 1..m : given[i] = a[i]
       /\ given[m + 1] = rest
  <2>1. given = Append(a, rest)
    BY <1>11, <1>13, <1>14
  <2> QED BY <1>11, <1>13, <2>1
<1>17. \A i \in 1..(m + 1) : i \in 1..m \/ i = m + 1
  OBVIOUS
<1>18. ASSUME NEW i \in 1..m
       PROVE  /\ IsInjective(given[i]) /\ c \notin Range(given[i])
              /\ Range(given[i]) \cap Range(rest) = {}
              /\ \A j \in 1..m : i # j => Range(given[i]) \cap Range(given[j]) = {}
  <2>1. given[i] = solution[others[i]].customers /\ others[i] \in DOMAIN solution /\ others[i] # p
    BY <1>8, <1>10, <1>16
  <2>2. Range(given[i]) \cap Range(solution[p].customers) = {}
    BY <1>3b, <2>1
  <2>3. ASSUME NEW j \in 1..m, i # j
        PROVE  Range(given[i]) \cap Range(given[j]) = {}
    <3>1. given[j] = solution[others[j]].customers /\ others[j] \in DOMAIN solution
      BY <1>8, <1>10, <1>16
    <3>2. others[i] # others[j]
      BY <1>6, <1>8, <2>3 DEF IsInjective
    <3> QED BY <1>3b, <2>1, <3>1, <3>2
  <2> QED BY <1>3a, <1>13, <2>1, <2>2, <2>3
<1>19. ASSUME NEW i \in 1..(m + 1), NEW j \in 1..(m + 1), i # j
       PROVE  Range(given[i]) \cap Range(given[j]) = {}
  <2>1. CASE i \in 1..m /\ j \in 1..m
    BY <1>18, <1>19, <2>1
  <2>2. CASE i \in 1..m /\ j = m + 1
    BY <1>16, <1>18, <2>2
  <2>3. CASE i = m + 1 /\ j \in 1..m
    BY <1>16, <1>18, <2>3
  <2> QED BY <1>17, <1>19, <2>1, <2>2, <2>3
<1>20. \A i \in 1..(m + 1) : IsInjective(given[i]) /\ c \notin Range(given[i])
  BY <1>13, <1>16, <1>17, <1>18
<1> QED BY <1>15, <1>16, <1>19, <1>20

\* The costliest customer and those of the routes near it are different.
LEMMA WorstIsDistinct ==
  ASSUME NEW solution \in Originals, NEW n \in Nat, NEW gone \in WorstRemoval(solution, n)
  PROVE  Distinct(gone)
<1>1. PICK x \in (DOMAIN solution) \X Customers :
        /\ x[2] \in Range(solution[x[1]].customers)
        /\ gone \in UpToQuota(<<x[2]>>, ByDistance(solution, x[2], x[1]), n)
  BY DEF WorstRemoval
<1>2. PICK p \in DOMAIN solution : p = x[1]
  BY <1>1
<1>3. PICK c \in Customers : c = x[2]
  BY <1>1
<1>4. PICK t : t = <<c>>
  OBVIOUS
<1>5. t \in Seq(Customers) /\ IsInjective(t) /\ Range(t) = {c}
  <2>1. t \in Seq(Customers) /\ DOMAIN t = {1} /\ t[1] = c
    BY <1>4
  <2> QED BY <2>1 DEF IsInjective, Range
<1>6. PICK given : given = ByDistance(solution, c, p)
  OBVIOUS
<1>7. /\ given \in Seq(Seq(Customers))
      /\ \A i \in DOMAIN given : IsInjective(given[i]) /\ c \notin Range(given[i])
      /\ \A i, j \in DOMAIN given : i # j => Range(given[i]) \cap Range(given[j]) = {}
  <2>1. c \in Range(solution[p].customers)
    BY <1>1, <1>2, <1>3
  <2> QED BY <1>6, <2>1, ByDistanceDistinct
<1>8. \A i \in DOMAIN given : IsInjective(given[i]) /\ Range(t) \cap Range(given[i]) = {}
  BY <1>5, <1>7
<1>9. gone \in UpToQuota(t, given, n) /\ n \in Int
  BY <1>1, <1>2, <1>3, <1>4, <1>6
<1>10. gone \in Seq(Customers) /\ IsInjective(gone)
  BY <1>5, <1>7, <1>8, <1>9, UpToQuotaDistinct
<1> QED BY <1>10 DEF Distinct

\* No operator takes a customer out twice.
LEMMA RemovalsAreDistinct ==
  ASSUME NEW solution \in Originals, NEW count \in Kappas, NEW operator \in Operators,
         NEW gone \in Removals(operator, solution, count)
  PROVE  Distinct(gone)
<1>1. PICK N \in Nat : N = Len(AllCustomers(solution))
  BY AllAreDistinct
<1>2. count \in Nat
  BY KappasType
<1>3. PICK n \in Nat : n = Smaller(count, N) /\ n <= N
  BY <1>2 DEF Smaller
<1>4. CASE n = 0
  <2>1. gone = << >>
    BY <1>1, <1>3, <1>4 DEF Removals
  <2> QED BY <2>1 DEF Distinct, IsInjective
<1>5. CASE n # 0
  <2>1. \/ gone \in RandomRemoval(solution, n)
        \/ gone \in RandomRoute(solution, n)
        \/ gone \in ClosestRemoval(solution, n)
        \/ gone \in WorstRemoval(solution, n)
    BY <1>1, <1>3, <1>5 DEF Removals, Operators
  <2> QED BY <1>1, <1>3, <2>1, RandomIsDistinct, RouteIsDistinct, ClosestIsDistinct, WorstIsDistinct
<1> QED BY <1>4, <1>5

-----------------------------------------------------------------------------
(* The sums of counts over routes.                                         *)

\* One more route adds its visits.
LEMMA OccurrencesAppend ==
  ASSUME NEW A, NEW seqs \in Seq(Seq(A)), NEW s \in Seq(A), NEW id
  PROVE  /\ Append(seqs, s) \in Seq(Seq(A)) /\ Occurrences(seqs, id) \in Int /\ Times(s, id) \in Nat
         /\ Occurrences(Append(seqs, s), id) = Occurrences(seqs, id) + Times(s, id)
<1>1. PICK N \in Nat : N = Len(seqs)
  OBVIOUS
<1>2. PICK t : t = Append(seqs, s)
  OBVIOUS
<1>3. /\ t \in Seq(Seq(A)) /\ DOMAIN t = 1..(N + 1) /\ DOMAIN seqs = 1..N
      /\ t[N + 1] = s /\ \A r \in 1..N : t[r] = seqs[r]
  BY <1>1, <1>2
<1>4. PICK f : f = TimesOf(t, id)
  OBVIOUS
<1>5. PICK g : g = TimesOf(seqs, id)
  OBVIOUS
<1>6. /\ \A r \in 1..(N + 1) : f[r] = Times(t[r], id) /\ f[r] \in Nat
      /\ Occurrences(t, id) = Total(f, 1..(N + 1))
  BY <1>3, <1>4, OccurrencesTotal
<1>7. /\ \A r \in 1..N : g[r] = Times(seqs[r], id) /\ g[r] \in Nat
      /\ Occurrences(seqs, id) = Total(g, 1..N) /\ Occurrences(seqs, id) \in Int
  BY <1>3, <1>5, OccurrencesTotal
<1>8. Total(f, 1..(N + 1)) = Total(f, 1..N) + f[N + 1]
  <2>1. N + 1 \in Nat /\ N + 1 \in 1..(N + 1) /\ (N + 1) - 1 = N
    OBVIOUS
  <2>2. \A n \in 1..(N + 1) : f[n] \in Int
    BY <1>6
  <2>3. \A n \in 1..(N + 1) : Total(f, 1..n) = Total(f, 1..(n - 1)) + f[n]
    BY <2>1, <2>2, TotalNext
  <2> QED BY <2>1, <2>3
<1>9. Total(g, 1..N) = Total(f, 1..N)
  <2>1. \A r \in 1..N : r \in 1..(N + 1)
    OBVIOUS
  <2>2. \A r \in 1..N : g[r] \in Int /\ g[r] = f[r]
    BY <1>3, <1>6, <1>7, <2>1
  <2>3. IsFiniteSet(1..N)
    BY FS_Interval
  <2> QED BY <2>2, <2>3, TotalSame
<1>10. f[N + 1] = Times(s, id) /\ f[N + 1] \in Nat
  BY <1>3, <1>6
<1> QED BY <1>2, <1>3, <1>6, <1>7, <1>8, <1>9, <1>10

\* A route that changes counts with what it has now.
LEMMA OccurrencesExcept ==
  ASSUME NEW A, NEW seqs \in Seq(Seq(A)), NEW r \in DOMAIN seqs, NEW id,
         NEW t \in Seq(Seq(A)), DOMAIN t = DOMAIN seqs, \A q \in DOMAIN seqs \ {r} : t[q] = seqs[q]
  PROVE  /\ Occurrences(seqs, id) \in Int /\ Times(t[r], id) \in Nat /\ Times(seqs[r], id) \in Nat
         /\ Occurrences(t, id) = Occurrences(seqs, id) - Times(seqs[r], id) + Times(t[r], id)
<1>3. PICK f : f = TimesOf(t, id)
  OBVIOUS
<1>4. PICK g : g = TimesOf(seqs, id)
  OBVIOUS
<1>5. PICK S : S = DOMAIN seqs
  OBVIOUS
<1>6. /\ \A q \in S : f[q] = Times(t[q], id) /\ f[q] \in Nat
      /\ Occurrences(t, id) = Total(f, S)
  BY <1>3, <1>5, OccurrencesTotal
<1>7. /\ \A q \in S : g[q] = Times(seqs[q], id) /\ g[q] \in Nat
      /\ Occurrences(seqs, id) = Total(g, S) /\ Occurrences(seqs, id) \in Int /\ IsFiniteSet(S)
  BY <1>4, <1>5, OccurrencesTotal
<1>8. Total(f, S) = f[r] + Total(f, S \ {r})
  <2>1. \A q \in S : f[q] \in Int
    BY <1>6
  <2>2. IsFiniteSet(S) /\ r \in S
    BY <1>5, <1>7
  <2> QED BY ZenonT(40), <2>1, <2>2, TotalRemove
<1>9. Total(g, S) = g[r] + Total(g, S \ {r})
  <2>1. \A q \in S : g[q] \in Int
    BY <1>7
  <2>2. \A q \in S : Total(g, S) = g[q] + Total(g, S \ {q})
    BY <1>7, <2>1, TotalRemove
  <2> QED BY <1>5, <2>2
<1>10. Total(g, S \ {r}) = Total(f, S \ {r}) /\ Total(g, S \ {r}) \in Int
  <2>1. PICK T : T = S \ {r}
    OBVIOUS
  <2>2. IsFiniteSet(T)
    BY <1>7, <2>1, FS_Subset
  <2>3. \A q \in T : g[q] \in Int /\ g[q] = f[q]
    BY <1>5, <1>6, <1>7, <2>1
  <2>4. Total(g, T) = Total(f, T)
    BY <2>2, <2>3, TotalSame
  <2>5. Total(g, T) \in Int
    BY <2>2, <2>3, TotalType
  <2> QED BY <2>1, <2>4, <2>5
<1>11. f[r] = Times(t[r], id) /\ f[r] \in Nat /\ g[r] = Times(seqs[r], id) /\ g[r] \in Nat
  BY <1>5, <1>6, <1>7
<1> QED BY <1>6, <1>7, <1>8, <1>9, <1>10, <1>11

\* Leaving out routes without visits loses none.
LEMMA OccurrencesOfFilled ==
  ASSUME NEW A, NEW seqs \in Seq(Seq(A)), NEW id
  PROVE  LET left == Entries(seqs, {p \in DOMAIN seqs : seqs[p] # << >>})
         IN left \in Seq(Seq(A)) /\ Occurrences(left, id) = Occurrences(seqs, id)
<1>1. PICK N \in Nat : N = Len(seqs)
  OBVIOUS
<1>2. PICK filled : filled = {p \in DOMAIN seqs : seqs[p] # << >>}
  OBVIOUS
<1>3. PICK h : Collects(h, Seq(A), seqs, filled)
  BY EntriesCollect
<1>4. /\ h[0] = << >> /\ h[N] = Entries(seqs, filled)
      /\ \A n \in 0..N : h[n] \in Seq(Seq(A))
      /\ \A n \in 1..N : h[n] = IF n \in filled THEN Append(h[n - 1], seqs[n]) ELSE h[n - 1]
  BY <1>1, <1>3 DEF Collects
<1>5. PICK f : f = TimesOf(seqs, id)
  OBVIOUS
<1>6. /\ \A n \in 1..N : f[n] = Times(seqs[n], id) /\ f[n] \in Int
      /\ Occurrences(seqs, id) = Total(f, 1..N)
  <2>1. DOMAIN seqs = 1..N
    BY <1>1
  <2>2. /\ \A n \in 1..N : f[n] = Times(seqs[n], id) /\ f[n] \in Nat
        /\ Occurrences(seqs, id) = Total(f, 1..N)
    BY <1>5, <2>1, OccurrencesTotal
  <2> QED BY <2>2
<1>7. /\ Total(f, 1..0) = 0
      /\ \A n \in 1..N : /\ Total(f, 1..(n - 1)) \in Int
                         /\ Total(f, 1..n) = Total(f, 1..(n - 1)) + f[n]
  <2>1. \A n \in 1..N : f[n] \in Int
    BY <1>6
  <2> QED BY <2>1, TotalNext
<1>8. PICK K : K = {n \in 0..N : Occurrences(h[n], id) = Total(f, 1..n)}
  OBVIOUS
<1>9. 0 \in K
  <2>1. PICK none : none = << >>
    OBVIOUS
  <2>2. none \in Seq(Seq(A)) /\ DOMAIN none = {} /\ 0 \in 0..N
    BY <2>1
  <2>3. Occurrences(none, id) = Total(TimesOf(none, id), {})
    BY <2>2, OccurrencesTotal
  <2>4. Total(TimesOf(none, id), {}) = 0
    <3>1. IsFiniteSet({})
      BY FS_EmptySet
    <3> QED BY <3>1, TotalType
  <2> QED BY <1>4, <1>7, <1>8, <2>1, <2>2, <2>3, <2>4
<1>10. ASSUME NEW n \in 1..N, n - 1 \in K
       PROVE  n \in K
  <2>1. n \in 0..N /\ n - 1 \in 0..N /\ n \in DOMAIN seqs
    BY <1>1
  <2>2. Occurrences(h[n - 1], id) = Total(f, 1..(n - 1))
    BY <1>8, <1>10
  <2>3. PICK before \in Seq(Seq(A)) : before = h[n - 1]
    BY <1>4, <2>1
  <2>4. PICK s \in Seq(A) : s = seqs[n]
    BY <2>1
  <2>5. CASE n \in filled
    <3>1. h[n] = Append(before, s)
      BY <1>4, <2>3, <2>4, <2>5
    <3>2. Occurrences(h[n], id) = Occurrences(before, id) + Times(s, id)
      BY <3>1, OccurrencesAppend
    <3>3. f[n] = Times(s, id) /\ Total(f, 1..n) = Total(f, 1..(n - 1)) + f[n]
      BY <1>6, <1>7, <2>4
    <3> QED BY <1>8, <2>1, <2>2, <2>3, <3>2, <3>3
  <2>6. CASE n \notin filled
    <3>1. h[n] = before /\ s = << >>
      BY <1>2, <1>4, <2>1, <2>3, <2>4, <2>6
    <3>2. Times(s, id) = 0
      BY <3>1, TimesOfOne
    <3>3. f[n] = 0 /\ Total(f, 1..n) = Total(f, 1..(n - 1)) + f[n] /\ Total(f, 1..(n - 1)) \in Int
      BY <1>6, <1>7, <2>4, <3>2
    <3> QED BY <1>8, <2>1, <2>2, <2>3, <3>1, <3>3
  <2> QED BY <2>5, <2>6
<1>11. \A n \in 0..N : n \in K
  BY <1>9, <1>10, UpTo
<1>12. N \in K /\ N \in 0..N
  BY <1>11
<1>13. PICK left : left = Entries(seqs, filled)
  OBVIOUS
<1>14. left \in Seq(Seq(A)) /\ Occurrences(left, id) = Occurrences(seqs, id)
  BY <1>4, <1>6, <1>8, <1>12, <1>13
<1> QED BY <1>2, <1>13, <1>14

-----------------------------------------------------------------------------
(* What the destruction takes out of the routes.                           *)

Ids == Customers \cup Stations

\* What can be told of every visit of a plan: it remains, moves, or leaves as
\* a customer.
LEMMA PlanParts ==
  ASSUME NEW plan, plan.visits \in Seq(Ids), NEW out \in SUBSET Customers, NEW id
  PROVE  /\ Remaining(plan, out) \in Seq(Ids) /\ MovedStations(plan, out) \in Seq(Stations)
         /\ Times(Remaining(plan, out), id) \in Nat /\ Times(MovedStations(plan, out), id) \in Nat
         /\ id \notin out => Times(plan.visits, id)
                               = Times(Remaining(plan, out), id) + Times(MovedStations(plan, out), id)
         /\ id \in out => Times(Remaining(plan, out), id) = 0 /\ Times(MovedStations(plan, out), id) = 0
<1>1. PICK v \in Seq(Ids) : v = plan.visits
  OBVIOUS
<1>2. PICK L : L = {i \in DOMAIN v : Leaves(plan, out, i)}
  OBVIOUS
<1>3. PICK stay : stay = {i \in DOMAIN v : ~Leaves(plan, out, i)}
  OBVIOUS
<1>4. PICK go : go = {i \in DOMAIN v : v[i] \in Stations /\ Leaves(plan, out, i)}
  OBVIOUS
<1>5. PICK remaining : remaining = Remaining(plan, out)
  OBVIOUS
<1>6. PICK moved : moved = MovedStations(plan, out)
  OBVIOUS
<1>7. remaining = Entries(v, stay)
  BY <1>1, <1>3, <1>5 DEF Remaining
<1>8. moved = Entries(v, go)
  BY <1>1, <1>4, <1>6 DEF MovedStations
<1>9. PICK R : R = {i \in DOMAIN v : i \in stay /\ v[i] = id}
  OBVIOUS
<1>10. PICK M : M = {i \in DOMAIN v : i \in go /\ v[i] = id}
  OBVIOUS
<1>11. remaining \in Seq(Ids) /\ Times(remaining, id) = Cardinality(R)
  BY <1>7, <1>9, EntriesCounted
<1>12. moved \in Seq(Ids) /\ Times(moved, id) = Cardinality(M)
  BY <1>8, <1>10, EntriesCounted
<1>13. IsFiniteSet(R) /\ IsFiniteSet(M) /\ Cardinality(R) \in Nat /\ Cardinality(M) \in Nat
  <2>1. PICK n \in Nat : DOMAIN v = 1..n
    OBVIOUS
  <2>2. IsFiniteSet(1..n) /\ R \subseteq 1..n /\ M \subseteq 1..n
    BY <1>9, <1>10, <2>1, FS_Interval
  <2> QED BY <2>2, FS_Subset, FS_CardinalityType
<1>14. moved \in Seq(Stations)
  <2>1. PICK N \in Nat : N = Len(v)
    OBVIOUS
  <2>2. PICK h : Collects(h, Ids, v, go)
    BY EntriesCollect
  <2>3. /\ h[0] = << >> /\ h[N] = moved
        /\ \A n \in 1..N : h[n] = IF n \in go THEN Append(h[n - 1], v[n]) ELSE h[n - 1]
    BY <1>8, <2>1, <2>2 DEF Collects
  <2>4. PICK K : K = {n \in 0..N : h[n] \in Seq(Stations)}
    OBVIOUS
  <2>5. 0 \in K
    <3>1. << >> \in Seq(Stations) /\ 0 \in 0..N
      OBVIOUS
    <3> QED BY <2>3, <2>4, <3>1
  <2>6. ASSUME NEW n \in 1..N, n - 1 \in K
        PROVE  n \in K
    <3>1. PICK t \in Seq(Stations) : t = h[n - 1]
      BY <2>4, <2>6
    <3>2. n \in 0..N
      OBVIOUS
    <3>3. CASE n \in go
      <4>1. PICK x \in Stations : x = v[n]
        BY <1>4, <3>3
      <4>2. Append(t, x) \in Seq(Stations)
        OBVIOUS
      <4> QED BY <2>3, <2>4, <3>1, <3>2, <3>3, <4>1, <4>2
    <3>4. CASE n \notin go
      BY <2>3, <2>4, <3>1, <3>2, <3>4
    <3> QED BY <3>3, <3>4
  <2>7. N \in K
    <3>1. \A n \in 0..N : n \in K
      BY <2>5, <2>6, UpTo
    <3> QED BY <3>1
  <2> QED BY <2>3, <2>4, <2>7
<1>15. \A i \in DOMAIN v : Leaves(plan, out, i) <=> v[i] \in out \/ (v[i] \in Stations /\ Damaged(plan, out, i))
  BY <1>1 DEF Leaves
<1>16. ASSUME id \notin out
       PROVE  Times(v, id) = Cardinality(R) + Cardinality(M)
  <2>1. At(v, id) = R \cup M
    BY <1>3, <1>4, <1>9, <1>10, <1>15, <1>16 DEF At
  <2>2. R \cap M = {}
    BY <1>3, <1>4, <1>9, <1>10
  <2>3. Cardinality(R \cup M) = Cardinality(R) + Cardinality(M) - Cardinality(R \cap M)
    BY <1>13, FS_Union
  <2>4. Cardinality(R \cap M) = 0
    BY <2>2, FS_EmptySet
  <2>5. Times(v, id) = Cardinality(R \cup M)
    BY <2>1 DEF Times, At
  <2> QED BY <1>13, <2>3, <2>4, <2>5
<1>17. ASSUME id \in out
       PROVE  Cardinality(R) = 0 /\ Cardinality(M) = 0
  <2>1. id \notin Stations
    BY <1>17, NodesDisjoint
  <2>2. R = {} /\ M = {}
    BY <1>3, <1>4, <1>9, <1>10, <1>15, <1>17, <2>1
  <2> QED BY <2>2, FS_EmptySet
<1> QED BY <1>1, <1>5, <1>6, <1>11, <1>12, <1>13, <1>14, <1>16, <1>17

\* Distinct entries occur once.
LEMMA TimesOfDistinct ==
  ASSUME NEW gone, IsInjective(gone), NEW id
  PROVE  Times(gone, id) = IF id \in Range(gone) THEN 1 ELSE 0
<1>1. CASE id \in Range(gone)
  <2>1. PICK k \in DOMAIN gone : gone[k] = id
    BY <1>1 DEF Range
  <2>2. {i \in DOMAIN gone : gone[i] = id} = {k}
    BY <2>1 DEF IsInjective
  <2>3. Cardinality({k}) = 1
    BY FS_Singleton
  <2> QED BY <1>1, <2>2, <2>3 DEF Times
<1>2. CASE id \notin Range(gone)
  <2>1. {i \in DOMAIN gone : gone[i] = id} = {}
    BY <1>2 DEF Range
  <2> QED BY <1>2, <2>1, FS_EmptySet DEF Times
<1> QED BY <1>1, <1>2

RemainsOf(solution, out) == [p \in DOMAIN solution |-> Remaining(solution[p], out)]
LeftOf(solution, out) ==
  Entries(RemainsOf(solution, out), {p \in DOMAIN solution : RemainsOf(solution, out)[p] # << >>})
MovesOf(solution, out) == [p \in DOMAIN solution |-> MovedStations(solution[p], out)]
MovedOf(solution, out) == FlattenSeq(MovesOf(solution, out))

\* What is left and what is taken out are together what there was.
LEMMA DestructionConserves ==
  ASSUME NEW solution \in Originals, NEW gone, Distinct(gone)
  PROVE  LET out == Range(gone)
         IN /\ LeftOf(solution, out) \in Seq(Seq(Ids))
            /\ MovedOf(solution, out) \in Seq(Stations)
            /\ gone \o MovedOf(solution, out) \in Seq(Ids)
            /\ \A id \in Ids :
                 /\ Occurrences(VisitsOf(solution), id)
                      = Occurrences(LeftOf(solution, out), id)
                          + Times(gone \o MovedOf(solution, out), id)
<1>1. PICK out : out = Range(gone)
  OBVIOUS
<1>2. gone \in Seq(Customers) /\ IsInjective(gone) /\ out \in SUBSET Customers
  BY <1>1 DEF Distinct, Range
<1>3. PICK P \in Nat : DOMAIN solution = 1..P
  BY OriginalParts
<1>4. PICK visits : visits = VisitsOf(solution)
  OBVIOUS
<1>5. /\ visits \in Seq(Seq(Ids)) /\ DOMAIN visits = 1..P
      /\ \A p \in 1..P : visits[p] = solution[p].visits /\ solution[p].visits \in Seq(Ids)
      /\ \A c \in Customers : Occurrences(visits, c) = 1
  <2>1. visits \in Seq(Seq(Ids)) /\ \A c \in Customers : Occurrences(visits, c) = 1
    BY <1>4, OriginalsAreSolutions DEF Ids
  <2>2. DOMAIN visits = 1..P /\ \A p \in 1..P : visits[p] = solution[p].visits
    BY <1>3, <1>4 DEF VisitsOf
  <2>3. \A p \in DOMAIN visits : visits[p] \in Seq(Ids)
    BY <2>1
  <2> QED BY <2>1, <2>2, <2>3
<1>6. PICK remains : remains = RemainsOf(solution, out)
  OBVIOUS
<1>7. PICK moves : moves = MovesOf(solution, out)
  OBVIOUS
<1>8. \A p \in 1..P : /\ remains[p] = Remaining(solution[p], out)
                      /\ moves[p] = MovedStations(solution[p], out)
  BY <1>3, <1>6, <1>7 DEF RemainsOf, MovesOf
<1>9. ASSUME NEW p \in 1..P, NEW id
      PROVE  /\ remains[p] \in Seq(Ids) /\ moves[p] \in Seq(Stations)
             /\ Times(remains[p], id) \in Nat /\ Times(moves[p], id) \in Nat
             /\ id \notin out => Times(visits[p], id) = Times(remains[p], id) + Times(moves[p], id)
             /\ id \in out => Times(remains[p], id) = 0 /\ Times(moves[p], id) = 0
  <2>1. PICK plan : plan = solution[p]
    OBVIOUS
  <2>2. plan.visits \in Seq(Ids)
    BY <1>5, <2>1
  <2>3. /\ Remaining(plan, out) \in Seq(Ids) /\ MovedStations(plan, out) \in Seq(Stations)
        /\ Times(Remaining(plan, out), id) \in Nat /\ Times(MovedStations(plan, out), id) \in Nat
        /\ id \notin out => Times(plan.visits, id)
                              = Times(Remaining(plan, out), id) + Times(MovedStations(plan, out), id)
        /\ id \in out => Times(Remaining(plan, out), id) = 0 /\ Times(MovedStations(plan, out), id) = 0
    BY <1>2, <2>2, PlanParts
  <2> QED BY <1>5, <1>8, <2>1, <2>3
<1>10. remains \in Seq(Seq(Ids)) /\ DOMAIN remains = 1..P
  <2>1. remains = [p \in 1..P |-> remains[p]]
    BY <1>3, <1>6 DEF RemainsOf
  <2>2. \A p \in 1..P : remains[p] \in Seq(Ids)
    BY <1>9
  <2> QED BY <2>1, <2>2
<1>11. moves \in Seq(Seq(Stations)) /\ DOMAIN moves = 1..P
  <2>1. moves = [p \in 1..P |-> moves[p]]
    BY <1>3, <1>7 DEF MovesOf
  <2>2. \A p \in 1..P : moves[p] \in Seq(Stations)
    BY <1>9
  <2> QED BY <2>1, <2>2
<1>12. PICK left : left = LeftOf(solution, out)
  OBVIOUS
<1>13. PICK moved : moved = MovedOf(solution, out)
  OBVIOUS
<1>14. /\ left \in Seq(Seq(Ids))
       /\ \A id : Occurrences(left, id) = Occurrences(remains, id)
  <2>1. left = Entries(remains, {p \in DOMAIN remains : remains[p] # << >>})
    BY <1>3, <1>6, <1>10, <1>12 DEF LeftOf
  <2> QED BY <1>10, <2>1, OccurrencesOfFilled
<1>15. /\ moved \in Seq(Stations)
       /\ \A id : Times(moved, id) = Occurrences(moves, id)
  <2>1. moved = FlattenSeq(moves)
    BY <1>7, <1>13 DEF MovedOf
  <2> QED BY <1>11, <2>1, FlattenCounted
<1>16. gone \in Seq(Ids) /\ moved \in Seq(Ids) /\ gone \o moved \in Seq(Ids)
  <2>1. gone \in Seq(Ids)
    BY <1>2 DEF Ids
  <2>2. moved \in Seq(Ids)
    BY <1>15 DEF Ids
  <2> QED BY <2>1, <2>2
<1>17. ASSUME NEW id \in Ids
       PROVE  Occurrences(visits, id) = Occurrences(left, id) + Times(gone \o moved, id)
  <2>1. Times(gone \o moved, id) = Times(gone, id) + Times(moved, id) /\ Times(moved, id) \in Nat
    BY <1>16, TimesOfConcat
  <2>2. Times(gone, id) = IF id \in out THEN 1 ELSE 0
    BY <1>1, <1>2, TimesOfDistinct
  <2>3. PICK f : f = TimesOf(visits, id)
    OBVIOUS
  <2>4. PICK g : g = TimesOf(remains, id)
    OBVIOUS
  <2>5. PICK h : h = TimesOf(moves, id)
    OBVIOUS
  <2>6. /\ \A p \in 1..P : f[p] = Times(visits[p], id)
        /\ Occurrences(visits, id) = Total(f, 1..P)
    BY <1>5, <2>3, OccurrencesTotal
  <2>7. /\ \A p \in 1..P : g[p] = Times(remains[p], id)
        /\ Occurrences(remains, id) = Total(g, 1..P) /\ Occurrences(remains, id) \in Int
    BY <1>10, <2>4, OccurrencesTotal
  <2>8. /\ \A p \in 1..P : h[p] = Times(moves[p], id)
        /\ Occurrences(moves, id) = Total(h, 1..P) /\ Occurrences(moves, id) \in Int
    BY <1>11, <2>5, OccurrencesTotal
  <2>9. CASE id \notin out
    <3>1. \A p \in 1..P : g[p] \in Int /\ h[p] \in Int /\ f[p] = g[p] + h[p]
      BY <1>9, <2>6, <2>7, <2>8, <2>9
    <3>2. Total(f, 1..P) = Total(g, 1..P) + Total(h, 1..P)
      BY <3>1, TotalAdds
    <3> QED BY <1>14, <1>15, <2>1, <2>2, <2>6, <2>7, <2>8, <2>9, <3>2
  <2>10. CASE id \in out
    <3>1. \A p \in 1..P : g[p] = 0 /\ h[p] = 0
      BY <1>9, <2>7, <2>8, <2>10
    <3>2. Total(g, 1..P) = Total(g, 1..P) + Total(g, 1..P)
      <4>1. \A p \in 1..P : g[p] \in Int /\ g[p] \in Int /\ g[p] = g[p] + g[p]
        BY <3>1
      <4> QED BY <4>1, TotalAdds
    <3>3. Total(h, 1..P) = Total(h, 1..P) + Total(h, 1..P)
      <4>1. \A p \in 1..P : h[p] \in Int /\ h[p] \in Int /\ h[p] = h[p] + h[p]
        BY <3>1
      <4> QED BY <4>1, TotalAdds
    <3>4. Occurrences(remains, id) = 0 /\ Occurrences(moves, id) = 0
      BY <2>7, <2>8, <3>2, <3>3
    <3>5. Occurrences(visits, id) = 1
      BY <1>2, <1>5, <2>10
    <3> QED BY <1>14, <1>15, <2>1, <2>2, <2>10, <3>4, <3>5
  <2> QED BY <2>9, <2>10
<1> QED BY <1>1, <1>4, <1>12, <1>13, <1>14, <1>15, <1>16, <1>17

-----------------------------------------------------------------------------
(* The repair.                                                             *)

Token == [id : Ids, ordinal : Nat]

IdsOf(list) == [k \in DOMAIN list |-> list[k].id]
Served(list) == [k \in DOMAIN list |-> list[k].id \in Customers]

\* The customers that wait.
Waiting(list) == Times(Served(list), TRUE)

\* FreshBest for a route that is given.
BestOn(visits, id, r) ==
  BestTwo({<<RouteCost[Inserted(visits, slot, id)] - RouteCost[visits], id, r, slot>> :
             slot \in Slots(id, visits)})

\* Removing an entry moves those after it one down.
LEMMA RemoveEntries ==
  ASSUME NEW A, NEW s \in Seq(A), NEW i \in 1..Len(s)
  PROVE  /\ RemoveAt(s, i) \in Seq(A) /\ Len(RemoveAt(s, i)) = Len(s) - 1
         /\ \A j \in 1..(Len(s) - 1) : RemoveAt(s, i)[j] = IF j < i THEN s[j] ELSE s[j + 1]
<1>1. PICK a : a = SubSeq(s, 1, i - 1)
  OBVIOUS
<1>2. PICK b : b = SubSeq(s, i + 1, Len(s))
  OBVIOUS
<1>3. PICK n \in Nat : n = Len(s)
  OBVIOUS
<1>4. a \in Seq(A) /\ Len(a) = i - 1 /\ \A j \in 1..(i - 1) : a[j] = s[j]
  BY <1>1
<1>5. b \in Seq(A) /\ Len(b) = n - i /\ \A j \in 1..(n - i) : b[j] = s[j + i]
  BY <1>2, <1>3
<1>6. PICK t : t = a \o b
  OBVIOUS
<1>7. t \in Seq(A) /\ Len(t) = n - 1
  BY <1>3, <1>4, <1>5, <1>6
<1>8. ASSUME NEW j \in 1..(n - 1)
      PROVE  t[j] = IF j < i THEN s[j] ELSE s[j + 1]
  <2>1. CASE j < i
    <3>1. j \in 1..(i - 1)
      BY <1>3, <2>1
    <3> QED BY <1>4, <1>5, <1>6, <2>1, <3>1
  <2>2. CASE ~(j < i)
    <3>1. PICK m \in 1..(n - i) : j = m + (i - 1)
      <4>1. j - (i - 1) \in 1..(n - i) /\ j = (j - (i - 1)) + (i - 1)
        BY <1>3, <2>2
      <4> QED BY <4>1
    <3>2. t[j] = b[m]
      BY <1>3, <1>4, <1>5, <1>6, <3>1
    <3>3. m + i = j + 1
      BY <3>1
    <3> QED BY <1>5, <2>2, <3>2, <3>3
  <2> QED BY <2>1, <2>2
<1>9. RemoveAt(s, i) = t
  BY <1>1, <1>2, <1>6 DEF RemoveAt
<1> QED BY <1>3, <1>7, <1>8, <1>9

\* What is told of the tokens but one is told of the list without it.
LEMMA RemovedTokens ==
  ASSUME NEW list \in Seq(Token), NEW i \in DOMAIN list
  PROVE  LET rest == RemoveAt(list, i)
         IN /\ rest \in Seq(Token)
            /\ \A j \in DOMAIN rest : \E k \in DOMAIN list \ {i} : rest[j] = list[k]
            /\ \A id : /\ Times(IdsOf(rest), id) \in Nat
                       /\ Times(IdsOf(list), id)
                            = Times(IdsOf(rest), id) + (IF list[i].id = id THEN 1 ELSE 0)
            /\ Waiting(rest) \in Nat
            /\ Waiting(list) = Waiting(rest) + (IF list[i].id \in Customers THEN 1 ELSE 0)
            /\ (\A j, k \in DOMAIN list : list[j].ordinal = list[k].ordinal => j = k)
                 => \A j, k \in DOMAIN rest : rest[j].ordinal = rest[k].ordinal => j = k
<1>1. PICK n \in Nat : n = Len(list)
  OBVIOUS
<1>2. PICK rest : rest = RemoveAt(list, i)
  OBVIOUS
<1>3. i \in 1..n /\ DOMAIN list = 1..n /\ n - 1 \in Nat
  BY <1>1
<1>4. /\ rest \in Seq(Token) /\ Len(rest) = n - 1
      /\ \A j \in 1..(n - 1) : rest[j] = IF j < i THEN list[j] ELSE list[j + 1]
  BY <1>1, <1>2, <1>3, RemoveEntries
<1>5. DOMAIN rest = 1..(n - 1)
  BY <1>3, <1>4
<1>6. \A j \in 1..(n - 1) : j \in 1..n /\ j + 1 \in 1..n
  BY <1>3
<1>7. ASSUME NEW j \in DOMAIN rest
      PROVE  \E k \in DOMAIN list \ {i} : rest[j] = list[k]
  <2>1. CASE j < i
    BY <1>3, <1>4, <1>5, <1>6, <2>1
  <2>2. CASE ~(j < i)
    <3>1. j + 1 \in DOMAIN list \ {i} /\ rest[j] = list[j + 1]
      BY <1>3, <1>4, <1>5, <1>6, <2>2
    <3> QED BY <3>1
  <2> QED BY <2>1, <2>2
<1>8. \A k \in 1..n : list[k] \in Token
  BY <1>3
<1>9. ASSUME NEW id
      PROVE  /\ Times(IdsOf(rest), id) \in Nat
             /\ Times(IdsOf(list), id) = Times(IdsOf(rest), id) + (IF list[i].id = id THEN 1 ELSE 0)
  <2>1. PICK s : s = IdsOf(list)
    OBVIOUS
  <2>2. s \in Seq(Ids) /\ Len(s) = n /\ \A k \in 1..n : s[k] = list[k].id
    <3>1. s = [k \in 1..n |-> list[k].id]
      BY <1>3, <2>1 DEF IdsOf
    <3>2. \A k \in 1..n : list[k].id \in Ids
      BY <1>8 DEF Token
    <3> QED BY <3>1, <3>2
  <2>3. PICK t : t = RemoveAt(s, i)
    OBVIOUS
  <2>4. /\ t \in Seq(Ids) /\ Len(t) = n - 1
        /\ \A j \in 1..(n - 1) : t[j] = IF j < i THEN s[j] ELSE s[j + 1]
    BY <1>3, <2>2, <2>3, RemoveEntries
  <2>5. IdsOf(rest) = t
    <3>1. IdsOf(rest) = [k \in 1..(n - 1) |-> rest[k].id]
      BY <1>5 DEF IdsOf
    <3>2. \A j \in 1..(n - 1) : t[j] = rest[j].id
      BY <1>4, <1>6, <2>2, <2>4
    <3>3. t = [k \in 1..(n - 1) |-> t[k]]
      BY <1>3, <2>4
    <3> QED BY <3>1, <3>2, <3>3
  <2>6. Times(t, id) \in Nat /\ Times(s, id) = Times(t, id) + (IF s[i] = id THEN 1 ELSE 0)
    BY <1>3, <2>2, <2>3, TimesOfRemove
  <2> QED BY <1>3, <2>1, <2>2, <2>5, <2>6
<1>10. /\ Waiting(rest) \in Nat
       /\ Waiting(list) = Waiting(rest) + (IF list[i].id \in Customers THEN 1 ELSE 0)
  <2>1. PICK s : s = Served(list)
    OBVIOUS
  <2>2. s \in Seq(BOOLEAN) /\ Len(s) = n /\ \A k \in 1..n : s[k] = (list[k].id \in Customers)
    <3>1. s = [k \in 1..n |-> list[k].id \in Customers]
      BY <1>3, <2>1 DEF Served
    <3> QED BY <3>1
  <2>3. PICK t : t = RemoveAt(s, i)
    OBVIOUS
  <2>4. /\ t \in Seq(BOOLEAN) /\ Len(t) = n - 1
        /\ \A j \in 1..(n - 1) : t[j] = IF j < i THEN s[j] ELSE s[j + 1]
    <3>1. i \in 1..Len(s) /\ n \in Nat
      BY <1>3, <2>2
    <3> QED BY <2>2, <2>3, <3>1, RemoveEntries
  <2>5. Served(rest) = t
    <3>1. Served(rest) = [k \in 1..(n - 1) |-> rest[k].id \in Customers]
      BY <1>5 DEF Served
    <3>2. ASSUME NEW j \in 1..(n - 1)
          PROVE  t[j] = (rest[j].id \in Customers)
      <4>1. CASE j < i
        BY <1>4, <1>6, <2>2, <2>4, <4>1
      <4>2. CASE ~(j < i)
        BY <1>4, <1>6, <2>2, <2>4, <4>2
      <4> QED BY <4>1, <4>2
    <3>3. t = [k \in 1..(n - 1) |-> t[k]]
      BY <1>3, <2>4
    <3> QED BY <3>1, <3>2, <3>3
  <2>6. Times(t, TRUE) \in Nat /\ Times(s, TRUE) = Times(t, TRUE) + (IF s[i] = TRUE THEN 1 ELSE 0)
    <3>1. PICK yes : yes = TRUE
      OBVIOUS
    <3>2. Times(t, yes) \in Nat /\ Times(s, yes) = Times(t, yes) + (IF s[i] = yes THEN 1 ELSE 0)
      BY <1>3, <2>2, <2>3, TimesOfRemove
    <3> QED BY <3>1, <3>2
  <2> QED BY <1>3, <2>1, <2>2, <2>5, <2>6 DEF Waiting
<1>11. ASSUME \A j, k \in DOMAIN list : list[j].ordinal = list[k].ordinal => j = k,
              NEW j \in DOMAIN rest, NEW k \in DOMAIN rest, rest[j].ordinal = rest[k].ordinal
       PROVE  j = k
  <2>1. PICK a \in 1..n : a = (IF j < i THEN j ELSE j + 1) /\ rest[j] = list[a]
    BY <1>4, <1>5, <1>6
  <2>2. PICK b \in 1..n : b = (IF k < i THEN k ELSE k + 1) /\ rest[k] = list[b]
    BY <1>4, <1>5, <1>6
  <2>3. a = b
    BY <1>3, <1>11, <2>1, <2>2
  <2>4. j \in Int /\ k \in Int /\ i \in Int
    BY <1>3, <1>5
  <2> QED BY <2>1, <2>2, <2>3, <2>4
<1> QED BY <1>2, <1>4, <1>7, <1>9, <1>10, <1>11

\* What holds between destruction and the last check.
Sound(given, built, list, changes, kept) ==
  /\ built \in Seq(Seq(Ids)) /\ list \in Seq(Token) /\ changes \in Seq(Nat)
  /\ \A j, k \in DOMAIN list : list[j].ordinal = list[k].ordinal => j = k
  /\ Len(built) + Waiting(list) <= Len(changes)
  /\ \A r \in DOMAIN changes : r > Len(built) => changes[r] = 0
  /\ \A k \in DOMAIN list, r \in DOMAIN changes :
       LET x == <<list[k].ordinal, r>>
       IN x \in DOMAIN kept /\ kept[x].version \in Nat /\ kept[x].version <= changes[r]
  /\ \A k \in DOMAIN list, r \in DOMAIN built :
       LET x == <<list[k].ordinal, r>>
       IN kept[x].version = changes[r] => kept[x].best = BestOn(built[r], list[k].id, r)
  /\ \A id \in Ids :
       Occurrences(VisitsOf(given), id) = Occurrences(built, id) + Times(IdsOf(list), id)

JointInvariant ==
  /\ original \in Originals /\ kappa \in Kappas
  /\ phase \in {"destroy", "repair", "done"}
  /\ phase = "repair" => Sound(original, routes, tokens, versions, ranks)
  /\ phase = "done" => \A id \in Ids : Occurrences(VisitsOf(original), id) = Occurrences(routes, id)

\* Before the destruction nothing has to be conserved.
LEMMA JointStarts == JointInit => JointInvariant
BY DEF JointInit, JointInvariant

\* The tokens of a destruction.
LEMMA TokensAreSound ==
  ASSUME NEW gone \in Seq(Customers), NEW moved \in Seq(Stations), gone \o moved \in Seq(Ids)
  PROVE  LET list == TokensOf(gone \o moved)
         IN /\ list \in Seq(Token)
            /\ \A k \in DOMAIN list : list[k].ordinal = k /\ k \in 1..(Len(gone) + Len(moved))
            /\ IdsOf(list) = gone \o moved
            /\ Waiting(list) = Len(gone)
<1>1. PICK ids : ids = gone \o moved
  OBVIOUS
<1>2. PICK n \in Nat : n = Len(gone)
  OBVIOUS
<1>3. PICK m \in Nat : m = Len(moved)
  OBVIOUS
<1>4. /\ ids \in Seq(Ids) /\ DOMAIN ids = 1..(n + m) /\ Len(ids) = n + m
      /\ \A i \in 1..n : ids[i] = gone[i]
      /\ \A i \in 1..m : ids[n + i] = moved[i]
  BY <1>1, <1>2, <1>3
<1>5. PICK list : list = TokensOf(ids)
  OBVIOUS
<1>6. list = [k \in 1..(n + m) |-> [id |-> ids[k], ordinal |-> k]]
  BY <1>4, <1>5 DEF TokensOf
<1>7. \A k \in 1..(n + m) : list[k].id = ids[k] /\ list[k].ordinal = k /\ list[k] \in Token
  BY <1>4, <1>6 DEF Token
<1>8. list \in Seq(Token) /\ DOMAIN list = 1..(n + m)
  BY <1>6, <1>7
<1>9. IdsOf(list) = ids
  <2>1. ids = [k \in 1..(n + m) |-> ids[k]]
    BY <1>4
  <2>2. IdsOf(list) = [k \in 1..(n + m) |-> list[k].id]
    BY <1>8 DEF IdsOf
  <2> QED BY <1>7, <2>1, <2>2
<1>10. Waiting(list) = n
  <2>1. Served(list) = [k \in 1..(n + m) |-> list[k].id \in Customers]
    BY <1>8 DEF Served
  <2>2. PICK s : s = Served(list)
    OBVIOUS
  <2>3. DOMAIN s = 1..(n + m) /\ \A k \in 1..(n + m) : s[k] = (ids[k] \in Customers)
    BY <1>7, <2>1, <2>2
  <2>4. \A k \in 1..(n + m) : k \in 1..n \/ \E i \in 1..m : k = n + i
    <3> SUFFICES ASSUME NEW k \in 1..(n + m), k \notin 1..n
                 PROVE  \E i \in 1..m : k = n + i
      OBVIOUS
    <3>1. k - n \in 1..m /\ k = n + (k - n)
      OBVIOUS
    <3> QED BY <3>1
  <2>5. \A k \in 1..n : k \in 1..(n + m) /\ ids[k] \in Customers
    BY <1>2, <1>4
  <2>6. \A i \in 1..m : n + i \notin 1..n /\ ids[n + i] \notin Customers
    BY <1>3, <1>4, NodesDisjoint
  <2>7. {k \in DOMAIN s : s[k] = TRUE} = 1..n
    BY <2>3, <2>4, <2>5, <2>6
  <2>8. Cardinality(1..n) = n
    BY FS_Interval
  <2> QED BY <2>2, <2>7, <2>8 DEF Times, Waiting
<1> QED BY <1>1, <1>2, <1>3, <1>5, <1>7, <1>8, <1>9, <1>10

\* The destruction leaves everything in order.
LEMMA DestroyStarts ==
  ASSUME JointInvariant, Destroy
  PROVE  JointInvariant'
<1>1. original \in Originals /\ kappa \in Kappas /\ phase = "destroy"
  BY DEF JointInvariant, Destroy
<1>2. original' = original /\ kappa' = kappa /\ phase' = "repair"
  BY DEF Destroy
<1>3. PICK operator \in Operators : \E gone \in Removals(operator, original, kappa) :
        /\ routes' = LeftOf(original, Range(gone))
        /\ tokens' = TokensOf(gone \o MovedOf(original, Range(gone)))
        /\ versions' = [r \in 1 .. Len(LeftOf(original, Range(gone))) + Len(gone) |->
                          IF r <= Len(LeftOf(original, Range(gone))) THEN 1 ELSE 0]
        /\ ranks' = [x \in (1 .. Len(gone) + Len(MovedOf(original, Range(gone)))) \X DOMAIN versions' |->
                       [version |-> 0, best |-> {}]]
  BY Zenon DEF Destroy, LeftOf, RemainsOf, MovedOf, MovesOf
<1>3a. PICK gone \in Removals(operator, original, kappa) :
        /\ routes' = LeftOf(original, Range(gone))
        /\ tokens' = TokensOf(gone \o MovedOf(original, Range(gone)))
        /\ versions' = [r \in 1 .. Len(LeftOf(original, Range(gone))) + Len(gone) |->
                          IF r <= Len(LeftOf(original, Range(gone))) THEN 1 ELSE 0]
        /\ ranks' = [x \in (1 .. Len(gone) + Len(MovedOf(original, Range(gone)))) \X DOMAIN versions' |->
                       [version |-> 0, best |-> {}]]
  BY Zenon, <1>3
<1>4. PICK left : left = LeftOf(original, Range(gone))
  OBVIOUS
<1>5. PICK moved : moved = MovedOf(original, Range(gone))
  OBVIOUS
<1>6. gone \in Seq(Customers) /\ Distinct(gone)
  BY <1>1, RemovalsAreDistinct DEF Distinct
<1>7. /\ left \in Seq(Seq(Ids)) /\ moved \in Seq(Stations) /\ gone \o moved \in Seq(Ids)
      /\ \A id \in Ids :
           Occurrences(VisitsOf(original), id) = Occurrences(left, id) + Times(gone \o moved, id)
  BY <1>1, <1>4, <1>5, <1>6, DestructionConserves
<1>8. PICK n \in Nat : n = Len(gone)
  BY <1>6
<1>9. PICK m \in Nat : m = Len(moved)
  BY <1>7
<1>10. PICK q \in Nat : q = Len(left)
  BY <1>7
<1>11. PICK list : list = TokensOf(gone \o moved)
  OBVIOUS
<1>12. /\ list \in Seq(Token)
       /\ \A k \in DOMAIN list : list[k].ordinal = k /\ k \in 1..(n + m)
       /\ IdsOf(list) = gone \o moved
       /\ Waiting(list) = n
  BY <1>6, <1>7, <1>8, <1>9, <1>11, TokensAreSound
<1>13. PICK changes : changes = [r \in 1..(q + n) |-> IF r <= q THEN 1 ELSE 0]
  OBVIOUS
<1>14. PICK kept : kept = [x \in (1..(n + m)) \X (1..(q + n)) |-> [version |-> 0, best |-> {}]]
  OBVIOUS
<1>15. routes' = left /\ tokens' = list /\ versions' = changes
  BY <1>3a, <1>4, <1>5, <1>8, <1>10, <1>11, <1>13
<1>17. /\ changes \in Seq(Nat) /\ Len(changes) = q + n /\ DOMAIN changes = 1..(q + n)
       /\ \A r \in 1..(q + n) : /\ r <= q => changes[r] = 1
                                /\ r > q => changes[r] = 0
  BY <1>13
<1>16. ranks' = kept
  BY <1>3a, <1>5, <1>8, <1>9, <1>13, <1>14, <1>15, <1>17
<1>18. \A k \in DOMAIN list, r \in DOMAIN changes :
         LET x == <<list[k].ordinal, r>>
         IN x \in DOMAIN kept /\ kept[x].version = 0
  BY <1>12, <1>14, <1>17
<1>19. Sound(original, left, list, changes, kept)
  <2>1. \A j, k \in DOMAIN list : list[j].ordinal = list[k].ordinal => j = k
    BY <1>12
  <2>2. Len(left) + Waiting(list) <= Len(changes)
    BY <1>10, <1>12, <1>17
  <2>3. \A r \in DOMAIN changes : r > Len(left) => changes[r] = 0
    BY <1>10, <1>17
  <2>4. \A k \in DOMAIN list, r \in DOMAIN changes :
          LET x == <<list[k].ordinal, r>>
          IN x \in DOMAIN kept /\ kept[x].version \in Nat /\ kept[x].version <= changes[r]
    <3>1. \A r \in DOMAIN changes : changes[r] \in Nat
      BY <1>17
    <3> QED BY <1>18, <3>1
  <2>5. ASSUME NEW k \in DOMAIN list, NEW r \in DOMAIN left
        PROVE  kept[<<list[k].ordinal, r>>].version # changes[r]
    <3>1. r \in DOMAIN changes /\ changes[r] = 1
      BY <1>7, <1>10, <1>17
    <3> QED BY <1>18, <3>1
  <2>6. \A id \in Ids :
          Occurrences(VisitsOf(original), id) = Occurrences(left, id) + Times(IdsOf(list), id)
    BY <1>7, <1>12
  <2> QED BY <1>7, <1>12, <1>17, <2>1, <2>2, <2>3, <2>4, <2>5, <2>6 DEF Sound
<1>20. Sound(original, routes, tokens, versions, ranks)'
  BY <1>2, <1>15, <1>16, <1>19 DEF Sound
<1> QED BY <1>1, <1>2, <1>20 DEF JointInvariant


\* FreshBest is BestOn of the route as it is.
LEMMA BestHere ==
  ASSUME NEW id, NEW r
  PROVE  FreshBest(id, r) = BestOn(routes[r], id, r)
BY Zenon DEF FreshBest, BestOn, Place

\* Every route has a version.
LEMMA SoundRoutes ==
  ASSUME Sound(original, routes, tokens, versions, ranks)
  PROVE  DOMAIN routes \subseteq DOMAIN versions
<1>1. /\ routes \in Seq(Seq(Ids)) /\ tokens \in Seq(Token) /\ versions \in Seq(Nat)
      /\ Len(routes) + Waiting(tokens) <= Len(versions)
  BY DEF Sound
<1>2. Waiting(tokens) \in Nat
  <2>1. PICK s : s = Served(tokens)
    OBVIOUS
  <2>2. s \in Seq(BOOLEAN)
    <3>1. PICK n \in Nat : DOMAIN tokens = 1..n
      BY <1>1
    <3>2. s = [k \in 1..n |-> tokens[k].id \in Customers]
      BY <2>1, <3>1 DEF Served
    <3> QED BY <3>2
  <2>3. PICK yes : yes = TRUE
    OBVIOUS
  <2>4. Times(s, yes) \in Nat
    BY <2>2, TimesOfConcat
  <2> QED BY <2>1, <2>3, <2>4 DEF Waiting
<1> QED BY <1>1, <1>2

\* The ranks a token has now are those of the routes as they are, and are kept.
LEMMA RanksRefreshed ==
  ASSUME Sound(original, routes, tokens, versions, ranks), Refresh
  PROVE  /\ DOMAIN ranks' = DOMAIN ranks
         /\ DOMAIN routes \subseteq DOMAIN versions
         /\ \A k \in DOMAIN tokens, r \in DOMAIN routes :
              /\ RankedNow(tokens[k], r).version = versions[r]
              /\ RankedNow(tokens[k], r).best = BestOn(routes[r], tokens[k].id, r)
              /\ ranks'[<<tokens[k].ordinal, r>>] = RankedNow(tokens[k], r)
         /\ \A k \in DOMAIN tokens, r \in DOMAIN versions \ DOMAIN routes :
              ranks'[<<tokens[k].ordinal, r>>] = ranks[<<tokens[k].ordinal, r>>]
<1>1. /\ routes \in Seq(Seq(Ids)) /\ tokens \in Seq(Token) /\ versions \in Seq(Nat)
      /\ \A j, k \in DOMAIN tokens : tokens[j].ordinal = tokens[k].ordinal => j = k
      /\ Len(routes) + Waiting(tokens) <= Len(versions)
      /\ \A k \in DOMAIN tokens, r \in DOMAIN versions : <<tokens[k].ordinal, r>> \in DOMAIN ranks
      /\ \A k \in DOMAIN tokens, r \in DOMAIN routes :
           ranks[<<tokens[k].ordinal, r>>].version = versions[r]
             => ranks[<<tokens[k].ordinal, r>>].best = BestOn(routes[r], tokens[k].id, r)
  BY DEF Sound
<1>3. DOMAIN routes \subseteq DOMAIN versions
  BY SoundRoutes
<1>4. ranks' = [x \in DOMAIN ranks |->
                  IF x[2] \in DOMAIN routes /\ \E k \in DOMAIN tokens : tokens[k].ordinal = x[1]
                  THEN RankedNow(tokens[CHOOSE k \in DOMAIN tokens : tokens[k].ordinal = x[1]], x[2])
                  ELSE ranks[x]]
  BY Zenon DEF Refresh
<1>5. ASSUME NEW k \in DOMAIN tokens, NEW r \in DOMAIN routes
      PROVE  /\ RankedNow(tokens[k], r).version = versions[r]
             /\ RankedNow(tokens[k], r).best = BestOn(routes[r], tokens[k].id, r)
             /\ ranks'[<<tokens[k].ordinal, r>>] = RankedNow(tokens[k], r)
  <2>1. PICK kept : kept = ranks[<<tokens[k].ordinal, r>>]
    OBVIOUS
  <2>2. RankedNow(tokens[k], r) = IF kept.version = versions[r] THEN kept
                                  ELSE [version |-> versions[r], best |-> FreshBest(tokens[k].id, r)]
    BY <2>1 DEF RankedNow
  <2>3. FreshBest(tokens[k].id, r) = BestOn(routes[r], tokens[k].id, r)
    BY BestHere
  <2>4. RankedNow(tokens[k], r).version = versions[r]
    BY <2>2
  <2>5. RankedNow(tokens[k], r).best = BestOn(routes[r], tokens[k].id, r)
    BY <1>1, <2>1, <2>2, <2>3
  <2>6. PICK x : x = <<tokens[k].ordinal, r>>
    OBVIOUS
  <2>7. x \in DOMAIN ranks /\ x[1] = tokens[k].ordinal /\ x[2] = r
    BY <1>1, <1>3, <2>6
  <2>8. (CHOOSE j \in DOMAIN tokens : tokens[j].ordinal = x[1]) = k
    BY <1>1, <2>7
  <2>9. ranks'[x] = RankedNow(tokens[k], r)
    BY Zenon, <1>4, <2>7, <2>8
  <2> QED BY <2>4, <2>5, <2>6, <2>9
<1>6. ASSUME NEW k \in DOMAIN tokens, NEW r \in DOMAIN versions \ DOMAIN routes
      PROVE  ranks'[<<tokens[k].ordinal, r>>] = ranks[<<tokens[k].ordinal, r>>]
  <2>1. PICK x : x = <<tokens[k].ordinal, r>>
    OBVIOUS
  <2>2. x \in DOMAIN ranks /\ x[2] \notin DOMAIN routes
    BY <1>1, <2>1
  <2>3. ranks'[x] = ranks[x]
    BY Zenon, <1>4, <2>2
  <2> QED BY <2>1, <2>3
<1>7. DOMAIN ranks' = DOMAIN ranks
  BY Zenon, <1>4
<1> QED BY <1>3, <1>5, <1>6, <1>7

\* A place is in a route as it is, or opens a route for a customer.
LEMMA PlacesAreReal ==
  ASSUME Sound(original, routes, tokens, versions, ranks), Refresh,
         NEW k \in DOMAIN tokens, NEW p \in Places(tokens[k])
  PROVE  \/ p[3] \in DOMAIN routes /\ p[4] \in 0..Len(routes[p[3]])
         \/ tokens[k].id \in Customers /\ p[3] = Len(routes) + 1 /\ p[4] = 0
<1>1. \/ \E r \in DOMAIN routes : p \in RankedNow(tokens[k], r).best
      \/ /\ tokens[k].id \in Customers
         /\ p = <<RouteCost[<<tokens[k].id>>], tokens[k].id, Len(routes) + 1, 0>>
  <2>1. PICK token : token = tokens[k]
    OBVIOUS
  <2>2. p \in Places(token)
    BY <2>1
  <2>3. \/ p \in UNION {RankedNow(token, r).best : r \in DOMAIN routes}
        \/ p \in IF token.id \in Customers
                THEN {<<RouteCost[<<token.id>>], token.id, Len(routes) + 1, 0>>} ELSE {}
    BY <2>2 DEF Places
  <2> QED BY <2>1, <2>3
<1>2. CASE \E r \in DOMAIN routes : p \in RankedNow(tokens[k], r).best
  <2>1. PICK r \in DOMAIN routes : p \in RankedNow(tokens[k], r).best
    BY <1>2
  <2>2. p \in BestOn(routes[r], tokens[k].id, r)
    BY <2>1, RanksRefreshed
  <2>3. PICK visits : visits = routes[r]
    OBVIOUS
  <2>4. PICK id : id = tokens[k].id
    OBVIOUS
  <2>5. p \in BestTwo({<<RouteCost[Inserted(visits, slot, id)] - RouteCost[visits], id, r, slot>> :
                         slot \in Slots(id, visits)})
    BY <2>2, <2>3, <2>4 DEF BestOn
  <2>6. p \in {<<RouteCost[Inserted(visits, slot, id)] - RouteCost[visits], id, r, slot>> :
                 slot \in Slots(id, visits)}
    BY <2>5 DEF BestTwo
  <2>7. PICK slot \in Slots(id, visits) :
          p = <<RouteCost[Inserted(visits, slot, id)] - RouteCost[visits], id, r, slot>>
    BY <2>6
  <2>8. p[3] = r /\ p[4] = slot
    BY <2>7
  <2>9. slot \in 0..Len(visits)
    BY DEF Slots
  <2> QED BY <2>3, <2>8, <2>9
<1>3. CASE /\ tokens[k].id \in Customers
           /\ p = <<RouteCost[<<tokens[k].id>>], tokens[k].id, Len(routes) + 1, 0>>
  BY <1>3
<1> QED BY <1>1, <1>2, <1>3

\* What is chosen is a place of a token.
LEMMA ChosenIsAPlace ==
  ASSUME NEW x \in Chosen(Rankings)
  PROVE  x.at \in DOMAIN tokens /\ x.place \in Places(tokens[x.at])
<1>1. x \in Rankings
  BY DEF Chosen, Firsts
<1>2. PICK k \in DOMAIN tokens : x \in Ranking(k)
  BY <1>1 DEF Rankings
<1>3. PICK two : two = BestTwo(Places(tokens[k]))
  OBVIOUS
<1>4. x \in {[at |-> k, place |-> p, regret |-> Regret(two, p)] : p \in Firsts(two, LAMBDA q : q)}
  BY <1>2, <1>3 DEF Ranking
<1>5. PICK p \in Firsts(two, LAMBDA q : q) : x = [at |-> k, place |-> p, regret |-> Regret(two, p)]
  BY <1>4
<1>6. p \in two
  BY DEF Firsts
<1>7. p \in Places(tokens[k])
  BY <1>3, <1>6 DEF BestTwo
<1> QED BY <1>5, <1>7

\* A token enters a route that there is, or a customer opens a route.
Enters(at, r, slot) ==
  LET visits == Inserted(IF r \in DOMAIN routes THEN routes[r] ELSE << >>, slot, tokens[at].id)
  IN /\ routes' = IF r \in DOMAIN routes THEN [routes EXCEPT ![r] = visits] ELSE Append(routes, visits)
     /\ versions' = [versions EXCEPT ![r] = @ + 1]
     /\ tokens' = RemoveAt(tokens, at)

\* Whatever token enters, everything stays in order.
LEMMA EnteringKeeps ==
  ASSUME Sound(original, routes, tokens, versions, ranks), Refresh,
         NEW at \in DOMAIN tokens, NEW r, NEW slot,
         \/ r \in DOMAIN routes /\ slot \in 0..Len(routes[r])
         \/ tokens[at].id \in Customers /\ r = Len(routes) + 1 /\ slot = 0,
         Enters(at, r, slot), original' = original
  PROVE  Sound(original, routes, tokens, versions, ranks)'
<1>1. /\ routes \in Seq(Seq(Ids)) /\ tokens \in Seq(Token) /\ versions \in Seq(Nat)
      /\ \A j, k \in DOMAIN tokens : tokens[j].ordinal = tokens[k].ordinal => j = k
      /\ Len(routes) + Waiting(tokens) <= Len(versions)
      /\ \A q \in DOMAIN versions : q > Len(routes) => versions[q] = 0
      /\ \A k \in DOMAIN tokens, q \in DOMAIN versions :
           /\ <<tokens[k].ordinal, q>> \in DOMAIN ranks
           /\ ranks[<<tokens[k].ordinal, q>>].version \in Nat
           /\ ranks[<<tokens[k].ordinal, q>>].version <= versions[q]
      /\ \A id \in Ids :
           Occurrences(VisitsOf(original), id) = Occurrences(routes, id) + Times(IdsOf(tokens), id)
  BY DEF Sound
<1>2. PICK n \in Nat : n = Len(routes)
  BY <1>1
<1>3. PICK N \in Nat : N = Len(versions)
  BY <1>1
<1>4. PICK rest : rest = RemoveAt(tokens, at)
  OBVIOUS
<1>5. PICK id \in Ids : id = tokens[at].id
  <2>1. tokens[at] \in Token
    BY <1>1
  <2> QED BY <2>1 DEF Token
<1>6. /\ rest \in Seq(Token)
      /\ \A j \in DOMAIN rest : \E k \in DOMAIN tokens \ {at} : rest[j] = tokens[k]
      /\ \A i : /\ Times(IdsOf(rest), i) \in Nat
                /\ Times(IdsOf(tokens), i) = Times(IdsOf(rest), i) + (IF id = i THEN 1 ELSE 0)
      /\ Waiting(rest) \in Nat
      /\ Waiting(tokens) = Waiting(rest) + (IF id \in Customers THEN 1 ELSE 0)
      /\ \A j, k \in DOMAIN rest : rest[j].ordinal = rest[k].ordinal => j = k
  <2>1. PICK list : list = tokens
    OBVIOUS
  <2>2. list \in Seq(Token) /\ at \in DOMAIN list
    BY <1>1, <2>1
  <2>3. \A j, k \in DOMAIN list : list[j].ordinal = list[k].ordinal => j = k
    BY Zenon, <1>1, <2>1
  <2>4. /\ RemoveAt(list, at) \in Seq(Token)
        /\ \A j \in DOMAIN RemoveAt(list, at) :
             \E k \in DOMAIN list \ {at} : RemoveAt(list, at)[j] = list[k]
        /\ \A i : /\ Times(IdsOf(RemoveAt(list, at)), i) \in Nat
                  /\ Times(IdsOf(list), i)
                       = Times(IdsOf(RemoveAt(list, at)), i) + (IF list[at].id = i THEN 1 ELSE 0)
        /\ Waiting(RemoveAt(list, at)) \in Nat
        /\ Waiting(list) = Waiting(RemoveAt(list, at)) + (IF list[at].id \in Customers THEN 1 ELSE 0)
        /\ (\A j, k \in DOMAIN list : list[j].ordinal = list[k].ordinal => j = k)
             => \A j, k \in DOMAIN RemoveAt(list, at) :
                  RemoveAt(list, at)[j].ordinal = RemoveAt(list, at)[k].ordinal => j = k
    BY ZenonT(60), <2>2, RemovedTokens
  <2> QED BY <1>4, <1>5, <2>1, <2>3, <2>4
<1>7. DOMAIN routes = 1..n /\ DOMAIN versions = 1..N /\ n <= N /\ r \in 1..N
      /\ (r \in 1..n \/ r = n + 1) /\ (r \in 1..n <=> r \in DOMAIN routes)
  <2>1. DOMAIN routes = 1..n /\ DOMAIN versions = 1..N
    BY <1>1, <1>2, <1>3
  <2>2. n + Waiting(tokens) <= N /\ Waiting(tokens) \in Nat
    BY <1>1, <1>2, <1>3, <1>6
  <2>3. CASE r \in DOMAIN routes
    BY <2>1, <2>2, <2>3
  <2>4. CASE id \in Customers /\ r = n + 1
    <3>1. Waiting(tokens) >= 1
      BY <1>6, <2>4
    <3> QED BY <2>1, <2>2, <2>4, <3>1
  <2> QED BY <1>2, <1>5, <2>3, <2>4
<1>8. PICK base \in Seq(Ids) : base = IF r \in DOMAIN routes THEN routes[r] ELSE << >>
  <2>1. << >> \in Seq(Ids)
    OBVIOUS
  <2>2. CASE r \in DOMAIN routes
    <3>1. routes[r] \in Seq(Ids)
      BY <1>1, <2>2
    <3> QED BY <2>2, <3>1
  <2>3. CASE r \notin DOMAIN routes
    BY <2>1, <2>3
  <2> QED BY <2>2, <2>3
<1>9. slot \in 0..Len(base)
  <2>1. CASE r \in DOMAIN routes /\ slot \in 0..Len(routes[r])
    BY <1>8, <2>1
  <2>2. CASE r = Len(routes) + 1 /\ slot = 0
    BY <1>8, <2>2
  <2> QED BY <2>1, <2>2
<1>10. PICK visits : visits = Inserted(base, slot, id)
  OBVIOUS
<1>11. /\ visits \in Seq(Ids)
       /\ \A i : /\ Times(base, i) \in Nat
                 /\ Times(visits, i) = Times(base, i) + (IF id = i THEN 1 ELSE 0)
  <2>1. slot + 1 \in 1..(Len(base) + 1)
    BY <1>9
  <2>2. visits = InsertAt(base, slot + 1, id)
    BY <1>10 DEF Inserted
  <2> QED BY <2>1, <2>2, TimesOfInsert
<1>12. PICK built : built = IF r \in DOMAIN routes THEN [routes EXCEPT ![r] = visits] ELSE Append(routes, visits)
  OBVIOUS
<1>13. PICK changes : changes = [versions EXCEPT ![r] = @ + 1]
  OBVIOUS
<1>14. routes' = built /\ versions' = changes /\ tokens' = rest
  BY Zenon, <1>4, <1>5, <1>8, <1>10, <1>12, <1>13 DEF Enters
<1>15. /\ changes \in Seq(Nat) /\ Len(changes) = N /\ DOMAIN changes = 1..N
       /\ changes[r] = versions[r] + 1 /\ versions[r] \in Nat
       /\ \A q \in 1..N : q # r => changes[q] = versions[q]
  <2>1. versions \in Seq(Nat) /\ Len(versions) = N /\ r \in 1..N /\ DOMAIN versions = 1..N
    BY <1>1, <1>3, <1>7
  <2>2. versions[r] \in Nat
    BY <2>1
  <2>3. changes \in Seq(Nat) /\ Len(changes) = N /\ DOMAIN changes = 1..N
    BY <1>13, <2>1, <2>2
  <2>4. changes[r] = versions[r] + 1 /\ \A q \in 1..N : q # r => changes[q] = versions[q]
    BY <1>13, <2>1
  <2> QED BY <2>2, <2>3, <2>4
<1>16. /\ built \in Seq(Seq(Ids)) /\ built[r] = visits
       /\ Len(built) = IF r \in 1..n THEN n ELSE n + 1
       /\ \A q \in 1..n : q # r => built[q] = routes[q]
       /\ \A i : Occurrences(routes, i) \in Int
                 /\ Occurrences(built, i) = Occurrences(routes, i) + (IF id = i THEN 1 ELSE 0)
  <2>1. CASE r \in 1..n
    <3>1. built = [routes EXCEPT ![r] = visits] /\ base = routes[r]
      BY <1>7, <1>8, <1>12, <2>1
    <3>2. \A i : /\ built \in Seq(Seq(Ids))
                 /\ Occurrences(routes, i) \in Int /\ Times(visits, i) \in Nat /\ Times(base, i) \in Nat
                 /\ Occurrences(built, i) = Occurrences(routes, i) - Times(base, i) + Times(visits, i)
      <4>1. r \in DOMAIN routes /\ routes \in Seq(Seq(Ids)) /\ visits \in Seq(Ids)
        BY <1>1, <1>7, <1>11, <2>1
      <4> SUFFICES ASSUME NEW i
                   PROVE  /\ built \in Seq(Seq(Ids))
                          /\ Occurrences(routes, i) \in Int /\ Times(visits, i) \in Nat /\ Times(base, i) \in Nat
                          /\ Occurrences(built, i) = Occurrences(routes, i) - Times(base, i) + Times(visits, i)
        OBVIOUS
      <4>2. /\ built \in Seq(Seq(Ids)) /\ DOMAIN built = DOMAIN routes /\ built[r] = visits
            /\ \A q \in DOMAIN routes \ {r} : built[q] = routes[q]
        BY <3>1, <4>1
      <4>3. /\ Occurrences(routes, i) \in Int /\ Times(visits, i) \in Nat /\ Times(routes[r], i) \in Nat
            /\ Occurrences(built, i) = Occurrences(routes, i) - Times(routes[r], i) + Times(built[r], i)
        BY <1>11, <4>1, <4>2, OccurrencesExcept
      <4> QED BY <3>1, <4>2, <4>3
    <3>3. \A i : Occurrences(built, i) = Occurrences(routes, i) + (IF id = i THEN 1 ELSE 0)
      BY <1>11, <3>2
    <3>4. built[r] = visits /\ Len(built) = n /\ \A q \in 1..n : q # r => built[q] = routes[q]
      BY <1>1, <1>2, <1>7, <2>1, <3>1
    <3> QED BY <2>1, <3>2, <3>3, <3>4
  <2>2. CASE r \notin 1..n
    <3>1. built = Append(routes, visits) /\ base = << >> /\ r = n + 1
      BY <1>7, <1>8, <1>12, <2>2
    <3>2. \A i : /\ built \in Seq(Seq(Ids))
                 /\ Occurrences(routes, i) \in Int /\ Times(visits, i) \in Nat
                 /\ Occurrences(built, i) = Occurrences(routes, i) + Times(visits, i)
      BY <1>1, <1>11, <3>1, OccurrencesAppend
    <3>3. \A i : Times(base, i) = 0
      BY <3>1, TimesOfOne
    <3>4. \A i : Occurrences(built, i) = Occurrences(routes, i) + (IF id = i THEN 1 ELSE 0)
      BY <1>11, <3>2, <3>3
    <3>5. built[r] = visits /\ Len(built) = n + 1 /\ \A q \in 1..n : q # r => built[q] = routes[q]
      BY <1>1, <1>2, <1>11, <3>1
    <3> QED BY <2>2, <3>2, <3>4, <3>5
  <2> QED BY <2>1, <2>2
<1>17. /\ \A k \in DOMAIN tokens, q \in 1..n :
            /\ ranks'[<<tokens[k].ordinal, q>>].version = versions[q]
            /\ ranks'[<<tokens[k].ordinal, q>>].best = BestOn(routes[q], tokens[k].id, q)
       /\ \A k \in DOMAIN tokens, q \in (1..N) \ (1..n) :
            ranks'[<<tokens[k].ordinal, q>>] = ranks[<<tokens[k].ordinal, q>>]
       /\ DOMAIN ranks' = DOMAIN ranks
  BY <1>7, RanksRefreshed
<1>18. ASSUME NEW j \in DOMAIN rest, NEW q \in 1..N
       PROVE  LET x == <<rest[j].ordinal, q>>
              IN x \in DOMAIN ranks' /\ ranks'[x].version \in Nat /\ ranks'[x].version <= changes[q]
  <2>1. PICK k \in DOMAIN tokens : rest[j] = tokens[k]
    BY <1>6
  <2>2. versions[q] \in Nat /\ versions[q] <= changes[q]
    <3>1. versions[q] \in Nat
      BY <1>1, <1>7
    <3>2. CASE q = r
      BY <1>15, <3>1, <3>2
    <3>3. CASE q # r
      BY <1>15, <3>1, <3>3
    <3> QED BY <3>2, <3>3
  <2>5. <<tokens[k].ordinal, q>> \in DOMAIN ranks'
    BY <1>1, <1>7, <1>17
  <2>3. CASE q \in 1..n
    <3>1. ranks'[<<tokens[k].ordinal, q>>].version = versions[q]
      BY <1>17, <2>3
    <3> QED BY <2>1, <2>2, <2>5, <3>1
  <2>4. CASE q \notin 1..n
    <3>1. ranks'[<<tokens[k].ordinal, q>>] = ranks[<<tokens[k].ordinal, q>>]
      BY <1>17, <2>4
    <3>2. /\ ranks[<<tokens[k].ordinal, q>>].version \in Nat
          /\ ranks[<<tokens[k].ordinal, q>>].version <= versions[q]
      BY <1>1, <1>7
    <3>3. PICK v \in Nat : v = ranks[<<tokens[k].ordinal, q>>].version /\ v <= versions[q]
      BY <3>2
    <3>4. changes[q] \in Nat
      BY <1>15
    <3>5. v <= changes[q]
      BY <2>2, <3>3, <3>4
    <3>6. ranks'[<<rest[j].ordinal, q>>].version = v
      BY <2>1, <3>1, <3>3
    <3> QED BY <2>1, <2>5, <3>5, <3>6
  <2> QED BY <2>3, <2>4
<1>19. ASSUME NEW j \in DOMAIN rest, NEW q \in DOMAIN built,
              ranks'[<<rest[j].ordinal, q>>].version = changes[q]
       PROVE  ranks'[<<rest[j].ordinal, q>>].best = BestOn(built[q], rest[j].id, q)
  <2>1. PICK k \in DOMAIN tokens : rest[j] = tokens[k]
    BY <1>6
  <2>2. CASE q = r
    <3>1. CASE r \in 1..n
      <4>1. ranks'[<<rest[j].ordinal, q>>].version = versions[q]
        BY <1>17, <2>1, <2>2, <3>1
      <4> QED BY <1>15, <1>19, <2>2, <4>1
    <3>2. CASE r \notin 1..n
      <4>1. ranks'[<<rest[j].ordinal, q>>] = ranks[<<tokens[k].ordinal, q>>]
        BY <1>7, <1>17, <2>1, <2>2, <3>2
      <4>2. ranks[<<tokens[k].ordinal, q>>].version <= versions[q] /\ ranks[<<tokens[k].ordinal, q>>].version \in Nat
        BY <1>1, <1>7, <2>2
      <4> QED BY <1>15, <1>19, <2>2, <4>1, <4>2
    <3> QED BY <3>1, <3>2
  <2>3. CASE q # r
    <3>1. q \in 1..n
      BY <1>7, <1>16, <2>3
    <3>2. built[q] = routes[q]
      BY <1>16, <2>3, <3>1
    <3> QED BY <1>17, <2>1, <3>1, <3>2
  <2> QED BY <2>2, <2>3
<1>20. Len(built) + Waiting(rest) <= Len(changes)
  <2>1. n + Waiting(tokens) <= N
    BY <1>1, <1>2, <1>3
  <2>2. CASE r \in 1..n
    BY <1>6, <1>15, <1>16, <2>1, <2>2
  <2>3. CASE r \notin 1..n
    <3>1. id \in Customers
      BY <1>5, <1>7, <2>3
    <3> QED BY <1>6, <1>15, <1>16, <2>1, <2>3, <3>1
  <2> QED BY <2>2, <2>3
<1>21. \A q \in DOMAIN changes : q > Len(built) => changes[q] = 0
  <2> SUFFICES ASSUME NEW q \in 1..N, q > Len(built)
               PROVE  changes[q] = 0
    BY <1>15
  <2>1. q # r /\ q > n
    BY <1>7, <1>16
  <2>2. versions[q] = 0
    BY <1>1, <1>2, <1>7, <2>1
  <2> QED BY <1>15, <2>1, <2>2
<1>22. \A i \in Ids :
         Occurrences(VisitsOf(original), i) = Occurrences(built, i) + Times(IdsOf(rest), i)
  <2> SUFFICES ASSUME NEW i \in Ids
               PROVE  Occurrences(VisitsOf(original), i) = Occurrences(built, i) + Times(IdsOf(rest), i)
    OBVIOUS
  <2>1. Occurrences(VisitsOf(original), i) = Occurrences(routes, i) + Times(IdsOf(tokens), i)
    BY <1>1
  <2>2. Times(IdsOf(rest), i) \in Nat /\ Times(IdsOf(tokens), i) = Times(IdsOf(rest), i) + (IF id = i THEN 1 ELSE 0)
    BY <1>6
  <2>3. Occurrences(routes, i) \in Int /\ Occurrences(built, i) = Occurrences(routes, i) + (IF id = i THEN 1 ELSE 0)
    BY <1>16
  <2> QED BY <2>1, <2>2, <2>3
<1>23. Sound(original, built, rest, changes, ranks')
  BY <1>6, <1>15, <1>16, <1>18, <1>19, <1>20, <1>21, <1>22 DEF Sound
<1> QED BY <1>14, <1>23 DEF Sound


\* The solution given back has every visit it had.
LEMMA GivingBackKeeps ==
  ASSUME JointInvariant, NEW why, GiveBack(why), original' = original, kappa' = kappa
  PROVE  JointInvariant'
<1>1. original \in Originals /\ kappa \in Kappas
  BY DEF JointInvariant
<1>2. phase' = "done" /\ routes' = VisitsOf(original)
  BY DEF GiveBack
<1>3. (\A id \in Ids : Occurrences(VisitsOf(original), id) = Occurrences(routes, id))'
  <2>1. \A id \in Ids : Occurrences(VisitsOf(original'), id) = Occurrences(routes', id)
    BY <1>2
  <2> QED BY <2>1
<1> QED BY <1>1, <1>2, <1>3 DEF JointInvariant

\* One token is put back, or the original is.
LEMMA InsertKeeps ==
  ASSUME JointInvariant, Insert
  PROVE  JointInvariant'
<1>1. /\ original \in Originals /\ kappa \in Kappas /\ phase = "repair"
      /\ Sound(original, routes, tokens, versions, ranks)
  BY DEF JointInvariant, Insert
<1>2. original' = original /\ kappa' = kappa /\ Refresh
  BY DEF Insert
<1>3. \/ GiveBack("blocked")
      \/ \E x \in Chosen(Rankings) : PutBack(x)
  BY Zenon DEF Insert
<1>4. CASE GiveBack("blocked")
  BY <1>2, <1>4, GivingBackKeeps
<1>5. CASE \E x \in Chosen(Rankings) : PutBack(x)
  <2>1. PICK x \in Chosen(Rankings) : PutBack(x)
    BY <1>5
  <2>2. PICK at : at = x.at
    OBVIOUS
  <2>3. PICK p : p = x.place
    OBVIOUS
  <2>4. PICK r : r = p[3]
    OBVIOUS
  <2>5. PICK slot : slot = p[4]
    OBVIOUS
  <2>6. at \in DOMAIN tokens /\ p \in Places(tokens[at])
    BY <2>2, <2>3, ChosenIsAPlace
  <2>7. \/ r \in DOMAIN routes /\ slot \in 0..Len(routes[r])
        \/ tokens[at].id \in Customers /\ r = Len(routes) + 1 /\ slot = 0
    BY <1>1, <1>2, <2>4, <2>5, <2>6, PlacesAreReal
  <2>8. \/ GiveBack("adjacent")
        \/ Enters(at, r, slot) /\ UNCHANGED <<phase, reason>>
    BY Zenon, <2>1, <2>2, <2>3, <2>4, <2>5 DEF PutBack, Enters
  <2>9. CASE GiveBack("adjacent")
    BY <1>2, <2>9, GivingBackKeeps
  <2>10. CASE Enters(at, r, slot) /\ UNCHANGED <<phase, reason>>
    <3>1. Sound(original, routes, tokens, versions, ranks)'
      BY <1>1, <1>2, <2>6, <2>7, <2>10, EnteringKeeps
    <3>2. phase' = "repair"
      BY <1>1, <2>10
    <3> QED BY <1>1, <1>2, <3>1, <3>2 DEF JointInvariant
  <2> QED BY <2>8, <2>9, <2>10
<1> QED BY <1>3, <1>4, <1>5

\* When no token is left the routes have every visit.
LEMMA SettleKeeps ==
  ASSUME JointInvariant, Settle
  PROVE  JointInvariant'
<1>1. /\ original \in Originals /\ kappa \in Kappas /\ phase = "repair" /\ tokens = << >>
      /\ Sound(original, routes, tokens, versions, ranks)
  BY DEF JointInvariant, Settle
<1>2. original' = original /\ kappa' = kappa
  BY DEF Settle
<1>3. \/ phase' = "done" /\ routes' = routes
      \/ GiveBack(Verdict)
  BY Zenon DEF Settle
<1>4. CASE phase' = "done" /\ routes' = routes
  <2>1. PICK list : list = IdsOf(tokens)
    OBVIOUS
  <2>2. list = << >>
    BY <1>1, <2>1 DEF IdsOf
  <2>3. \A id : Times(list, id) = 0
    BY <2>2, TimesOfOne
  <2>4. /\ routes \in Seq(Seq(Ids))
        /\ \A id \in Ids : Occurrences(VisitsOf(original), id) = Occurrences(routes, id) + Times(list, id)
    BY <1>1, <2>1 DEF Sound
  <2>5. \A id : Occurrences(routes, id) \in Int
    BY <2>4, OccurrencesTotal
  <2>6. \A id \in Ids : Occurrences(VisitsOf(original), id) = Occurrences(routes, id)
    BY <2>3, <2>4, <2>5
  <2>7. (\A id \in Ids : Occurrences(VisitsOf(original), id) = Occurrences(routes, id))'
    <3>1. \A id \in Ids : Occurrences(VisitsOf(original'), id) = Occurrences(routes', id)
      BY <1>2, <1>4, <2>6
    <3> QED BY <3>1
  <2> QED BY <1>1, <1>2, <1>4, <2>7 DEF JointInvariant
<1>5. CASE GiveBack(Verdict)
  BY <1>2, <1>5, GivingBackKeeps
<1> QED BY <1>3, <1>4, <1>5

\* A step that changes nothing keeps everything in order.
LEMMA JointIdles ==
  ASSUME JointInvariant, UNCHANGED jointVars
  PROVE  JointInvariant'
<1>1. /\ original' = original /\ kappa' = kappa /\ phase' = phase /\ routes' = routes
      /\ tokens' = tokens /\ versions' = versions /\ ranks' = ranks
  BY DEF jointVars
<1>2. /\ original \in Originals /\ kappa \in Kappas
      /\ phase \in {"destroy", "repair", "done"}
      /\ phase = "repair" => Sound(original, routes, tokens, versions, ranks)
      /\ phase = "done" => \A id \in Ids : Occurrences(VisitsOf(original), id) = Occurrences(routes, id)
  BY DEF JointInvariant
<1>3. phase = "repair" => Sound(original, routes, tokens, versions, ranks)'
  BY <1>1, <1>2 DEF Sound
<1>4. phase = "done" => (\A id \in Ids : Occurrences(VisitsOf(original), id) = Occurrences(routes, id))'
  <2>1. phase = "done" => \A id \in Ids : Occurrences(VisitsOf(original'), id) = Occurrences(routes', id)
    BY <1>1, <1>2
  <2> QED BY <2>1
<1> QED BY <1>1, <1>2, <1>3, <1>4 DEF JointInvariant

\* The invariant of the perturbation.
LEMMA JointHolds == JointSpec => []JointInvariant
<1>1. JointInvariant /\ [JointNext]_jointVars => JointInvariant'
  BY DestroyStarts, InsertKeeps, SettleKeeps, JointIdles DEF JointNext
<1> QED BY JointStarts, <1>1, PTL DEF JointSpec

\* A remembered rank is used for a route only while the route is what it was
\* when the rank was made: versions tell every change, ordinals tell tokens apart.
THEOREM RanksStayFresh == JointSpec => []RanksAreFresh
<1>1. JointInvariant => RanksAreFresh
  <2> SUFFICES ASSUME Sound(original, routes, tokens, versions, ranks),
                      NEW k \in DOMAIN tokens, NEW r \in DOMAIN routes,
                      ranks[<<tokens[k].ordinal, r>>].version = versions[r]
               PROVE  ranks[<<tokens[k].ordinal, r>>].best = FreshBest(tokens[k].id, r)
    BY DEF JointInvariant, RanksAreFresh
  <2>1. ranks[<<tokens[k].ordinal, r>>].best = BestOn(routes[r], tokens[k].id, r)
    BY DEF Sound
  <2> QED BY <2>1, BestHere
<1> QED BY <1>1, JointHolds, PTL

\* Visits taken out are put back, each as often as it was there; a perturbation
\* that cannot do so gives the original back.
THEOREM VisitsAreConserved == JointSpec => []VisitsConserved
<1>1. JointInvariant => VisitsConserved
  <2> SUFFICES ASSUME JointInvariant, phase \in {"repair", "done"}, NEW id \in Ids
               PROVE  Occurrences(VisitsOf(original), id)
                        = Occurrences(routes, id)
                            + (IF phase = "repair" THEN Cardinality({k \in DOMAIN tokens : tokens[k].id = id}) ELSE 0)
    BY DEF VisitsConserved, Ids
  <2>1. CASE phase = "repair"
    <3>1. Occurrences(VisitsOf(original), id) = Occurrences(routes, id) + Times(IdsOf(tokens), id)
      BY <2>1 DEF JointInvariant, Sound
    <3>2. {k \in DOMAIN IdsOf(tokens) : IdsOf(tokens)[k] = id} = {k \in DOMAIN tokens : tokens[k].id = id}
      BY DEF IdsOf
    <3>3. Times(IdsOf(tokens), id) = Cardinality({k \in DOMAIN tokens : tokens[k].id = id})
      BY Zenon, <3>2 DEF Times
    <3> QED BY <2>1, <3>1, <3>3
  <2>2. CASE phase = "done"
    <3>1. Occurrences(VisitsOf(original), id) = Occurrences(routes, id) /\ original \in Originals
      BY <2>2 DEF JointInvariant
    <3>2. Occurrences(VisitsOf(original), id) \in Int
      <4>1. VisitsOf(original) \in Seq(Seq(Ids))
        BY <3>1, OriginalsAreSolutions DEF Ids
      <4> QED BY <4>1, OccurrencesTotal
    <3> QED BY <2>2, <3>1, <3>2
  <2> QED BY <2>1, <2>2
<1> QED BY <1>1, JointHolds, PTL

\* The versions are made for every route there will be: those that are left and
\* one for each removed customer (route_versions.at(route) is never out of range).
THEOREM VersionsSuffice ==
  JointSpec => [](phase = "repair" => DOMAIN routes \subseteq DOMAIN versions)
<1>1. ASSUME JointInvariant, phase = "repair"
      PROVE  DOMAIN routes \subseteq DOMAIN versions
  <2>1. Sound(original, routes, tokens, versions, ranks)
    BY <1>1 DEF JointInvariant
  <2> QED BY <2>1, SoundRoutes
<1>2. JointInvariant => (phase = "repair" => DOMAIN routes \subseteq DOMAIN versions)
  BY <1>1
<1> QED BY <1>2, JointHolds, PTL
=============================================================================
