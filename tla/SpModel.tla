------------------------------ MODULE SpModel -------------------------------
(***************************************************************************)
(* One call of the set-partitioning model, as copt_models.cpp makes it:    *)
(* CoptSetPartitioning::solve_integer and the callback it hands to COPT.   *)
(*                                                                         *)
(* A call may first solve the linear relaxation, whose certificate         *)
(* (DualCertificate) can end it or fix columns at zero; it builds the      *)
(* model, loads the start, and lets COPT search until COPT stops by itself *)
(* or the callback interrupts it, watching the clock all the way.  An exit *)
(* before the search retains the start as the answer, and so does a search *)
(* that ends without a solution for one of the reasons in Retained.        *)
(*                                                                         *)
(* The model knows a partition by its cost.  COPT is external: its         *)
(* incumbents are partitions of the model, each cheaper than the last and  *)
(* none dearer than the start it was given; it honours its time limit; it  *)
(* claims an optimum only within its gap of one.  Time is a clock that     *)
(* ticks between any two steps, MaxTime times.                             *)
(*                                                                         *)
(* A definition marked "Mutant" is a mistaken form of the one after it,    *)
(* used by nothing, to see that a property notices the mistake.            *)
(***************************************************************************)
EXTENDS Integers, FiniteSets, FiniteSetsExt

CONSTANTS
  Objective,   \* the costs of exact partitions
  Options,     \* calls: [deadline, limit, target, stall, progress, certificate]
  Tol,         \* kCostTolerance
  Gap,         \* what the solver's relative gap allows at an optimum
  Bucket,      \* rounded targets compare to a hundredth: Bucket units
  Guard,       \* kDeadlineGuardSeconds
  MaxTime,
  None

ASSUME SpModelAssumption ==
  /\ Objective \subseteq Nat
  /\ {Tol, Gap, Guard, MaxTime} \subseteq Nat /\ Bucket \in Nat \ {0}
  /\ None \notin Nat
  /\ \A o \in Options : {o.deadline, o.limit} \subseteq Nat \cup {None}

VARIABLES
  options, costs, start,  \* the call: its options, the partitions, the start
  stage, now,
  open,        \* the partitions left after columns were fixed at zero
  budget,      \* applied_time_limit_s
  began,       \* when COPT began to search
  incumbent,   \* COPT's
  best, improved, stalled,  \* the callback's best_, last_improvement_, stalled_
  interrupted, failed,      \* Interrupt() was called; error_ is set
  answer       \* status and objective of the result

call == <<options, costs, start>>
callback == <<best, improved, stalled, interrupted, failed>>
vars == <<call, stage, now, open, budget, began, incumbent, callback, answer>>

Smallest(S) == IF S = {} THEN None ELSE Min(S)

\* A duration bounded by several limits, None when there is no limit.
AtMost(limits) == Smallest(limits \ {None})
-----------------------------------------------------------------------------
(* Clock and budgets. *)

Exhausted == options.deadline # None /\ options.deadline - now <= Guard

Budget ==
  AtMost({options.limit,
          IF options.deadline = None THEN None ELSE options.deadline - now - Guard})

\* COPT honours the limit it was given.
OutOfTime == stage = "search" /\ budget # None /\ now - began >= budget

Tick ==
  /\ stage \in {"build", "load", "solve", "search"} /\ now < MaxTime
  /\ ~OutOfTime
  /\ now' = now + 1
  /\ UNCHANGED <<call, stage, open, budget, began, incumbent, callback, answer>>
-----------------------------------------------------------------------------
(* The prepass. *)

Finish(status, objective) ==
  /\ stage' = "done"
  /\ answer' = [status |-> status, objective |-> objective]

\* retained_start
Retain(status) == Finish(status, start)

\* Budgets and early stops keep the original order: no prepass.
PrepassAllowed ==
  /\ options.certificate /\ start # None
  /\ \A limit \in {"deadline", "limit", "target", "stall"} : options[limit] = None

\* What a certificate promises (DualCertificate): the start is within the
\* tolerance of every partition ...
Certifiable == \A c \in costs : start <= c + Tol

\* ... or what it removes is dearer than the start.
Fixable(kept) == \A c \in costs \ kept : c > start + Tol

SkipPrepass ==
  /\ stage = "prepass" /\ ~PrepassAllowed
  /\ stage' = "build"
  /\ UNCHANGED <<call, now, open, budget, began, incumbent, callback, answer>>

Certify ==
  /\ stage = "prepass" /\ PrepassAllowed /\ Certifiable
  /\ Retain("OPTIMAL")
  /\ UNCHANGED <<call, now, open, budget, began, incumbent, callback>>

\* Nothing is fixed when the relaxation failed, or threw, or proved nothing.
FixColumns ==
  /\ stage = "prepass" /\ PrepassAllowed
  /\ \E kept \in SUBSET costs : Fixable(kept) /\ open' = kept
  /\ stage' = "build"
  /\ UNCHANGED <<call, now, budget, began, incumbent, callback, answer>>
-----------------------------------------------------------------------------
(* Building and starting the search. *)

Expire ==
  /\ stage \in {"build", "load", "solve"} /\ Exhausted
  /\ Retain("TIMEOUT")
  /\ UNCHANGED <<call, now, open, budget, began, incumbent, callback>>

Build ==
  /\ stage = "build" /\ ~Exhausted
  /\ stage' = "load"
  /\ UNCHANGED <<call, now, open, budget, began, incumbent, callback, answer>>

\* The callback starts from the start, known at instant zero of its clock.
Load ==
  /\ stage = "load" /\ ~Exhausted
  /\ budget' = Budget
  /\ best' = start
  /\ improved' = IF start = None THEN None ELSE 0
  /\ stage' = "solve"
  /\ UNCHANGED <<call, now, open, began, incumbent, stalled, interrupted, failed,
                 answer>>

\* Mutant: the budget taken before the start was loaded is still applied.
SolveOnOldBudget ==
  /\ stage = "solve" /\ ~Exhausted
  /\ began' = now
  /\ stage' = "search"
  /\ UNCHANGED <<call, now, open, budget, incumbent, callback, answer>>

\* Loading the start took time: the budget is taken again.
Solve ==
  /\ stage = "solve" /\ ~Exhausted
  /\ budget' = Budget
  /\ began' = now
  /\ stage' = "search"
  /\ UNCHANGED <<call, now, open, incumbent, callback, answer>>
-----------------------------------------------------------------------------
(* The search. *)

\* COPT finds a partition (external).
Improve ==
  /\ stage = "search"
  /\ incumbent' \in {c \in open : /\ incumbent = None \/ c < incumbent
                                  /\ start = None \/ c <= start}
  /\ UNCHANGED <<call, stage, now, open, budget, began, callback, answer>>

Rounded(objective) == (2 * objective + Bucket) \div (2 * Bucket)

TargetReached(objective) ==
  /\ objective # None /\ options.target # None
  /\ Rounded(objective) <= Rounded(options.target)

Notice ==
  IF incumbent # None /\ (best = None \/ incumbent < best - Tol)
    THEN best' = incumbent /\ improved' = now - began
    ELSE UNCHANGED <<best, improved>>

\* callback(): the whole of one call.  With neither stopping rule it reports.
Callback ==
  /\ stage = "search" /\ ~failed /\ (options.target # None \/ options.stall # None)
  /\ Notice
  /\ LET stall == /\ options.stall # None /\ improved' # None
                  /\ now - began - improved' >= options.stall
         stop == stall \/ TargetReached(incumbent)
     IN /\ stalled' = IF stop THEN stall ELSE stalled
        /\ interrupted' = (interrupted \/ stop)
  /\ UNCHANGED <<call, stage, now, open, budget, began, incumbent, failed, answer>>

\* The observer or COPT throws inside the callback.
CallbackThrows ==
  /\ stage = "search" /\ ~failed
  /\ options.progress \/ options.target # None \/ options.stall # None
  /\ failed' = TRUE /\ interrupted' = TRUE
  /\ UNCHANGED <<call, stage, now, open, budget, began, incumbent, best, improved,
                 stalled, answer>>

\* Without a solution these have the start retained ...
Retained == {"TIMEOUT", "INTERRUPTED", "NUMERICAL", "IMPRECISE"}

\* ... and these, limits the solver is not given and verdicts that no model of
\* partitions deserves, leave the call without an answer.
OtherStatus == {"UNFINISHED", "NODELIMIT", "ITERLIMIT", "MEMLIMIT", "INF_OR_UNB", "UNBOUNDED"}

Status == {"OPTIMAL", "INFEASIBLE"} \cup Retained \cup OtherStatus

\* Why COPT may stop (external).
MayStop(status) ==
  \/ status = "OPTIMAL" /\ incumbent # None /\ \A c \in open : incumbent <= c + Gap
  \/ status = "INFEASIBLE" /\ open = {}
  \/ status = "TIMEOUT" /\ OutOfTime
  \/ status = "INTERRUPTED" /\ interrupted
  \/ status \in {"NUMERICAL", "IMPRECISE"} \cup OtherStatus

\* Mutant: a solver that stopped without a solution has no answer.
DecodeBare(status, finite) ==
  IF incumbent # None /\ ~finite THEN Retain("NUMERICAL") ELSE Finish(status, incumbent)

\* The start is retained when COPT has an objective that is not a number, and
\* when it has no solution for a reason in Retained.
Decode(status, finite) ==
  IF incumbent # None /\ ~finite THEN Retain("NUMERICAL")
  ELSE IF incumbent = None /\ status \in Retained THEN Retain(status)
  ELSE Finish(status, incumbent)

Stop ==
  /\ stage = "search" /\ ~failed
  /\ \E status \in Status, finite \in BOOLEAN : MayStop(status) /\ Decode(status, finite)
  /\ UNCHANGED <<call, now, open, budget, began, incumbent, callback>>

\* rethrow_callback_error
Rethrow ==
  /\ stage = "search" /\ failed
  /\ stage' = "error"
  /\ UNCHANGED <<call, now, open, budget, began, incumbent, callback, answer>>
-----------------------------------------------------------------------------
Init ==
  /\ options \in Options
  /\ costs \in SUBSET Objective
  /\ start \in costs \cup {None}
  /\ stage = "prepass" /\ now = 0
  /\ open = costs
  /\ budget = None /\ began = None /\ incumbent = None
  /\ best = None /\ improved = None
  /\ stalled = FALSE /\ interrupted = FALSE /\ failed = FALSE
  /\ answer = [status |-> "UNSTARTED", objective |-> None]

Next ==
  \/ Tick
  \/ SkipPrepass \/ Certify \/ FixColumns
  \/ Expire \/ Build \/ Load \/ Solve
  \/ Improve \/ Callback \/ CallbackThrows \/ Stop \/ Rethrow

Spec == Init /\ [][Next]_vars
-----------------------------------------------------------------------------
(* Properties *)

(* However a call ends, short of an exception, its answer is no dearer     *)
(* than the start it was given; a start is left without an answer only for *)
(* a reason the code does not retain it for; and an answer called optimal  *)
(* is optimal among all the partitions of the pool, also when the prepass  *)
(* removed some of them before the search.                                 *)
AnswerSound ==
  stage = "done" =>
    /\ start # None =>
         IF answer.objective = None THEN answer.status \in OtherStatus
                                    ELSE answer.objective <= start
    /\ answer.status = "OPTIMAL" =>
         \A c \in costs : answer.objective <= c + Max({Gap, Tol})

(* A search never outlasts the call's deadline, whatever time was spent    *)
(* before it began.                                                        *)
SearchWithinDeadline ==
  stage = "search" /\ options.deadline # None => now + Guard <= options.deadline
=============================================================================
