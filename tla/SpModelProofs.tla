--------------------------- MODULE SpModelProofs ---------------------------
(***************************************************************************)
(* Proofs about one call of the set-partitioning model for every set of    *)
(* partitions, every option and every tolerance: the answer is sound and   *)
(* the search keeps within the deadline.                                   *)
(***************************************************************************)
EXTENDS SpModel, TLAPS

Typed ==
  /\ options \in Options
  /\ costs \subseteq Nat /\ open \subseteq costs
  /\ start \in costs \cup {None}
  /\ incumbent \in open \cup {None}
  /\ now \in Nat
  /\ stage \in {"prepass", "build", "load", "solve", "search", "done", "error"}

\* What was fixed at zero is dearer than the start; COPT never answers with
\* more than the start it was given.
CostInv ==
  /\ \A c \in costs \ open : start # None /\ c > start + Tol
  /\ start # None => start \in open
  /\ stage \notin {"search", "done", "error"} => incumbent = None
  /\ start # None /\ incumbent # None => incumbent <= start

\* The budget of a search ends at the deadline, and the search within it.
TimeInv ==
  stage = "search" /\ options.deadline # None =>
    /\ budget \in Nat /\ budget # None /\ began \in Nat
    /\ began + budget + Guard <= options.deadline
    /\ now <= began + budget

IInv == Typed /\ CostInv /\ TimeInv /\ AnswerSound
-----------------------------------------------------------------------------
\* The smaller of two numbers is below both.
LEMMA MinPair ==
  ASSUME NEW a \in Nat, NEW b \in Nat
  PROVE  Min({a, b}) \in Nat /\ Min({a, b}) <= a /\ Min({a, b}) <= b
<1>1. \E x \in {a, b} : \A y \in {a, b} : x <= y
  OBVIOUS
<1>2. Min({a, b}) \in {a, b} /\ \A y \in {a, b} : Min({a, b}) <= y
  BY <1>1 DEF Min
<1>3. QED
  BY <1>2

\* The greater of two numbers is above both.
LEMMA MaxPair ==
  ASSUME NEW a \in Nat, NEW b \in Nat
  PROVE  Max({a, b}) \in Nat /\ a <= Max({a, b}) /\ b <= Max({a, b})
<1>1. \E x \in {a, b} : \A y \in {a, b} : x >= y
  OBVIOUS
<1>2. Max({a, b}) \in {a, b} /\ \A y \in {a, b} : Max({a, b}) >= y
  BY <1>1 DEF Max
<1>3. QED
  BY <1>2

\* The types of the constants of a call.
LEMMA Constants ==
  /\ Tol \in Nat /\ Gap \in Nat /\ Guard \in Nat /\ None \notin Nat /\ Objective \subseteq Nat
  /\ \A o \in Options : {o.deadline, o.limit} \subseteq Nat \cup {None}
BY SpModelAssumption

(* A call with a deadline that is not exhausted gets a budget within it.   *)
LEMMA BudgetEndsInTime ==
  ASSUME Typed, options.deadline # None, ~Exhausted
  PROVE  Budget \in Nat /\ now + Budget + Guard <= options.deadline
<1> DEFINE left == options.deadline - now - Guard
<1>1. options.deadline \in Nat /\ options.limit \in Nat \cup {None}
  BY Constants DEF Typed
<1>2. left \in Nat /\ left # None
  BY <1>1, Constants DEF Typed, Exhausted
<1>3. CASE options.limit = None
  <2>1. {options.limit, left} \ {None} = {left, left}
    BY <1>2, <1>3
  <2>2. Budget = Min({left, left})
    BY <1>2, <2>1 DEF Budget, AtMost, Smallest
  <2>3. Budget \in Nat /\ Budget <= left
    BY <1>2, <2>2, MinPair
  <2>4. QED
    BY <1>1, <2>3, Constants DEF Typed
<1>4. CASE options.limit # None
  <2>1. {options.limit, left} \ {None} = {options.limit, left}
    BY <1>2, <1>4
  <2>2. Budget = Min({options.limit, left})
    BY <1>2, <2>1 DEF Budget, AtMost, Smallest
  <2>3. Budget \in Nat /\ Budget <= left
    BY <1>1, <1>2, <1>4, <2>2, MinPair
  <2>4. QED
    BY <1>1, <2>3, Constants DEF Typed
<1>5. QED
  BY <1>3, <1>4
-----------------------------------------------------------------------------
\* A call starts in the invariant.
LEMMA InitIsInv == Init => IInv
BY Constants DEF Init, IInv, Typed, CostInv, TimeInv, AnswerSound

(* Retaining the start is always a sound answer.                           *)
LEMMA RetainedIsSound ==
  ASSUME Typed, NEW status, Retain(status), UNCHANGED call,
         status = "OPTIMAL" => start # None /\ Certifiable
  PROVE  AnswerSound'
<1>1. /\ answer' = [status |-> status, objective |-> start]
      /\ start' = start /\ costs' = costs /\ options' = options
  BY DEF Retain, Finish, call
<1>2. start # None => start \in Nat
  BY DEF Typed
<1>3. Tol \in Nat /\ Max({Gap, Tol}) \in Nat /\ Tol <= Max({Gap, Tol})
  BY Constants, MaxPair
<1>4. start # None => start <= start
  BY <1>2
<1>5. CASE status # "OPTIMAL"
  BY <1>1, <1>4, <1>5 DEF AnswerSound
<1>6. CASE status = "OPTIMAL" /\ start # None
  <2>1. \A c \in costs : start <= c + Max({Gap, Tol})
    BY <1>2, <1>3, <1>6 DEF Certifiable, Typed
  <2>2. QED
    BY <1>1, <1>4, <2>1 DEF AnswerSound
<1>7. QED
  BY <1>5, <1>6
-----------------------------------------------------------------------------
\* Every step keeps the types.
LEMMA TypedKept == IInv /\ [Next]_vars => Typed'
<1> SUFFICES ASSUME IInv, [Next]_vars PROVE Typed'
  OBVIOUS
<1> USE DEF IInv, Typed, call
<1>1. CASE Tick
  BY <1>1 DEF Tick
<1>2. CASE SkipPrepass \/ Certify \/ Expire \/ Build \/ Rethrow \/ UNCHANGED vars
  BY <1>2 DEF SkipPrepass, Certify, Retain, Finish, Expire, Build, Rethrow, vars
<1>3. CASE FixColumns
  BY <1>3 DEF FixColumns, CostInv
<1>4. CASE Load \/ Solve
  BY <1>4 DEF Load, Solve
<1>5. CASE Improve
  BY <1>5 DEF Improve
<1>6. CASE Callback \/ CallbackThrows
  BY <1>6 DEF Callback, CallbackThrows
<1>7. CASE Stop
  BY <1>7 DEF Stop, Decode, Retain, Finish
<1>8. QED
  BY <1>1, <1>2, <1>3, <1>4, <1>5, <1>6, <1>7 DEF Next

\* Every step keeps the costs of start, incumbent and answer apart.
LEMMA CostKept == IInv /\ [Next]_vars => CostInv'
<1> SUFFICES ASSUME IInv, [Next]_vars PROVE CostInv'
  OBVIOUS
<1> USE DEF IInv, CostInv, call
<1>1. CASE FixColumns
  <2>1. /\ open' \subseteq costs /\ \A c \in costs \ open' : c > start + Tol
        /\ start # None /\ incumbent = None
        /\ stage' = "build" /\ UNCHANGED <<incumbent, costs, start>>
    BY <1>1 DEF FixColumns, PrepassAllowed, Fixable
  <2>2. start \in costs /\ start \in Nat
    BY <2>1 DEF Typed
  <2>3. ~(start > start + Tol)
    BY <2>2, Constants
  <2>4. QED
    BY <2>1, <2>2, <2>3
<1>2. CASE Improve
  BY <1>2 DEF Improve
<1>3. CASE Tick \/ SkipPrepass \/ Build \/ Load \/ Solve \/ Callback \/ CallbackThrows
           \/ Rethrow \/ UNCHANGED vars
  BY <1>3 DEF Tick, SkipPrepass, Build, Load, Solve, Callback, CallbackThrows, Rethrow, vars
<1>4. CASE Certify \/ Expire \/ Stop
  <2>1. stage' = "done" /\ UNCHANGED <<open, incumbent, costs, start>>
    BY <1>4 DEF Certify, Expire, Stop, Decode, Retain, Finish
  <2>2. QED
    BY <2>1
<1>5. QED
  BY <1>1, <1>2, <1>3, <1>4 DEF Next

\* Every step keeps what the clock and the budget of the search say of the deadline.
LEMMA TimeKept == IInv /\ [Next]_vars => TimeInv'
<1> SUFFICES ASSUME IInv, [Next]_vars PROVE TimeInv'
  OBVIOUS
<1>1. options' = options
  BY DEF Next, Tick, SkipPrepass, Certify, FixColumns, Expire, Build, Load, Solve, Improve,
     Callback, CallbackThrows, Stop, Rethrow, vars, call
<1>2. CASE Solve
  <2>1. now' = now /\ began' = now /\ budget' = Budget /\ ~Exhausted
    BY <1>2 DEF Solve
  <2>2. QED
    BY <1>1, <2>1, BudgetEndsInTime, Constants DEF IInv, Typed, TimeInv
<1>3. CASE Tick
  <2>1. now' = now + 1 /\ UNCHANGED <<stage, budget, began>> /\ ~OutOfTime
    BY <1>3 DEF Tick
  <2>2. QED
    BY <1>1, <2>1 DEF IInv, Typed, TimeInv, OutOfTime
<1>4. CASE Improve \/ Callback \/ CallbackThrows \/ UNCHANGED vars
  BY <1>1, <1>4 DEF Improve, Callback, CallbackThrows, vars, IInv, TimeInv
<1>5. CASE \/ SkipPrepass \/ Certify \/ FixColumns \/ Expire \/ Build \/ Load \/ Stop
           \/ Rethrow
  <2>1. stage' # "search"
    BY <1>5 DEF SkipPrepass, Certify, FixColumns, Expire, Build, Load, Stop, Decode, Retain,
       Finish, Rethrow
  <2>2. QED
    BY <2>1 DEF TimeInv
<1>6. QED
  BY <1>2, <1>3, <1>4, <1>5 DEF Next

(* An optimum among the open partitions is one among all: what was fixed   *)
(* is dearer than the start, and the incumbent is not.                     *)
LEMMA FoundIsSound ==
  ASSUME IInv, NEW status, MayStop(status), Finish(status, incumbent), UNCHANGED call,
         incumbent = None => status \notin Retained
  PROVE  AnswerSound'
<1>1. /\ answer' = [status |-> status, objective |-> incumbent]
      /\ start' = start /\ costs' = costs
  BY DEF Finish, call
<1>2. /\ incumbent = None /\ status \notin OtherStatus => open = {}
      /\ status = "OPTIMAL" =>
           incumbent # None /\ \A c \in open : incumbent <= c + Gap
  BY DEF MayStop, Retained, OtherStatus
<1>3. start # None =>
        IF incumbent = None THEN status \in OtherStatus ELSE incumbent <= start
  BY <1>2 DEF IInv, CostInv
<1>4. ASSUME status = "OPTIMAL", NEW c \in costs
      PROVE  incumbent <= c + Max({Gap, Tol})
  <2>1. /\ Max({Gap, Tol}) \in Nat /\ Gap <= Max({Gap, Tol}) /\ Tol <= Max({Gap, Tol})
        /\ Gap \in Nat /\ Tol \in Nat
    BY Constants, MaxPair
  <2>2. incumbent \in Nat /\ c \in Nat
    BY <1>2, <1>4 DEF IInv, Typed
  <2>3. CASE c \in open
    BY <1>2, <1>4, <2>1, <2>2, <2>3
  <2>4. CASE c \notin open
    <3>1. start # None /\ c > start + Tol /\ start \in Nat
      BY <1>4, <2>4 DEF IInv, CostInv, Typed
    <3>2. QED
      BY <1>2, <1>3, <1>4, <2>1, <2>2, <3>1
  <2>5. QED
    BY <2>3, <2>4
<1>5. QED
  BY <1>1, <1>3, <1>4 DEF AnswerSound

\* Every step keeps the answer of the call sound.
LEMMA AnswerKept == IInv /\ [Next]_vars => AnswerSound'
<1> SUFFICES ASSUME IInv, [Next]_vars PROVE AnswerSound'
  OBVIOUS
<1>1. CASE Certify
  BY <1>1, RetainedIsSound DEF Certify, PrepassAllowed, IInv
<1>2. CASE Expire
  BY <1>2, RetainedIsSound DEF Expire, IInv
<1>3. CASE Stop
  <2>1. UNCHANGED call
    BY <1>3 DEF Stop
  <2>2. PICK status \in Status, finite \in BOOLEAN : MayStop(status) /\ Decode(status, finite)
    BY <1>3 DEF Stop
  <2>3. CASE incumbent # None /\ ~finite
    BY <2>1, <2>2, <2>3, RetainedIsSound DEF Decode, IInv
  <2>4. CASE incumbent = None /\ status \in Retained
    BY <2>1, <2>2, <2>4, RetainedIsSound DEF Decode, IInv, Retained
  <2>5. CASE /\ ~(incumbent # None /\ ~finite)
             /\ ~(incumbent = None /\ status \in Retained)
    BY <2>1, <2>2, <2>5, FoundIsSound DEF Decode
  <2>6. QED
    BY <2>3, <2>4, <2>5
<1>4. CASE \/ Tick \/ SkipPrepass \/ FixColumns \/ Build \/ Load \/ Solve \/ Improve
           \/ Callback \/ CallbackThrows \/ Rethrow
  <2>1. stage' # "done"
    BY <1>4 DEF Tick, SkipPrepass, FixColumns, Build, Load, Solve, Improve, Callback,
       CallbackThrows, Rethrow
  <2>2. QED
    BY <2>1 DEF AnswerSound
<1>5. CASE UNCHANGED vars
  BY <1>5 DEF vars, call, IInv, AnswerSound
<1>6. QED
  BY <1>1, <1>2, <1>3, <1>4, <1>5 DEF Next
-----------------------------------------------------------------------------
\* The invariant of a call of the model holds in every behaviour.
THEOREM CallInvariant == Spec => []IInv
<1>1. IInv /\ [Next]_vars => IInv'
  BY TypedKept, CostKept, TimeKept, AnswerKept DEF IInv
<1>2. QED
  BY InitIsInv, <1>1, PTL DEF Spec

(* However a call ends, short of an exception: its answer is no dearer     *)
(* than the start, a start is left without one only for a reason outside   *)
(* Retained, and an optimum is one among all the partitions, also those    *)
(* the prepass removed (solve_integer).                                    *)
THEOREM AnswersAreSound == Spec => []AnswerSound
<1>1. IInv => AnswerSound
  BY DEF IInv
<1>2. QED
  BY <1>1, CallInvariant, PTL

(* A search keeps within the deadline of its call, whatever time building  *)
(* the model and loading the start took (solve_integer).                   *)
THEOREM SearchesKeepTime == Spec => []SearchWithinDeadline
<1>1. IInv => SearchWithinDeadline
  <2> SUFFICES ASSUME IInv, stage = "search", options.deadline # None
               PROVE  now + Guard <= options.deadline
    BY DEF SearchWithinDeadline
  <2>1. now \in Nat /\ options.deadline \in Nat
    BY Constants DEF IInv, Typed
  <2>2. QED
    BY <2>1, Constants DEF IInv, TimeInv
<1>2. QED
  BY <1>1, CallInvariant, PTL
=============================================================================
