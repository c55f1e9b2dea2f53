----------------------------- MODULE PathRepair ------------------------------
(***************************************************************************)
(* How station paths of routes are replaced (PathSampler in search.cpp):   *)
(* the best replacement in some gaps, found by a scan of sorted catalogues *)
(* with lower bounds; its repetition until nothing improves; the random    *)
(* and the final path stages of the adaptive descent; remembered hints.    *)
(*                                                                         *)
(* A plan is the option chosen in every gap.  It has a cost as the labels  *)
(* of the evaluator add up (fast) and as the physical evaluator computes   *)
(* it (full); the two agree up to rounding.  Lower is the bound by length. *)
(***************************************************************************)
EXTENDS Integers, Sequences, FiniteSets, FiniteSetsExt, SequencesExt, LexOrder

CONSTANTS
  Cases,      \* [options, eligible, hints, lower, fast, full]
  Tasks,      \* of "subset", "single", "virtual", "random", "final", "hints"
  Tolerance,  \* kCostTolerance
  Infinity

\* The plans of a case, and their physical visits; gap g ends in customer g.
PlansOf(k) ==
  {c \in [DOMAIN k.options -> 1 .. 9] : \A g \in DOMAIN k.options : c[g] \in DOMAIN k.options[g]}

VisitsOf(k, c) ==
  FlattenSeq([g \in DOMAIN k.options |-> Append(k.options[g][c[g]], g)])

ASSUME RepairAssumption == Tolerance \in Nat /\ Infinity \in Nat

ASSUME CaseAssumption ==
  \A k \in Cases :
    /\ k.eligible \subseteq DOMAIN k.options /\ DOMAIN k.options \subseteq Nat
    /\ \A g \in DOMAIN k.options : \E n \in 1 .. 9 : DOMAIN k.options[g] = 1 .. n
    /\ 1 \in DOMAIN k.full
    /\ \A r \in DOMAIN k.full :
         /\ DOMAIN k.full[r] = PlansOf(k)
         /\ \A c \in PlansOf(k) : {k.full[r][c], k.fast[r][c], k.lower[r][c]} \subseteq Int
    /\ DOMAIN k.hints \subseteq Nat
    /\ \A h \in DOMAIN k.hints :
         /\ k.hints[h][1] \in DOMAIN k.full /\ k.hints[h][2] \in DOMAIN k.options
         /\ k.hints[h][3] \in DOMAIN k.options[k.hints[h][2]]

\* The visits of a route tell which options it is made of.
ASSUME VisitsTellPlansApart ==
  \A k \in Cases : \A c, d \in PlansOf(k) :
    /\ VisitsOf(k, c) \in Seq(Int)
    /\ VisitsOf(k, c) = VisitsOf(k, d) => c = d

\* Bounds stay below the labels and grow along a catalogue; the labels are
\* rounded plans.
ASSUME BoundsAndRounding ==
  \A k \in Cases : \A r \in DOMAIN k.full : \A c \in DOMAIN k.full[r] :
    /\ k.lower[r][c] <= k.fast[r][c] /\ k.fast[r][c] < Infinity
    /\ k.fast[r][c] - k.full[r][c] \in -Tolerance .. Tolerance
    /\ \A g \in k.eligible : c[g] + 1 \in DOMAIN k.options[g] =>
         k.lower[r][c] <= k.lower[r][[c EXCEPT ![g] = @ + 1]]

VARIABLES
  case, task,
  pc, plans,       \* the option chosen in every gap of every route
  todo,            \* gaps or hints the stage has still to visit
  work,            \* the moves the scan has still to visit
  minimum, band,   \* the scan: the least cost so far and the moves near it
  refused,         \* moves that failed on the present plans
  failures,        \* consecutive failures of the random stage
  late

vars == <<case, task, pc, plans, todo, work, minimum, band, refused, failures, late>>
question == <<case, task>>
scan == <<work, minimum, band>>
-----------------------------------------------------------------------------
(* A move is <<route, gap, option>>.                                       *)

Full(r, c) == case.full[r][c]
Fast(r, c) == case.fast[r][c]
After(m) == [plans[m[1]] EXCEPT ![m[2]] = m[3]]

\* The other options of the eligible gaps.
Alternatives ==
  {m \in (DOMAIN plans) \X case.eligible \X (1 .. 9) :
     m[3] \in DOMAIN case.options[m[2]] /\ m[3] # plans[m[1]][m[2]]}

Better(cost, than) == cost < than - Tolerance

Improves(m) == Better(Full(m[1], After(m)), Full(m[1], plans[m[1]]))

\* improving_atomic_replacement: by the labels first, then by the plan.
Atomic(m) == Better(Fast(m[1], After(m)), Fast(m[1], plans[m[1]])) /\ Improves(m)

\* Ties are broken by the physical visits.
Visits(m) == VisitsOf(case, After(m))

FirstByVisits(S) == Least(S, Visits)

\* A scan goes gap by gap, in the order of the catalogue.
Before(m, n) == m[2] < n[2] \/ (m[2] = n[2] /\ m[3] < n[3])

NextMove == CHOOSE m \in work : \A n \in work \ {m} : Before(m, n)

StartScan(moves) ==
  /\ pc' = "scan"
  /\ work' = moves
  /\ minimum' = Infinity /\ band' = {}
-----------------------------------------------------------------------------
Scans == {"subset", "single", "virtual"}

\* The gaps of the random stage and of the final one; no gap of one option.
StageGaps == {<<m[1], m[2]>> : m \in Alternatives}

Init ==
  /\ case \in Cases /\ task \in Tasks
  /\ pc = "start"
  /\ plans = [r \in DOMAIN case.full |-> [g \in DOMAIN case.options |-> 1]]
  /\ todo = {} /\ work = {} /\ minimum = Infinity /\ band = {}
  /\ refused = {} /\ failures = 0 /\ late = FALSE

Start ==
  /\ pc = "start"
  /\ IF task \in Scans
       THEN StartScan({m \in Alternatives : m[1] = 1}) /\ UNCHANGED todo
       ELSE /\ pc' = "stage"
            /\ todo' = IF task = "hints" THEN DOMAIN case.hints ELSE StageGaps
            /\ UNCHANGED scan
  /\ UNCHANGED <<question, plans, refused, failures, late>>

End == pc' = "done" /\ UNCHANGED <<todo, scan>>
-----------------------------------------------------------------------------
(* best_replacement_in_gaps.                                               *)

\* Mutant: a bound near the least cost so far is enough.
HopelessNear(m) ==
  \/ ~Better(case.lower[m[1]][After(m)], Full(m[1], plans[m[1]]))
  \/ case.lower[m[1]][After(m)] >= minimum

\* The bound says that m neither improves nor comes near the least cost.
Hopeless(m) ==
  \/ ~Better(case.lower[m[1]][After(m)], Full(m[1], plans[m[1]]))
  \/ case.lower[m[1]][After(m)] > minimum + Tolerance

Scanning == pc = "scan" /\ ~late /\ work # {}

\* Bounds may be switched off; a bound of the length also ends the gap.
PruneOne ==
  /\ Scanning /\ Hopeless(NextMove)
  /\ work' = work \ {NextMove}
  /\ UNCHANGED <<question, pc, plans, todo, minimum, band, refused, failures, late>>

PruneTail ==
  /\ Scanning /\ Hopeless(NextMove)
  /\ work' = {m \in work : m[2] # NextMove[2]}
  /\ UNCHANGED <<question, pc, plans, todo, minimum, band, refused, failures, late>>

Score ==
  /\ Scanning
  /\ LET m == NextMove
         cost(n) == Fast(n[1], After(n))
         least == Min({minimum, cost(m)})
     IN IF ~Better(cost(m), Full(m[1], plans[m[1]])) \/ cost(m) > minimum + Tolerance
        THEN UNCHANGED <<minimum, band>>
        ELSE /\ minimum' = least
             /\ band' = {n \in band \cup {m} : cost(n) <= least + Tolerance}
  /\ work' = work \ {NextMove}
  /\ UNCHANGED <<question, pc, plans, todo, refused, failures, late>>

\* Mutant: what was refused before stays refused for the next plan.
ForgottenNever(r) == refused

\* A new plan of route r gives its refused moves another chance.
Forgotten(r) == {m \in refused : m[1] # r}

Take(m) ==
  /\ plans' = [plans EXCEPT ![m[1]] = After(m)]
  /\ refused' = Forgotten(m[1])

Scanned == pc = "scan" /\ ~late /\ work = {}

\* improve_path_subset ends, or a scan of a single step or of a stage does.
FoundNothing ==
  /\ Scanned /\ band = {}
  /\ IF task = "final" THEN pc' = "stage" /\ UNCHANGED <<todo, scan>> ELSE End
  /\ UNCHANGED <<question, plans, refused, failures, late>>

\* virtual_complete_insertion takes what the labels prefer.
Accepts(m) == task = "virtual" \/ Improves(m)

FoundBetter ==
  /\ Scanned /\ band # {}
  /\ LET m == FirstByVisits(band)
     IN /\ Accepts(m)
        /\ Take(m)
        /\ pc' = IF task \in {"subset", "virtual"} THEN "again"
                 ELSE IF task = "final" THEN "stage" ELSE "done"
  /\ UNCHANGED <<question, todo, scan, failures, late>>

\* The excluded descriptors of a repair; a stage has none.
Excluded(m) == IF task = "subset" THEN refused \cup {m} ELSE refused

\* The full cost disagrees at the tolerance: scan again without this move.
FoundRefused ==
  /\ Scanned /\ band # {}
  /\ LET m == FirstByVisits(band)
     IN /\ ~Accepts(m)
        /\ refused' = Excluded(m)
        /\ pc' = IF task = "subset" THEN "again"
                 ELSE IF task = "final" THEN "stage" ELSE "done"
  /\ UNCHANGED <<question, plans, todo, scan, failures, late>>

Rescan ==
  /\ pc = "again" /\ ~late
  /\ StartScan({m \in Alternatives : m[1] = 1} \ refused)
  /\ UNCHANGED <<question, plans, todo, refused, failures, late>>
-----------------------------------------------------------------------------
(* The stages.                                                             *)

AtStage(name) == pc = "stage" /\ task = name /\ ~late

\* quasi_exhaustive_replacement: every gap once, in random order.
ScanGap ==
  /\ AtStage("final")
  /\ \E place \in todo :
       /\ todo' = todo \ {place}
       /\ StartScan({m \in Alternatives : <<m[1], m[2]>> = place})
  /\ UNCHANGED <<question, plans, refused, failures, late>>

CeilSqrt(n) == Min({k \in 0 .. n : k * k >= n})

FailureLimit == LET n == Cardinality(todo)
                IN Min({n, Max({4, Min({16, CeilSqrt(n)})})})

\* limited_random_replacement
TryRandom ==
  /\ AtStage("random")
  /\ failures < FailureLimit
  /\ \E m \in Alternatives \ refused :
       IF Atomic(m)
       THEN Take(m) /\ failures' = 0
       ELSE refused' = refused \cup {m} /\ failures' = failures + 1 /\ UNCHANGED plans
  /\ UNCHANGED <<question, pc, todo, scan, late>>

\* apply_insertion_hints, in the order of the hints.
TryHint ==
  /\ AtStage("hints") /\ todo # {}
  /\ LET m == case.hints[Min(todo)]
     IN IF plans[m[1]][m[2]] # m[3] /\ Atomic(m)
        THEN Take(m) ELSE UNCHANGED <<plans, refused>>
  /\ todo' = todo \ {Min(todo)}
  /\ UNCHANGED <<question, pc, scan, failures, late>>

StageOver ==
  /\ pc = "stage"
  /\ \/ late
     \/ task # "random" /\ todo = {}
     \/ task = "random" /\ (failures >= FailureLimit \/ Alternatives \subseteq refused)
  /\ End
  /\ UNCHANGED <<question, plans, refused, failures, late>>

\* A scan cut off by the deadline proposes nothing.
Abandon ==
  /\ pc \in {"scan", "again"} /\ late
  /\ End
  /\ UNCHANGED <<question, plans, refused, failures, late>>

Expire ==
  /\ pc # "done" /\ ~late
  /\ late' = TRUE
  /\ UNCHANGED <<question, pc, plans, todo, scan, refused, failures>>

Advance ==
  \/ Start \/ PruneOne \/ PruneTail \/ Score
  \/ FoundNothing \/ FoundBetter \/ FoundRefused \/ Rescan
  \/ ScanGap \/ TryRandom \/ TryHint \/ StageOver \/ Abandon

Next == Advance \/ Expire

\* Calls without a deadline never expire.
Spec == Init /\ [][Next]_vars
-----------------------------------------------------------------------------
\* The moves of the running scan, whether visited or not.
Candidates ==
  {m \in Alternatives : m[1] = 1} \ refused

(* Bounds and cut tails change nothing: the scan ends with the moves that  *)
(* improve by the labels and come within the tolerance of the least of     *)
(* them (best_replacement_in_gaps, virtual_complete_insertion).            *)
ScanExhaustive ==
  Scanned /\ task \in Scans =>
    LET cost(m) == Fast(m[1], After(m))
        good == {m \in Candidates : Better(cost(m), Full(1, plans[1]))}
    IN band = {m \in good : \A n \in good : cost(m) <= cost(n) + Tolerance}

(* A repair that was not cut off ends in a plan no option of its gaps      *)
(* improves by both costs, although moves were excluded on the way         *)
(* (improve_path_subset); an insertion's completion in one no option       *)
(* improves by the labels (virtual_complete_insertion).                    *)
EndsRepaired ==
  pc = "done" /\ ~late /\ task \in {"subset", "virtual"} =>
    ~\E m \in Alternatives :
       /\ m[1] = 1
       /\ Better(Fast(1, After(m)), Full(1, plans[1]))
       /\ task = "subset" => Improves(m)

=============================================================================
