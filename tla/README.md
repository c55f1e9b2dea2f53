# ILS-SP in TLA+

Specifications, model-checking configurations and proofs for ILS-SP, an iterated local search with set partitioning
for the electric vehicle routing problem with nonlinear charging. Paths are relative to the repository (`src/` here is
the repository's root, so the C++ files are under `src/src/` and `src/include/`).

The program is one thread of C++ around two optimisation models solved by COPT. What is hard in it is not concurrency
but state that many operations share over a long run, and work that is avoided because an earlier result seems to
answer for it: a route pool that must never lose its record, a loop whose anchor, penalty weight and deadline
interact, memories of moves, costs, paths and charging plans that outlive what they were computed from, bounds that
prune a search, caches over files that can fail, and a solver that calls back and stops for many reasons.

## 1. Inventory

| part | source | state it keeps | operations |
| --- | --- | --- | --- |
| route pool | `pool.cpp` | main and backup columns by key, coverage index, duals, protected keys | admit, update duals, reprice, protect a partition |
| ILS loop | `solver.cpp` 753-1310 | current, record, fallback, return anchor, lambda and its streaks, stop reason | perturb, descend, feed back, assemble, record, stop |
| schedule of the set-partitioning model | `solver.cpp` 364-412 | iteration marks, pool generation of the last call | periodic and adaptive trigger |
| route assembler | `solver.cpp` 351-751 | selection, assembled solution, previous selection | start, model, dual feedback, FRVCP per route |
| set-partitioning model | `copt_models.cpp` 674-1126 | budget, incumbent seen by the callback, stall clock, stored exception | prepass, build, load start, search, decode |
| dual certificate | `sp_dual_certificate.hpp` | none, a pure function on doubles | certify the start, fix columns |
| FRVCP model | `copt_models.cpp` 1206-1922, `frvcp_active_budget.hpp` | memo of exact routes and proofs, active wall budget | paths per gap, model, certification |
| path catalogue store | `catalog_disk_cache.inc`, `search.cpp` 1996-2063 and 2563-2583, `lru_cache.hpp` | memory cache and its bytes, manifest, files, page cache | load, store, verify, read a block, evict |
| station-path catalogue | `search.cpp` 2136-3025 | the paths of a pair of anchors | enumerate, filter, draw explicitly or implicitly |
| replacement of paths | `search.cpp` 2585-2922 and 3086-3783 | tabu and refused replacements of a stage, remembered hints | scan, stages, hints |
| bounded replenishment proxy | `bounded_rp_proxy.inc` | work counters | all-or-nothing choice |
| descent (VND) | `search.cpp` 5108-5534, `route_opening_rp_reserve.hpp` | open neighbourhoods, path proposals left, reserve | choose, probe, stagnate |
| customer neighbourhoods | `search.cpp` 5616-6951 | best moves per support, route versions, summaries of children | pass over swaps, relocations, 2-opt* |
| destruction and repair | `search.cpp` 288-1378, 4291-4741 and 5071-5106 | tokens to put back, ranks per token and route version | destroy, rank, insert, give back |
| route evaluator, scorers | `evaluator.cpp`, `core.cpp` | labels of routes, prefixes, suffixes and fragments | evaluate, bound, replay, score |
| input, output | `xml.cpp`, `main*.cpp`, `schedule_certificate.hpp` | data | validate, parse, print |

How they interact, per iteration: the loop perturbs `current`, descends to `local`, counts its feasibility towards
lambda, and hands `local` to the assembler. The assembler admits its routes to the pool; on a set-partitioning round
it reprices the backup pool, solves the model over the main columns from the best start the pool can represent, feeds
the duals of the relaxation back (which reprices again), and has FRVCP improve the selected routes one by one. What
comes back is offered as a record; a record is protected in the pool. The descent alternates customer moves, which it
scores from labels, and replacements of a gap's station path, which draw on catalogues; catalogues live in memory and
on disk. COPT calls back into `SetPartitioningCallback` while it searches. Everything reads one deadline.

Hard behaviours: the deadline can pass between any two steps; a repricing pass reads the pool it changes; the record's
columns may be replaced by others of the same key within a tolerance, repeatedly; a remembered move, rank, label or
proof may be read after a route, the penalty or the number of routes changed; comparisons within a tolerance are not
transitive; a search stops early because a bound says so; a store may fail after it was paid for, and a finished file
may decay; COPT may stop with or without a solution; calls overrun their time. `PROJECT.json` lists these hazards at
their lines. `gurobi_models.cpp` is not built.

What makes each part correct: the pool keeps one column per key, never evicts a protected one and never fails to find
an eviction; the loop never hands out an anchor of another lambda nor an answer worse than what it had; calls of the
model keep the paper's cadence; a round ends with a partition the pool can represent, and the run goes on unless its
record has more routes than the pool holds; a call of the model never answers worse than its start; certificates hold
for exact costs; the disk tier is invisible; what the evaluators and scorers say in four different ways agrees; no
memory and no bound changes which move, path or insertion is chosen; a descent ends, and ends at a local optimum
unless it was cut short.

## 2. Modules

| module | models | checked through |
| --- | --- | --- |
| `RoutePool` | the pool, one action per operation and per pass of its two loops | `RoutePoolMC`; `RoutePoolProofs` |
| `IlsLoop` | the body of the loop | `IlsLoopMC`; `IterationProofs` |
| `SpSchedule` | when the model is called | itself; `SetPartitioningProofs` |
| `RouteAssembler` | the assembler composed with the pool (`Pool == INSTANCE RoutePool`) | `RouteAssemblerMC`; `RouteAssemblerProofs` |
| `SpModel` | one call of the model with its callback | `SpModelMC`; `SpModelProofs` |
| `DualCertificate` | `certify_sp_start` on small floating-point numbers | `DualCertificateMC`; `SetPartitioningProofs` |
| `Frvcp` | the charging refinement of the rounds, its memo and its active budget | `FrvcpMC`; `SearchProofs` |
| `CatalogCache` | abstract: the memory cache a run without disk has | as a property of `CatalogStore`; `PathSamplerProofs` |
| `CatalogStore`, `LruCache` | memory, files and pages; recency as operators on sequences | `CatalogStoreMC`; `PathSamplerProofs` |
| `Charging`, `Plans` | charging of a visit sequence, labels and how they join; plans, gaps, validation | all of the following |
| `ChargingKernel` | the whole-route kernel with its bounded early exit | `EvaluationMC` |
| `PhysicalScorer`, `RouteScorer`, `LabelTree` | the two scorers of changed routes, on segment trees of labels | `EvaluationMC`; `SearchProofs` |
| `Destruction`, `JointRepair` | the destroy operators; the perturbation that preserves station visits | `RepairMC`; `IterationProofs` |
| `InsertionChoice` | the lazy choice of the next insertion | `RepairMC`; `SearchProofs` |
| `Vnd` | the control of a descent | `DescentMC`; `SearchProofs` |
| `MoveMemory` | a pass over a customer neighbourhood and what it remembers | `DescentMC` |
| `PathCatalog` | the catalogue of a pair of anchors and the samplers | `PathsMC`; `PathSamplerProofs` |
| `PathRepair` | the replacement of station paths | `PathsMC`; `PathSamplerProofs` |
| `LexOrder` | the lexicographic order that breaks ties in choices, removals and paths | the modules that use it |
| `FoldTheorems` | no code: what folds, sums and orders return, for the proofs | `tlapm` |

`EvaluationMC`, `RepairMC`, `DescentMC` and `PathsMC` hold several machines side by side of which one is at work in
each behaviour and the others stay in a fixed idle state; the machines share operators, not state. `EvaluationMC`
extends the two scorers, which share an instance of the problem, and takes the kernel as an instance with one of its
own.

Correspondence of state and actions.

* `RoutePool`. `main`, `backup`, `coverageCosts`, `protected`, `duals` are `main_`, `backup_`, `coverage_costs_`,
  `protected_sequences_`, `duals_`. `admit` is five disjoint cases by the branch it takes (`RejectDominated`,
  `ReplaceMain`, `FillMain`, `DivertToBackup`, `AdmitAndEvict`), each the whole call with its index and backup
  updates. `reprice_backup` and `protect_partition` are loops, so each is a begin, one action per pass and an end;
  `phase` and `todo` say which loop runs and what it has left. `rank` stands for the tie order of customer set and
  signature, which is a total order. `Identity` is the column identity option, `KeepEvicted` is
  `keep_evicted_in_backup`.
* `IlsLoop`. A solution is a state with a feasibility and a cost; perturbation, descent and assembly return any state
  they may. `late` is the deadline having passed; it is read exactly where the code reads the clock. Sections of the
  loop body between two clock reads are one action. Lambda is an integer that is multiplied, divided and clamped.
* `SpSchedule`. The marks `lastSp`, `lastBest`, `lastCoverage` and the pool seen through the three facts the trigger
  reads. `quietBest`, `quietCoverage` and `sinceSp` are history that the trigger does not see: they count what really
  happened, the marks are what the code remembers of it.
* `RouteAssembler`. Each step on the pool is an action of `RoutePool` conjoined with the assembler's own. The
  selection is any partition of the main columns no dearer than the start, or empty. `RecordThrows` is the exception
  `protect_partition` raises for a record that does not fit the pool: nothing catches it inside `solve`, so the stage
  `error` is final, with the record already replaced.
* `SpModel`. A partition is known by its cost. Time is a clock with `Tick` between any two steps. COPT is external:
  see section 4. `Retained` are the four statuses for which `solve_integer` retains the start when there is no
  solution; with one of `OtherStatus` the answer is then empty, also when a start was given, and `SolveModel` of the
  assembler goes on without a selection. The callback is one action because its mutex, or COPT's single thread, makes
  it so.
* `DualCertificate`. A double is an integer with three significant bits, so that nearly every sum above 8 is rounded;
  `Nearest`, `NextUp` and `NextDown` are rounding to nearest even and `nextafter`. Partitions are judged with exact
  sums.
* `Frvcp`. `StartRound`, `Refine`, `SkipRest` and `Leave` are the round of `assemble_routes` over the selected routes
  with its exits; `Refine` is one whole call: the deadline it is given, the memo, the paths enumerated per gap with
  their dominance and bounds, the model's answer, certification, what is remembered, what is charged to the budget.
  The model over the offered paths is an exact optimiser that may also run out of time or return nothing.
* `CatalogStore`. A catalogue is a key and its sizes. A store writes, in one action, a finished file and a manifest
  entry (`Publish`), or fails at any point and leaves what it had written (`Abandon`). `Damage` changes a block of a
  finished file at any time. A read verifies a page before it is cached. `Bytes` and `Block` are the sizes in memory
  and on disk.
* `Charging`, `ChargingKernel`. A label is the code's: energy needed, legs between charging opportunities, service;
  `Join` is `append`.
  `Evaluate` is `RouteEvaluator` on visits; the kernel's variables `position`, `arrival`, `departure`, `shift` are the
  locals of `evaluate_data`, with an action per branch of its loops; `EvaluateSchedule` is `evaluate_schedule`.
* `PhysicalScorer`. An action is one edit (replace, remove, insert, swap, move); `promised` is what the scorer put
  together before it, `visits` the plan made after it. `RouteScorer`. `profiles` and `overrides` are what `reset`
  keeps and rebuilds; an action is a reset to any other incumbent.
* `JointRepair`. `tokens` is `pending`, the visits to put back, one by one; `versions` and `ranks` are
  `route_versions` and the cached best two places; `Insert` is one turn of the loop with its refresh; `Settle` and
  `GiveBack` are the verdict. A version 0 stands for a route that does not exist; `Places`, `Regret` and `Ranking` are
  what `refresh` and the choice compare.
* `InsertionChoice`. `evaluated` and `completed` are the moves whose true cost was computed and whose completed plan
  is still held; `turn` is the customer being ranked; a queue of bounds is a choice by bound.
* `Vnd`. `active` is the mask of remaining neighbourhoods, `budget` and `held` the proposals of the cooperative call
  and the token kept back, `drawn` and `allowance` the probe that runs. A solution is a node of a graph that says what
  each neighbourhood offers there.
* `MoveMemory`. `memory`, `stamp`, `versions` and `tables` are the best moves, what they belong to, the route versions
  and the child summaries; `Improve`, `Pass`, `ReplacePath` and `Return` are a call of `improve` as the memories see
  it. A pass enumerates the moves in the code's order with its supports, row sharing and rejections.
* `PathCatalog`. `pass`, `ahead`, `kept`: paths come in the order of the depth-first search, are weighed against what
  is kept, sorted and weighed again. `PathRepair`. `work`, `minimum`, `band` are the scan; `todo`, `refused` and
  `failures` belong to the stage around it.

A definition whose comment starts with "Mutant" is a mistaken version of the definition after it: a plausible bug.
Nothing uses it; `PROJECT.json` says which property of which run notices it when it is put in place. The line ranges
every definition stands for are under "map".

## 3. Runs

| run | module, configuration | bounds | states | properties |
| --- | --- | --- | --- | --- |
| `pool` | `RoutePoolMC`, `RoutePoolMC.cfg` | 2 customers, capacity 2, several prices per order, tolerance 1 | 14,573 | `ProtectedStay`, `ProtectedStayCheap`, `IndexExact`, `RepriceSelectsBest`, `NothingForgotten`, `EvictsWorst` |
| `ils` | `IlsLoopMC`, `IlsLoop.cfg` | 4 states, 4 iterations, streak of 2, set-partitioning every 3rd, 3 policies | 464,960 | `AnchorSound`, `RecordCoversOffered`, `AnswerNeverWorse`, `StopReasonTrue` |
| `sp_cadence` | `SpSchedule`, `SpSchedule.cfg` | 14 iterations, period 7, stall and interval 2 | 259,280 | `CadenceKept`, `AdaptiveOnlyWhenStalled` |
| `assembler` | `RouteAssemblerMC`, `RouteAssemblerMC.cfg` | 3 customers, capacity 2, descents of 1 to 3 routes, exact variants | 141,390 | `RecordRepresentable`, `PoolSpec`, `RoundsEnd` |
| `catalog` | `CatalogStoreMC`, `CatalogStore.cfg` | 3 catalogues, two of which fit memory, two floating-point modes | 640,710 | `ReadsTrue`, `CacheSpec` |
| `certificate` | `DualCertificateMC`, `DualCertificate.cfg` | 2 customers, 4 columns, 5 costs, 4 duals | 60,000 | `CertifiedOptimal`, `FixingKeepsGoodPartitions` |
| `sp_call` | `SpModelMC`, `SpModel.cfg` | 4 costs, clock to 4, every mix of limits, every status | 1,608,447 | `AnswerSound`, `SearchWithinDeadline` |
| `evaluation` | `EvaluationMC`, `Evaluation.cfg` | all routes of at most 4 visits over 2 customers and 3 stations; edits of routes up to 7 visits and fragments over 4 customers and 2 stations | 25,769 | `KernelsAgree`, `RejectsOnlyLosers`, `ScoresKeepTheirPromise`, `FragmentsScoredTrue` |
| `repair` | `RepairMC`, `Repair.cfg` | 8 solutions of 3 customers and 2 stations, 1 to 3 removals; boards of 2 customers and 5 moves | 312,196 | `RanksAreFresh`, `VisitsConserved`, `ChoiceIsExhaustive` |
| `descent` | `DescentMC`, `Descent.cfg` | every graph over 4 solutions from 6 choices of moves and 3 of paths, 3 profiles; 4 customers, 2 calls, 3 passes | 225,667 | `ReserveBacked`, `EndsExhausted`, `MemoryNeverMisleads`, `Terminates` |
| `paths` | `PathsMC`, `Paths.cfg` | 384 nets of 3 stations, two tolerances; 2 routes with 2 gaps and 3 by 2 options | 403,804 | `ScanExhaustive`, `EndsRepaired`, `NothingLost`, `ImplicitAgrees` |
| `frvcp` | `FrvcpMC`, `Frvcp.cfg` | 3 customers, 3 stations, 2 rounds, calls that take up to 5 of a budget of 5 | 45,191 | `ExactIsTrue`, `MemoIsFinal`, `OverdrawnOnce`, `BoundsLoseNothing` |

What they show. `pool`: whatever is admitted, repriced and protected in whatever order, a protected key keeps a main
column within two tolerances of its price, the coverage index is that of the main columns, a pass promotes the best
and evicts the worst by reduced cost, and nothing dearer takes the place of what is lost. `ils`: anchor, record,
answer and stop reason stay consistent wherever the deadline falls. `sp_cadence`: adaptive calls never displace the
periodic ones and answer a real stall. `assembler`: rounds over the real pool follow the pool's specification, the
record can always be put together from its columns, and every round that starts ends, by an exception only when its
record has more routes than the pool has room for (the descent with three routes, when it is a record). `catalog`:
requests are answered and memory behaves as if there were no disk. `certificate`: what is certified or fixed in
rounded arithmetic is so in exact arithmetic. `sp_call`: an answer is no dearer than the start, a start goes without
an answer only for a status in `OtherStatus`, and the search ends before the deadline's guard. `evaluation`: the
kernel on merged labels, the evaluator on visits and the replay of its schedule agree, a bounded evaluation rejects
only losers, and both scorers promise what the plan then costs. `repair`: cached ranks equal freshly computed ones,
customers and station visits are conserved or the original is restored, and the lazy choice is the one exhaustive
evaluation makes. `descent`: the token kept back is always backed, an uninterrupted descent ends with every
neighbourhood exhausted, every descent ends, and a pass with its memories accepts what a pass without them would.
`paths`: a path that dominance discards has a kept path within the tolerance that stands for it, the two samplers
offer the same paths, a scan with its pruning finds a best replacement, and stages end repaired. `frvcp`: a route
called exact is the cheapest over the paths, a remembered proof needs no more time, the budget is overdrawn by one
call at most, and the bounds that remove paths and routes remove none that is better.

Why the bounds are enough. Capacity 2 with a protected partition of one or two columns reaches every relation of
protected, evictable and new columns, because eviction and dominance compare two columns at a time; two customers give
two orders of one set, which is all that identity distinguishes. In the assembler a third customer makes a solution
with one route more than that capacity. Prices one tolerance apart let drift show: two steps of it are possible and a
third is not. Four iterations hold a streak of two, a change of lambda, a record and an anchor return around a
set-partitioning round. Fourteen iterations are two periods, with room for an adaptive call on each side of a periodic
one. Three catalogues and a memory of two give an eviction by recency and one that evicts two. Numbers of 3 bits lose
about as much in each sum as the tolerance accepts in all, so that a missing outward step shows. Four visits hold two
charging opportunities around a customer and a run of one station; the three curves differ in their first rate, in
where they bend and in an instant segment, which is all that charging compares. Three removed customers make a token
return to a route that another token changed. Four solutions suffice for a cycle of moves, a plateau and an opened
route. Two calls with three passes let a memory survive a move elsewhere, a change of penalty, a renumbering and a new
route, and from the solution they start with every kind of move is the best one somewhere: swaps and relocations
within a route and between two, a route opened, tails exchanged. Three stations are the fewest at which dominance
within a tolerance is not transitive. Bounds that exist for the model only (`MaxCalls`, `MaxPasses`, `MaxRounds`,
`MaxTime`, `MaxVisits`, `Cuts`, `Overrun`) are constants of their modules.

`CHECK_DEADLOCK FALSE` appears where the modelled call or run ends: the loop and schedule stop, a call returns, a
certificate is computed once, an evaluation, choice, repair, descent or stage has its answer, a run with disk records
may end by an exception, the assembler when its record does not fit the pool, and the assembler and the refinement stop
when the deadline has passed between rounds. The pool never stops, and its run checks deadlock.

Findings: the runs refute none of the statements of the documentation, comments or tests that they touch. Four
observations stand beside them. A run whose record has more routes than `pool_capacity` (5,000 unless set, and only
zero is refused, `solver.cpp:281`) ends by an exception. `solve_integer` drops its start for the statuses in
`OtherStatus`, none of which a limit it sets produces. `protect_partition` erases a cheaper backup column of the key
it protects (`pool.cpp:294`), and under the record policy a set-partitioning round that is left early discards a
feasible descent (`solver.cpp:405`), which the comment there says is intended.

## 4. Assumptions

Fairness. `RouteAssembler` assumes weak fairness of `Body`, all its steps except the passing of the deadline, and
`Vnd` weak fairness of `Advance`, its steps except the deadline: the code is one thread which goes on as long as it is
not finished, and every call it makes returns. The deadline is not assumed to pass. The other modules have safety
properties only and state no fairness.

Build. The modules follow the flags of `CMakeLists.txt` lines 34-39: typed deletion entries are off, and the
reverse-empty-child, forward-only-2-opt and packed-mask variants are on. Whatever depends on a flag follows its value
there.

COPT (external). Its incumbents are partitions of the model, each cheaper than the last, and once it has one it is no
dearer than the complete start it was given; it honours the time limit; it stops after `Interrupt`, possibly with
further callbacks before; it calls a solution optimal only within its gap. It may stop with numerical trouble, or with
a status that no limit of the code explains (`OtherStatus`), at any time, with or without a usable solution. To the
assembler, FRVCP returns a feasible route over the same customers in the same order, or nothing; in `Frvcp`, COPT
returns an optimum of the model it was given, or runs out of time, or returns nothing usable, and a call may overrun
its deadline by `Overrun`.

Files. The file system may fail any write and change any finished file, but two different contents do not have the
same checksum.

Inputs. Assumptions on constants say what the callers guarantee, no more; TLC evaluates each on the instance it
checks. Columns have finite covers, and two with one tie rank have one sequence (`RoutePool`); a feasible descent hands
over a partition (`RouteAssembler`); the certificate gets finite doubles and columns whose customers are rows
(`DualCertificate`); the catalogues of a repair list different visits and bounds that grow along them (`PathRepair`);
direct distances satisfy the triangle inequality (`PathCatalog`, `Frvcp`); a solution to perturb serves every customer
once and has no empty route, as `validate_partition` guarantees (`JointRepair`); a solution the scorer of fragments is
reset to has no empty route and no customer twice, its gaps are those of its visits, and the orders it is asked about
are not empty (`RouteScorer`); the routes whose edits are scored are over the customers and stations
(`PhysicalScorer`).

Numbers. Charging, labels, moves, and the ranks by which `Destruction` and `JointRepair` remove and insert are over
integers in units in which every quotient is exact, so the tolerance within which the code ties two of them
(`search.cpp` 961-969 and 4397-4410) is plain equality there; where rounding or a tolerance is the point
(`DualCertificate`, `PathCatalog`, `PathRepair`, the pool, the choice of insertions), it is a constant of the module.
`PathRepair` takes from the evaluator that labels and plans agree within a tolerance and that lengths bound costs from
below, and `InsertionChoice` that a bound is too high by at most `Safety`: these are assumptions that TLC evaluates on
the cases it is given.

## 5. Proofs

Every theorem below holds for every value of the constants that satisfies the module's named assumptions.

| module | theorem | states |
| --- | --- | --- |
| `RoutePoolProofs` | `TypeCorrectness` | `TypeOK` |
| | `KeyUniqueness` | `OneColumnPerKey`: one column per key in both pools together |
| | `CapacityHolds` | `CapacityBound`: capacity, exceeded only while protecting |
| | `ProtectionHolds` | `ProtectedStay` |
| | `EvictionNeverFails` | `EvictionPossible`: an eviction always finds a column |
| | `ProtectedPriceBound` | `ProtectedStayCheap` |
| | `NothingIsForgotten` | `NothingForgotten` |
| | `FullForGood` | `StaysFull`: a full main pool stays full |
| | `IndexIsExact` | `IndexExact` |
| | `OnlyTheWorstLeaves` | `EvictsWorst` |
| | `RepricingSelectsTheBest` | `RepriceSelectsBest` |
| `RouteAssemblerProofs` | `AssemblerUsesPool` | `PoolSpec`: the assembler implements the pool's specification |
| | `RecordCanBeRebuilt` | `RecordRepresentable` |
| | `OnlyCapacityThrows` | `ThrowsOnlyOnCapacity`, the safety part of `RoundsEnd` |
| `SetPartitioningProofs` | `CadenceHolds`, `AdaptiveAnswersStall` | `CadenceKept`, `AdaptiveOnlyWhenStalled` |
| | `CertifiedStartsAreOptimal`, `FixingLosesNothing` | `CertifiedOptimal`, `FixingKeepsGoodPartitions`, where no sum overflows |
| `SpModelProofs` | `AnswersAreSound`, `SearchesKeepTime` | `AnswerSound`, `SearchWithinDeadline` |
| `SearchProofs` | `TokensAreBacked`, `DescentEndsExhausted` | `ReserveBacked`, `EndsExhausted` |
| | `BudgetHolds`, `MemoHolds` | `OverdrawnOnce`, `MemoIsFinal` |
| | `ChoicesAreExhaustive` | `ChoiceIsExhaustive` |
| | `JoinAssociative`, `RangeLabelIs` | labels join in any grouping; a tree answers a range with the join of its edges |
| | `PromisesKept`, `FragmentsTrue` | `ScoresKeepTheirPromise`, `FragmentsScoredTrue` |
| `PathSamplerProofs` | `ScansAreExhaustive`, `RepairsAreComplete` | `ScanExhaustive`, `EndsRepaired` |
| | `ReadsAreTrue` | `ReadsTrue` |
| | `DiskIsInvisible` | `CacheSpec`: the store implements the cache without files |
| | `CatalogueLosesNothing`, `ImplicitSamplerAgrees` | `NothingLost`, `ImplicitAgrees` |
| `IterationProofs` | `AnchorHolds`, `RecordHolds`, `AnswerHolds`, `StopReasonHolds` | `AnchorSound`, `RecordCoversOffered`, `AnswerNeverWorse`, `StopReasonTrue` |
| | `RanksStayFresh`, `VisitsAreConserved` | `RanksAreFresh`, `VisitsConserved` |
| | `VersionsSuffice` | the table of versions has an entry for every route there will be |

**Folds.** The library states its facts about folds and induction with an operator as a parameter, which the provers
cannot instantiate. `FoldTheorems` states them for functions and sets instead, and replaces induction by a smallest
counterexample: a non-empty family of finite sets has a member that contains no other, and a non-empty set of naturals
a least number. From these come that a fold over a sequence has a run of partial results, that sums over sets are
numbers and monotone, that counts add along concatenation, insertion and removal, that a sequence of sequences
flattens to their joins in turn, and that the lexicographic order of `LexOrder` is total on keys of one length. The
other proof modules cite these.

**The pool.** From the types of columns, finite partitions and a tolerance in `Nat` (a partition that does not fit or
repeats a key is rejected by a guard, as the code does). `IInv` adds to the types: keys are distinct within main,
within backup and across; the capacity bound, which during protection depends on how many plans have been visited;
protected keys are in main or still to come; and what the loops remember (the promise fits the capacity with distinct
keys, the work list comes from the promise or from backup). It is needed because eviction at capacity is possible only
by counting: a pool larger than the protected partition, with one column per key, holds a key that is not protected
(`SomeEvictable`, by the pigeonhole principle). Each operation preserves `IInv` in a lemma of its own. The bound on
prices is a second invariant on top: within a tolerance, only an exact column replaces an inexact one, so drift happens
at most once after protection. `IndexIsExact` needs only that the index is the bag of costs per coverage.
`RepricingSelectsTheBest` is about the middle of a pass: what has been looked at and was not promoted has a reduced
cost no column of main exceeds, which later evictions only make truer.

**The assembler.** `RInv` says that what the assembler has in hand comes from the columns it declares and that a
selection is a complete partition. From it, each action is shown to be an action of the pool or to leave the pool's
variables alone; protecting the record is an action of the pool only because the record is a partition. The pool's own
theorems, instantiated through this refinement, then give `RecordCanBeRebuilt`: the protected keys have columns, each
within the proved bound of its price, and the sum over them is within that many tolerances of the record. Routes of a
partition serve different customers, so their keys differ by either identity: `OnlyCapacityThrows`.

**The certificate.** Weak duality in rounded arithmetic. Each partial sum lies on the right side of the exact one,
because a rounded sum moved one double outward passes the exact sum; so the computed lower bound is below the exact
one, which is below the cost of every partition that covers each row once. The hypothesis `Unbounded` says that every
integer has a spacing, that is, no sum overflows; the code gives no certificate when one does.

**Schedule, model call, descent, refinement.** The marks of the schedule are compared with history: the distance from a
mark is the silence really observed, and a round that reached the model is marked. In a call of the model, what was
fixed at zero is dearer than the start, and the time limit of a search was taken from the deadline before it began. In
a descent, by profile: which neighbourhoods may be closed, and that a closed one failed on the present solution or has
spent its proposals. In the refinement, a call that starts has some budget left and is given a deadline within it, so
it exceeds the whole by its own overrun only; entries of the memo are never changed once final.

**The next insertion.** Three facts carry `ChoicesAreExhaustive`: once a queue is left, what waits in it costs more
than the second best found (the best, for greedy), whatever the safety margin of its bounds hides; a customer given up
loses by more than the tolerance; and the winner so far is what the comparison picks among the customers ranked so
far, in their order.

**Labels.** `PromisesKept` holds for every instance, metric and curve that satisfies the named assumptions. Joining is
associative and the empty label is its unit, so the label of a path may be cut at any node, and the halving of
`RangeLabel` gathers, round by round, what the range has left and what it has taken. Each edit then cuts the old path
where the edited one does. Two labels *agree* when they are equal up to repeated visits of one canonical station: a
further such visit is a leg without energy, which the canonical form drops, whatever follows. So normalisation changes
no score, and neither does the slot taken for a run of one station. The inductive invariant is that the route is over
customers and stations and the property itself.

**Fragments.** `FragmentsTrue` is about routes put together from the incumbent's: any order of customers, any slices,
any insertion. The label of such a route is the join of its *links*: from each customer to the next through the
stations the incumbent has between the two, in either direction, or through none. `Scored` is the inductive invariant:
profiles and overrides are what would be computed anew from the present incumbent. A reset keeps it, because a profile
is taken over only by a route with the same visits and customers, hence the same gaps. As two routes of the incumbent
share no customer, the stations between two neighbours are unambiguous; so a fragment of a route, along its direction
or against it, has the join of the links of its customers, a bridge is the link of its ends, and what the scorer joins
is, wherever `FragmentEnd` cuts the order, the join of all links in turn.

**Scans and repairs.** What a scan passed over is outside the band of the best for good: the best only gets cheaper,
and bounds grow along a catalogue, so with a hopeless option goes all that follows it. In a repair, what was refused
does not improve the present plan by both costs; a scan that comes back empty then leaves nothing that does.

**Catalogues.** For `NothingLost`, what stands covers, through steps of dominance, whatever was seen; a path that is
discarded is dominated by one that stands or is covered itself, and closing under dominance reaches everything within
as many rounds as there are paths (which is how the property bounds its closure). Without a tolerance, dominance is a
strict partial order; the enumeration then keeps exactly the paths nothing enumerated beats, and the filter drops none
of them. By the triangle inequality a witness that the implicit sampler looks for is exactly an enumerated path that
dominates, so both draw from the same paths.

**The store.** For reads: a cached page and every intact block hold the content of their own key, since a page enters
the cache only verified. For the refinement: memory is the same sequence of keys as that of `CatalogCache`, its bytes
are those of the catalogues it holds, and the number that leaves for a newcomer, found by running sums from the oldest
on, is the fewest that makes room. Whatever files do is a stutter.

**The loop.** `IInv` joins the types with four facts that carry the properties over the sections of the body: the
anchor belongs to the present lambda and the search stands on it unless a carry is pending or counted; everything
offered is covered by the record; the target is reached only by the record of this iteration; the fallback is the
initial solution as long as the loop runs.

**The perturbation.** `JointInvariant` rests on `Sound`: ordinals of tokens are distinct; no rank is of a later version
than its route; a route that does not exist has version 0; routes and waiting customers together are no more than
versions; a rank of the present version holds the best places of the route as it is; and every visit of the original
is in a route or a token. That `Destroy` establishes the last point is the longest part: each visit of a plan stays or
moves, and each removed customer is a token once, because all four removal operators remove different customers and a
customer is in one route only.

Only model-checked. What computes schedules and charging plans by recursion over a route (`KernelsAgree`,
`RejectsOnlyLosers`, `ExactIsTrue`, `BoundsLoseNothing`) would need the algebra of piecewise linear charging before a
first lemma, and the first two compare the kernel with an evaluator whose loops are unrolled to a fixed number of
steps; `MemoryNeverMisleads` compares two passes over all moves in an order defined by sorting. They are left to TLC.
Liveness (`RoundsEnd`, `Terminates`) and whatever needs ENABLED are out of this prover's reach altogether.

## 6. Not modelled

* Search: the memo of completed insertions (`search.cpp` 641) and of repair decisions (4133-4260), the repair that
  preserves stations outside the joint mode (4880-5032) with its conservation check (5034-5069), the rollouts and the
  builder of the initial solution (3834-4030), hints of gaps that were split (1342), the choice made by the bounded
  replenishment proxy, the compressed mode of the catalogue, the probabilities of draws. `deficit_positions` is
  maintained by the code and never read.
* Evaluation: the caches keyed by route and the capacities of their `LruCache`, the floating-point environment,
  rounding of costs.
* Models: the linear constraints of FRVCP, the loading of its start and the rejection of adjacent stations; the
  decoding of columns; non-finite values and the relative gap of the certificate.
* Loop: the epoch mode, checkpoints, statistics, timing and progress reports. `RoutePool` leaves out generation
  counters except for whether an improvement is reported. `RouteAssembler` lets any round be a set-partitioning round;
  `SpSchedule` says which one is.
* Store: the count and metadata quotas, which are second quotas of the kind modelled.
* Input and output: command line, instance reader, input contract, schedule certificate. They are parsing, checks of
  single numbers and formatting; the replay behind the certificate is in `Charging`.
* `gurobi_models.cpp`, which the build excludes. Restarts play no role: no state survives a run.
