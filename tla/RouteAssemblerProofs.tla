------------------------ MODULE RouteAssemblerProofs ------------------------
(***************************************************************************)
(* The rounds of the assembler use the route pool only through its         *)
(* operations: for every set of columns, refinements, duals and descent    *)
(* results the composition implements RoutePool.  What is proved of the    *)
(* pool therefore holds in every round, and with it the protected record   *)
(* can always be rebuilt from the main pool.                               *)
(***************************************************************************)
EXTENDS RouteAssembler, FoldTheorems

All == Column \cup Refinement

Complete(S) == S = {} \/ S \in Candidates

\* What the rounds hand to the pool are its columns, and records are complete;
\* FRVCP works on the routes of the solution being assembled.
RInv ==
  /\ main \subseteq All /\ backup \subseteq All /\ todo \subseteq All
  /\ local.plans \subseteq All
  /\ local.feasible => IsPartition(local.plans)
  /\ stage = "admit" => routes \subseteq All
  /\ Complete(assembled) /\ Complete(selected)
  /\ stage = "relax" => assembled = selected
  /\ stage \in {"repriceDuals", "refine"} => routes \subseteq assembled
-----------------------------------------------------------------------------
(* The pool's operations bring in nothing but their own column.            *)

LEMMA AcceptStays ==
  ASSUME NEW c \in All, NEW b \in SUBSET All, Pool!Accept(c, b),
         main \subseteq All
  PROVE  main' \subseteq All /\ backup' \subseteq All
<1>1. \A w \in All, d \in SUBSET All : Pool!WithBackup(d, w) \subseteq All
  BY DEF Pool!WithBackup
<1>2. \A w \in All, d \in SUBSET All : Pool!AfterDemotion(d, w) \subseteq All
  BY <1>1 DEF Pool!AfterDemotion
<1>3. CASE Pool!RejectDominated(c, b)
  BY <1>3 DEF Pool!RejectDominated
<1>4. CASE Pool!ReplaceMain(c, b) \/ Pool!FillMain(c, b)
  BY <1>4 DEF Pool!ReplaceMain, Pool!FillMain, Pool!PutMain
<1>5. CASE Pool!DivertToBackup(c, b)
  BY <1>1, <1>5 DEF Pool!DivertToBackup
<1>6. CASE Pool!AdmitAndEvict(c, b)
  <2>1. PICK w \in main \cup {c} :
          main' = (main \cup {c}) \ {w}
            /\ backup' = Pool!AfterDemotion(b \ Pool!SameKey(b, c), w)
    BY <1>6 DEF Pool!AdmitAndEvict, Pool!Evictable
  <2>2. w \in All /\ b \ Pool!SameKey(b, c) \in SUBSET All
    BY <2>1
  <2> QED BY <1>2, <2>1, <2>2
<1> QED BY <1>3, <1>4, <1>5, <1>6 DEF Pool!Accept

\* The steps of the loops of the pool only move columns of its universe.
LEMMA LoopStays ==
  ASSUME RInv, Pool!LoopStep
  PROVE  main' \subseteq All /\ backup' \subseteq All /\ todo' \subseteq All
<1> USE DEF RInv
<1>1. CASE Pool!RepriceCandidate
  <2>1. PICK c \in todo : /\ Pool!Accept(c, backup \ Pool!SameKey(backup, c))
                          /\ todo' = todo \ {c}
    BY <1>1 DEF Pool!RepriceCandidate
  <2>2. c \in All /\ backup \ Pool!SameKey(backup, c) \in SUBSET All
    OBVIOUS
  <2> QED BY <2>1, <2>2, AcceptStays
<1>2. CASE Pool!ProtectPlan
  BY <1>2 DEF Pool!ProtectPlan, Pool!PutMain, Pool!contents
<1>3. CASE Pool!DemoteExcess
  <2>1. PICK w \in main : main' = main \ {w} /\ backup' = Pool!AfterDemotion(backup, w)
    BY <1>3 DEF Pool!DemoteExcess, Pool!Evictable
  <2>2. backup' \subseteq All
    BY <2>1 DEF Pool!AfterDemotion, Pool!WithBackup
  <2>3. todo' = todo
    BY <1>3 DEF Pool!DemoteExcess
  <2> QED BY <2>1, <2>2, <2>3
<1>4. CASE Pool!EndReprice \/ Pool!EndProtect
  BY <1>4 DEF Pool!EndReprice, Pool!EndProtect, Pool!contents
<1> QED BY <1>1, <1>2, <1>3, <1>4 DEF Pool!LoopStep
-----------------------------------------------------------------------------
(* Solutions stay complete.                                                *)

\* FRVCP keeps the customer order, so the refined route covers what it did.
LEMMA RefinedIsComplete ==
  ASSUME NEW S \in Candidates, NEW c \in S, NEW r \in Refinement, Refines(r, c)
  PROVE  (S \ {c}) \cup {r} \in Candidates
<1> DEFINE T == (S \ {c}) \cup {r}
<1>1. S \subseteq All /\ IsPartition(S)
  BY DEF Candidates, All
<1>2. Cover(r) = Cover(c)
  BY DEF Refines, Cover
<1>3. Covers(T) = Covers(S)
  BY <1>2 DEF Covers
<1>4. \A x, y \in T : x # y => Cover(x) \cap Cover(y) = {}
  <2>1. \A x, y \in S : x # y => Cover(x) \cap Cover(y) = {}
    BY <1>1 DEF IsPartition
  <2> QED BY <1>2, <2>1
<1>5. IsPartition(T) /\ T \in SUBSET (Column \cup Refinement)
  BY <1>1, <1>3, <1>4 DEF IsPartition, All
<1> QED BY <1>5 DEF Candidates

\* Whatever incumbent the model stops with is a partition of main columns.
LEMMA SelectedIsComplete ==
  ASSUME RInv, SolveModel
  PROVE  Complete(selected') /\ assembled' = selected'
<1>1. selected' = {} \/ selected' \in MainPartitions
  BY DEF SolveModel, Incumbents
<1>2. selected' \in MainPartitions => selected' \in Candidates
  BY DEF MainPartitions, Candidates, RInv, All
<1> QED BY <1>1, <1>2 DEF SolveModel, Complete
-----------------------------------------------------------------------------
\* A round starts in the invariant.
LEMMA InitRInv == Init => RInv
BY DEF Init, Pool!Init, RInv, Complete

\* Repricing starts with backup columns.
LEMMA StartRepriceStays ==
  ASSUME RInv, NEW next, StartReprice(next)
  PROVE  /\ UNCHANGED <<main, backup, roundVars>>
         /\ todo' \subseteq All
         /\ stage' = next
BY DEF RInv, StartReprice, Pool!BeginReprice, Pool!contents, poolVars

\* Every step of the assembler keeps the invariant.
LEMMA StepRInv ==
  ASSUME RInv, [Next]_vars
  PROVE  RInv'
<1>1. CASE Generate
  <2>1. /\ local'.plans \subseteq All /\ (local'.feasible => IsPartition(local'.plans))
        /\ routes' = local'.plans /\ stage' = "admit"
    BY <1>1, LocalAssumption DEF Generate, All
  <2>2. UNCHANGED <<main, backup, todo, selected, assembled>>
    BY <1>1 DEF Generate, poolVars
  <2> QED BY <2>1, <2>2 DEF RInv
<1>2. CASE AdmitRoute
  <2>1. PICK c \in routes : Pool!AdmitColumn(c) /\ routes' = routes \ {c}
    BY <1>2 DEF AdmitRoute
  <2>2. c \in All /\ Pool!Accept(c, backup) /\ todo' = todo
    BY <1>2, <2>1 DEF AdmitRoute, Pool!AdmitColumn, RInv
  <2>3. main' \subseteq All /\ backup' \subseteq All
    BY <2>2, AcceptStays DEF RInv
  <2> QED BY <1>2, <2>1, <2>2, <2>3 DEF AdmitRoute, RInv
<1>3. CASE OrdinaryRound
  <2>1. Complete(assembled')
    BY <1>3 DEF OrdinaryRound, RInv, Complete, Candidates, All
  <2> QED BY <1>3, <2>1 DEF OrdinaryRound, poolVars, RInv
<1>4. CASE SpRound \/ RepriceDuals
  BY <1>4, StartRepriceStays DEF SpRound, RepriceDuals, roundVars, RInv
<1>5. CASE LeaveRound
  BY <1>5 DEF LeaveRound, poolVars, RInv, IsPartition
<1>6. CASE SolveModel
  BY <1>6, SelectedIsComplete DEF SolveModel, poolVars, RInv
<1>7. CASE FeedBackDuals
  <2>1. UNCHANGED <<main, backup, todo>>
    BY <1>7 DEF FeedBackDuals, Pool!UpdateDuals, Pool!contents
  <2> QED BY <1>7, <2>1 DEF FeedBackDuals, RInv
<1>8. CASE KeepDuals
  BY <1>8 DEF KeepDuals, poolVars, RInv
<1>9. CASE RefineRoute
  <2>1. PICK c \in routes, r \in Refinement :
          /\ Refines(r, c)
          /\ assembled' = (assembled \ {c}) \cup {r}
          /\ Pool!AdmitColumn(r)
          /\ routes' = routes \ {c}
    BY <1>9 DEF RefineRoute
  <2>2. /\ stage = "refine" /\ stage' = stage /\ local' = local /\ selected' = selected
        /\ c \in assembled
    BY <1>9, <2>1 DEF RefineRoute, RInv
  <2>3. Complete(assembled')
    BY <2>1, <2>2, RefinedIsComplete DEF RInv, Complete
  <2>4. routes' \subseteq assembled'
    BY <2>1, <2>2 DEF RInv
  <2>5. r \in All /\ Pool!Accept(r, backup) /\ todo' = todo
    BY <2>1 DEF Pool!AdmitColumn, All
  <2>6. main' \subseteq All /\ backup' \subseteq All
    BY <2>5, AcceptStays DEF RInv
  <2> QED BY <2>2, <2>3, <2>4, <2>5, <2>6 DEF RInv
<1>10. CASE KeepRoute \/ EndRefine
  BY <1>10 DEF KeepRoute, EndRefine, poolVars, RInv
<1>11. CASE AcceptRecord
  <2>1. UNCHANGED <<main, backup>> /\ (todo' = todo \/ todo' = assembled)
    BY <1>11 DEF AcceptRecord, ProtectRecord, Pool!BeginProtect, Pool!contents, poolVars
  <2>2. todo' \subseteq All
    BY <2>1 DEF RInv, Complete, Candidates, All
  <2> QED BY <1>11, <2>1, <2>2 DEF AcceptRecord, EndRound, RInv, Complete
<1>12. CASE NoRecord \/ RecordThrows
  BY <1>12 DEF NoRecord, RecordThrows, EndRound, poolVars, RInv, Complete
<1>13. CASE Protected \/ DeadlinePasses \/ UNCHANGED vars
  BY <1>13 DEF Protected, DeadlinePasses, vars, roundVars, poolVars, RInv
<1>14. CASE PoolLoop
  BY <1>14, LoopStays DEF PoolLoop, roundVars, RInv
<1> QED BY <1>1, <1>2, <1>3, <1>4, <1>5, <1>6, <1>7, <1>8, <1>9, <1>10, <1>11, <1>12, <1>13, <1>14
  DEF Next, Body
-----------------------------------------------------------------------------
\* A step of a round is an operation of the pool, a step of its loop or none.
LEMMA StepRefines ==
  ASSUME RInv, [Next]_vars
  PROVE  [Pool!Next]_(Pool!vars)
<1>1. UNCHANGED poolVars => UNCHANGED Pool!vars
  BY DEF poolVars, Pool!vars
<1>2. CASE AdmitRoute
  BY <1>2 DEF AdmitRoute, RInv, All, Pool!Next
<1>3. CASE SpRound \/ RepriceDuals
  BY <1>1, <1>3 DEF SpRound, RepriceDuals, StartReprice, Pool!Next
<1>4. CASE FeedBackDuals
  BY <1>4 DEF FeedBackDuals, Pool!Next
<1>5. CASE RefineRoute
  BY <1>5 DEF RefineRoute, Pool!Next
<1>6. CASE AcceptRecord
  <2>1. assembled \in Candidates
    BY <1>6 DEF AcceptRecord, IsRecord, RInv, Complete
  <2> QED BY <1>1, <1>6, <2>1 DEF AcceptRecord, ProtectRecord, Pool!Next
<1>7. CASE PoolLoop
  BY <1>7 DEF PoolLoop, Pool!Next
<1>8. CASE UNCHANGED poolVars
  BY <1>1, <1>8
<1> QED BY <1>2, <1>3, <1>4, <1>5, <1>6, <1>7, <1>8
  DEF Next, Body, Generate, OrdinaryRound, LeaveRound, SolveModel, KeepDuals, KeepRoute,
      EndRefine, RecordThrows, NoRecord, Protected, DeadlinePasses, vars

\* Rounds, descents and FRVCP use the pool only through its operations, so all
\* that is proved of RoutePool holds in the assembler (assemble_routes).
THEOREM AssemblerUsesPool == Spec => PoolSpec
<1>1. Init => Pool!Init
  BY DEF Init
<1>2. RInv /\ [Next]_vars => RInv'
  BY StepRInv
<1>3. RInv /\ [Next]_vars => [Pool!Next]_(Pool!vars)
  BY StepRefines
<1> QED BY InitRInv, <1>1, <1>2, <1>3, PTL DEF Spec, PoolSpec, Pool!Spec
-----------------------------------------------------------------------------
(* The costs of sets of columns.                                           *)

Prices(S) == [c \in S |-> c.cost]

\* CostSum is what the fold of Cost defines.
CostSum(g, S) ==
  g = [s \in SUBSET S |-> IF s = {} THEN 0
                          ELSE LET x == Pick(s) IN x.cost + g[s \ {x}]]

\* The fold that sums the costs of a plan is the sum of its costs.
LEMMA CostIsTotal ==
  ASSUME NEW S, IsFiniteSet(S), \A c \in S : c.cost \in Int
  PROVE  Cost(S) = Total(Prices(S), S)
<1> DEFINE f == Prices(S)
<1>1. \A x \in S : f[x] \in Int /\ f[x] = x.cost
  BY DEF Prices
<1>2. \A g : Sums(g, f, S) <=> CostSum(g, S)
  <2>1. \A s \in SUBSET S : s # {} => Pick(s) \in S
    BY DEF Pick
  <2> QED BY <1>1, <2>1 DEF Sums, CostSum
<1>3. \E g : CostSum(g, S)
  <2> HIDE DEF f
  <2> QED BY <1>1, <1>2, TotalSums
<1>4. CostSum(CHOOSE g : CostSum(g, S), S)
  BY <1>3
<1>5. Cost(S) = (CHOOSE g : CostSum(g, S))[S]
  BY DEF Cost, MapThenSumSet, MapThenFoldSet, CostSum, Pick
<1> QED
  <2> HIDE DEF f
  <2>1. Sums(CHOOSE g : CostSum(g, S), f, S)
    BY <1>2, <1>4
  <2>2. (CHOOSE g : CostSum(g, S))[S] = Total(f, S)
    BY <1>1, <2>1, TotalUnique
  <2>3. Cost(S) = Total(f, S)
    BY <1>5, <2>2
  <2> QED BY <2>3 DEF f
-----------------------------------------------------------------------------
(* What the pool promises, and for how long the promise is the record.     *)

\* Routes of a complete solution serve different customers, so a solution has
\* no more routes than there are sets of customers.
LEMMA CandidatesFinite ==
  ASSUME NEW S \in Candidates
  PROVE  IsFiniteSet(S)
<1> DEFINE f == [c \in S |-> Cover(c)]
<1>1. \A c \in S : Cover(c) # {} /\ Cover(c) \in SUBSET Customer
  BY RouteAssumption DEF Candidates
<1>2. \A c, d \in S : c # d => Cover(c) # Cover(d)
  BY <1>1 DEF Candidates, IsPartition
<1>3. f \in Injection(S, SUBSET Customer)
  BY <1>1, <1>2 DEF Injection, IsInjective
<1>4. IsFiniteSet(SUBSET Customer)
  BY CustomerAssumption, FS_SUBSET
<1> QED BY <1>3, <1>4, FS_Injection

\* The pool's theorems, for the pool of the assembler.
LEMMA PoolPromises == PoolSpec => []Pool!IInv /\ []Pool!ProtectedStayCheap
BY PoolAssumption, Pool!Invariance, Pool!ProtectedPriceBound
  DEF PoolSpec

RecordState ==
  /\ Complete(best)
  /\ phase = "protect" => stage = "protect"
  /\ stage # "error" => (Protect /\ best # {} => promise = best)

\* Outside AcceptRecord the record and the promise stay, and protect_partition
\* is not entered.
LEMMA StepRecordState ==
  ASSUME RInv, RecordState, [Next]_vars
  PROVE  RecordState'
<1>1. CASE AcceptRecord
  BY <1>1 DEF AcceptRecord, ProtectRecord, Pool!BeginProtect, RInv, RecordState, IsRecord, poolVars
<1>2. CASE \/ Generate \/ OrdinaryRound \/ LeaveRound \/ SolveModel \/ KeepDuals \/ KeepRoute
           \/ EndRefine \/ NoRecord \/ Protected \/ DeadlinePasses \/ UNCHANGED vars
  BY <1>2 DEF Generate, OrdinaryRound, LeaveRound, SolveModel, KeepDuals, KeepRoute,
      EndRefine, NoRecord, EndRound, Protected, DeadlinePasses, vars, roundVars, poolVars,
      RecordState
<1>3. CASE AdmitRoute \/ RefineRoute
  BY <1>3 DEF AdmitRoute, RefineRoute, Pool!AdmitColumn, RecordState
<1>4. CASE SpRound \/ RepriceDuals
  BY <1>4 DEF SpRound, RepriceDuals, StartReprice, Pool!BeginReprice, roundVars, poolVars,
      RecordState
<1>5. CASE FeedBackDuals
  BY <1>5 DEF FeedBackDuals, Pool!UpdateDuals, RecordState
<1>6. CASE RecordThrows
  BY <1>6 DEF RecordThrows, poolVars, RInv, RecordState, IsRecord
<1>7. CASE PoolLoop
  BY <1>7 DEF PoolLoop, Pool!LoopStep, Pool!RepriceCandidate, Pool!EndReprice, Pool!ProtectPlan,
      Pool!DemoteExcess, Pool!EndProtect, roundVars, RecordState
<1> QED BY <1>1, <1>2, <1>3, <1>4, <1>5, <1>6, <1>7 DEF Next, Body
-----------------------------------------------------------------------------
(* The record's start.                                                     *)

\* Columns of one key serve the same customers.
LEMMA KeyCover ==
  ASSUME NEW a, NEW b, Pool!Key(a) = Pool!Key(b)
  PROVE  Cover(a) = Cover(b)
BY DEF Pool!Key, Pool!Cover, Cover

\* With a column for a customer set in a finite pool there is a cheapest one.
LEMMA CheapestExists ==
  ASSUME IsFiniteSet(main), \A m \in main : m.cost \in Int,
         NEW m \in main
  PROVE  /\ Cheapest(Cover(m)) \in main
         /\ Cover(Cheapest(Cover(m))) = Cover(m)
         /\ Cheapest(Cover(m)).cost <= m.cost
<1> DEFINE S == {d \in main : Cover(d) = Cover(m)}
           f == [d \in main |-> d.cost]
<1>1. IsFiniteSet(S) /\ m \in S /\ S \subseteq main
  BY FS_Subset
<1>2. \A d \in S : f[d] \in Int /\ f[d] = d.cost
  OBVIOUS
<1>3. \E c \in S : \A d \in S : f[c] <= f[d]
  <2> HIDE DEF S, f
  <2> QED BY <1>1, <1>2, LeastExists
<1>4. \E c \in main : /\ Cover(c) = Cover(m)
                      /\ \A d \in main : Cover(d) = Cover(m) => c.cost <= d.cost
  BY <1>2, <1>3
<1> QED BY <1>4 DEF Cheapest

\* While every route of the record has a stand-in in the main pool, the start
\* made from the record is within two tolerances a route of the record.
LEMMA StandInsMakeAStart ==
  ASSUME NEW S \in Candidates, S # {},
         IsFiniteSet(main), main \subseteq All,
         \A p \in S : \E m \in main : Cover(m) = Cover(p) /\ m.cost <= p.cost + 2 * Tol
  PROVE  /\ UNION Covers(main) = Customer
         /\ Start(Covers(S)) # {}
         /\ Cost(Start(Covers(S))) <= Cost(S) + 2 * Tol * Cardinality(S)
<1> DEFINE h == [p \in S |-> Cheapest(Cover(p))]
<1>1. /\ IsPartition(S) /\ S \subseteq All /\ IsFiniteSet(S)
      /\ \A p \in S : p.cost \in Int
      /\ \A m \in main : m.cost \in Int /\ Cover(m) \subseteq Customer
      /\ 2 * Tol \in Int
  BY CandidatesFinite, RouteAssumption DEF Candidates, All
<1>2. \A p \in S : /\ h[p] \in main /\ Cover(h[p]) = Cover(p)
                   /\ h[p].cost <= p.cost + 2 * Tol
  <2> SUFFICES ASSUME NEW p \in S
               PROVE  /\ h[p] \in main /\ Cover(h[p]) = Cover(p)
                      /\ h[p].cost <= p.cost + 2 * Tol
    OBVIOUS
  <2>1. PICK m \in main : Cover(m) = Cover(p) /\ m.cost <= p.cost + 2 * Tol
    OBVIOUS
  <2>2. /\ Cheapest(Cover(m)) \in main
        /\ Cover(Cheapest(Cover(m))) = Cover(m)
        /\ Cheapest(Cover(m)).cost <= m.cost
    BY <1>1, CheapestExists
  <2>3. /\ h[p] \in main /\ Cover(h[p]) = Cover(p)
        /\ h[p].cost <= m.cost
    BY <2>1, <2>2
  <2>4. h[p].cost \in Int /\ m.cost \in Int /\ p.cost \in Int
    BY <1>1, <2>3
  <2> QED BY <1>1, <2>1, <2>3, <2>4
<1>3. Covers(S) \subseteq Covers(main)
  BY <1>2 DEF Covers
<1>4. UNION Covers(main) = Customer
  BY <1>1, <1>3 DEF IsPartition, Covers
<1>5. Covers(S) # {}
  BY DEF Covers
<1>6. Start(Covers(S)) = {h[p] : p \in S}
  BY <1>3, <1>5 DEF Start, Covers
<1>7. \A x, y \in S : h[x] = h[y] => x = y
  <2>1. \A x \in S : Cover(x) # {}
    BY <1>1, RouteAssumption DEF All
  <2> QED BY <1>1, <1>2, <2>1 DEF IsPartition
<1> DEFINE H == {h[p] : p \in S}
<1>8. IsFiniteSet(H) /\ H \subseteq main /\ \A c \in H : c.cost \in Int
  <2>1. H \subseteq main
    BY <1>2
  <2> QED BY <1>1, <2>1, FS_Subset
<1>9. Cost(H) = Total(Prices(H), H) /\ Cost(S) = Total(Prices(S), S)
  <2> HIDE DEF H
  <2> QED BY <1>1, <1>8, CostIsTotal
<1>10. \A x \in S : /\ Prices(S)[x] \in Int /\ Prices(H)[h[x]] \in Int
                    /\ Prices(H)[h[x]] <= Prices(S)[x] + 2 * Tol
  BY <1>1, <1>2, <1>8 DEF Prices
<1>11. Total(Prices(H), {h[p] : p \in S}) <= Total(Prices(S), S) + (2 * Tol) * Cardinality(S)
  <2>1. PICK f : f = Prices(H)
    OBVIOUS
  <2>2. PICK g : g = Prices(S)
    OBVIOUS
  <2>3. PICK k : k = h
    OBVIOUS
  <2>4. \A x \in S : /\ g[x] \in Int /\ f[k[x]] \in Int
                     /\ f[k[x]] <= g[x] + 2 * Tol
    BY <1>10, <2>1, <2>2, <2>3
  <2>5. \A x, y \in S : k[x] = k[y] => x = y
    BY <1>7, <2>3
  <2>6. Total(f, {k[x] : x \in S}) <= Total(g, S) + (2 * Tol) * Cardinality(S)
    <3> HIDE DEF h
    <3> QED BY <1>1, <2>4, <2>5, TotalOfImages
  <2> QED BY <2>1, <2>2, <2>3, <2>6
<1>12. Cost(Start(Covers(S))) <= Cost(S) + 2 * Tol * Cardinality(S)
  BY <1>6, <1>9, <1>11
<1>13. Start(Covers(S)) # {}
  BY <1>6
<1> QED BY <1>4, <1>12, <1>13
-----------------------------------------------------------------------------
\* Between two protections every route of the record has its stand-in.
LEMMA RecordHasStandIns ==
  ASSUME Pool!IInv, Pool!ProtectedStayCheap, RecordState,
         Protect, best # {}, stage \notin {"protect", "error"}
  PROVE  \A p \in best : \E m \in main : Cover(m) = Cover(p) /\ m.cost <= p.cost + 2 * Tol
<1>1. promise = best /\ phase # "protect"
  BY DEF RecordState
<1>2. ASSUME NEW p \in best
      PROVE  \E m \in main : Cover(m) = Cover(p) /\ m.cost <= p.cost + 2 * Tol
  <2>1. PICK m \in main : Pool!Key(m) = Pool!Key(p)
    BY <1>1, <1>2 DEF Pool!IInv, Pool!TypeOK, Pool!ProtectedStay, Pool!Keys
  <2>2. p \notin todo
    BY <1>1, <2>1 DEF Pool!IInv, Pool!TypeOK, Pool!LoopState, Pool!Disjoint
  <2>3. m.cost <= p.cost + 2 * Tol
    BY <1>1, <2>1, <2>2 DEF Pool!ProtectedStayCheap
  <2> QED BY <2>1, <2>3, KeyCover
<1> QED BY <1>2

\* The record protected in the pool can be rebuilt from the main pool in every
\* round, within two tolerances a route, whatever is admitted, evicted and
\* repriced in between: make_sp_mip_start never comes back without a start for
\* best_, and the model is never skipped for an uncovered customer.
THEOREM RecordCanBeRebuilt == Spec => []RecordRepresentable
<1>1. Init => RInv /\ RecordState
  BY InitRInv DEF Init, Pool!Init, RecordState, Complete
<1>2. RInv /\ RecordState /\ [Next]_vars => RInv' /\ RecordState'
  BY StepRInv, StepRecordState
<1>3. RInv /\ RecordState /\ Pool!IInv /\ Pool!ProtectedStayCheap => RecordRepresentable
  <2> SUFFICES ASSUME RInv, RecordState, Pool!IInv, Pool!ProtectedStayCheap,
                      Protect, best # {}, stage \notin {"protect", "error"}
               PROVE  /\ UNION Covers(main) = Customer
                      /\ Start(Covers(best)) # {}
                      /\ Cost(Start(Covers(best))) <= Cost(best) + 2 * Tol * Cardinality(best)
    BY DEF RecordRepresentable
  <2>1. best \in Candidates
    BY DEF RecordState, Complete
  <2>2. IsFiniteSet(main) /\ main \subseteq All
    BY DEF Pool!IInv, Pool!TypeOK, All, Pool!IsFiniteSet, IsFiniteSet
  <2> QED BY <2>1, <2>2, RecordHasStandIns, StandInsMakeAStart
<1> QED BY <1>1, <1>2, <1>3, AssemblerUsesPool, PoolPromises, PTL DEF Spec
-----------------------------------------------------------------------------
(* The record that does not fit.                                           *)

\* The routes of a complete solution differ in their keys, by either identity.
LEMMA KeysDiffer ==
  ASSUME NEW S \in Candidates, NEW c \in S, NEW d \in S, Pool!Key(c) = Pool!Key(d)
  PROVE  c = d
<1>1. Cover(c) = Cover(d)
  BY KeyCover
<1>2. Cover(c) # {}
  BY RouteAssumption DEF Candidates
<1> QED BY <1>1, <1>2 DEF Candidates, IsPartition

\* A run ends by the exception of protect_partition only when its record has
\* more routes than the capacity of the pool; no record repeats a key.
THEOREM OnlyCapacityThrows == Spec => []ThrowsOnlyOnCapacity
<1>1. Init => RInv /\ ThrowsOnlyOnCapacity
  BY InitRInv DEF Init, ThrowsOnlyOnCapacity
<1>2. ASSUME RInv, ThrowsOnlyOnCapacity, [Next]_vars
      PROVE  ThrowsOnlyOnCapacity'
  <2>1. CASE RecordThrows
    <3>1. best' = assembled /\ assembled \in Candidates /\ ~Pool!Fits(assembled)
      BY <1>2, <2>1 DEF RecordThrows, IsRecord, Unprotectable, RInv, Complete
    <3>2. \A c, d \in assembled : Pool!Key(c) = Pool!Key(d) => c = d
      BY <3>1, KeysDiffer
    <3>3. ~(Cardinality(assembled) <= Capacity)
      BY <3>1, <3>2 DEF Pool!Fits, Pool!Cardinality, Cardinality, Pool!IsFiniteSet, IsFiniteSet
    <3>4. Cardinality(assembled) \in Nat /\ Capacity \in Nat
      BY <3>1, CandidatesFinite, FS_CardinalityType, PoolAssumption DEF Pool!CapacityAssumption
    <3> QED BY <3>1, <3>3, <3>4 DEF ThrowsOnlyOnCapacity
  <2>2. CASE ~RecordThrows
    <3>1. (stage' = "error" => stage = "error") /\ (stage = "error" => best' = best)
      BY <1>2, <2>2 DEF Next, Body, Generate, AdmitRoute, OrdinaryRound, SpRound, LeaveRound, SolveModel,
         FeedBackDuals, KeepDuals, RepriceDuals, StartReprice, RefineRoute, KeepRoute, EndRefine,
         AcceptRecord, NoRecord, Protected, PoolLoop, DeadlinePasses, vars, roundVars
    <3> QED BY <1>2, <3>1 DEF ThrowsOnlyOnCapacity
  <2> QED BY <2>1, <2>2
<1>3. RInv /\ [Next]_vars => RInv'
  BY StepRInv
<1> QED BY <1>1, <1>2, <1>3, PTL DEF Spec
=============================================================================
