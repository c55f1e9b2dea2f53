----------------------------- MODULE RoutePool -----------------------------
(***************************************************************************)
(* The route pool of the set-partitioning phase (src/src/pool.cpp).        *)
(*                                                                         *)
(* Every feasible route the local search meets is offered to the pool as a *)
(* column.  The main pool is bounded and is what the restricted            *)
(* set-partitioning model sees; the backup pool keeps what the main pool   *)
(* turned away, to be repriced when the dual values change.  A best        *)
(* partition can be protected, so that its columns are never evicted.      *)
(*                                                                         *)
(* reprice_backup and protect_partition are loops over columns; each       *)
(* iteration is one action, and phase says which loop is running.  Costs   *)
(* are integers here (the rounding of doubles is not modelled), Tol is the *)
(* cost tolerance.                                                         *)
(*                                                                         *)
(* A definition marked "Mutant" is a mistaken form of the one after it; no *)
(* definition uses it, and each is there to be put in its place to see     *)
(* that a property notices.                                                *)
(***************************************************************************)
EXTENDS Integers, FiniteSets, FiniteSetsExt, Bags

CONSTANTS
  Column,          \* the feasible routes the search can offer
  Duals,           \* the dual vectors an LP can return, functions of customers
  Partition,       \* the solutions that can be protected, sets of columns
  Capacity,        \* capacity_ of the main pool
  Tol,             \* tolerance_
  Identity,        \* identity_, "OrderedSequence" or "CustomerCoverage"
  KeepEvicted      \* keep_evicted_in_backup_

Cover(c) == {c.seq[i] : i \in DOMAIN c.seq}

Key(c) == IF Identity = "CustomerCoverage" THEN Cover(c) ELSE c.seq

Keys(S) == {Key(c) : c \in S}

ASSUME CapacityAssumption == Capacity \in Nat \ {0}
ASSUME ToleranceAssumption == Tol \in Nat
ASSUME ColumnAssumption ==
  \A c \in Column :
    /\ c.cost \in Int /\ c.exact \in BOOLEAN /\ c.rank \in Nat
    /\ IsFiniteSet(Cover(c))
\* Columns with the same visits serve the same customers in the same order.
ASSUME RankAssumption ==
  \A a, b \in Column : a.rank = b.rank => a.seq = b.seq
ASSUME DualsAssumption ==
  \A d \in Duals, c \in Column : \A i \in Cover(c) : d[i] \in Int
ASSUME PartitionAssumption ==
  \A S \in Partition : S \subseteq Column /\ IsFiniteSet(S)

VARIABLES
  main, backup,    \* main_ and backup_, as sets of columns
  coverageCosts,   \* coverage_costs_, a bag of <<customer set, cost>>
  protected,       \* protected_sequences_
  duals, dualsValid,
  phase,           \* the member function that is running, or "idle"
  todo,            \* the columns its loop has still to visit
  update,          \* the PoolUpdate of the last step
  promise          \* history: the columns last given to protect_partition

vars == <<main, backup, coverageCosts, protected, duals, dualsValid,
          phase, todo, update, promise>>

contents == <<main, backup, coverageCosts>>

-----------------------------------------------------------------------------
(* Order of columns and dominance.                                         *)

ReducedCost(c) == c.cost - MapThenSumSet(LAMBDA i : duals[i], Cover(c))

\* rank stands for the order of (customer_set, signature), the visits.
RankLess(a, b) ==
  \/ ReducedCost(a) < ReducedCost(b)
  \/ /\ ReducedCost(a) = ReducedCost(b)
     /\ a.cost < b.cost \/ (a.cost = b.cost /\ a.rank < b.rank)

Dominates(old, new) ==
  \/ old.cost < new.cost - Tol
  \/ /\ new.cost - old.cost \in -Tol..Tol
     /\ old.exact \/ ~new.exact

\* What put_backup asks before it overwrites a backup column.
Upgrades(new, old) ==
  \/ new.cost < old.cost - Tol
  \/ new.cost - old.cost \in -Tol..Tol /\ new.exact /\ ~old.exact

SameKey(S, c) == {m \in S : Key(m) = Key(c)}

-----------------------------------------------------------------------------
(* The coverage index.                                                     *)

CoverageEntry(c) == SetToBag({<<Cover(c), c.cost>>})

\* Mutant: put_main leaves the replaced column's cost in the index.
IndexWithoutErase(added, removed) == coverageCosts (+) added

IndexAfter(added, removed) ==
  (coverageCosts (-) removed) (+) added

Copies(index, e) == IF BagIn(e, index) THEN index[e] ELSE 0

CoverageCosts(index, cover) ==
  {e[2] : e \in {x \in BagToSet(index) : x[1] = cover}}

Improved(before, after) ==
  /\ after # {}
  /\ before = {} \/ Min(after) < Min(before) - Tol

-----------------------------------------------------------------------------
(* Insertion and eviction.                                                 *)

Entries(S) == IF S = {} THEN EmptyBag ELSE CoverageEntry(CHOOSE m \in S : TRUE)

\* put_main: the column replaces the main column of its key and erases the
\* backup column of its key.  b is the backup pool the step starts from.
PutMain(c, b) ==
  /\ main' = (main \ SameKey(main, c)) \cup {c}
  /\ backup' = b \ SameKey(b, c)
  /\ coverageCosts' = IndexAfter(CoverageEntry(c), Entries(SameKey(main, c)))

WithBackup(b, c) ==
  IF \E old \in SameKey(b, c) : ~Upgrades(c, old)
    THEN b
    ELSE (b \ SameKey(b, c)) \cup {c}

\* Mutant: a demoted column is dropped whatever keep_evicted_in_backup says.
AfterDemotionDropped(b, w) == b

AfterDemotion(b, w) == IF KeepEvicted THEN WithBackup(b, w) ELSE b

\* Mutant: worst_main does not look at protected_sequences_.
EvictableProtectedToo(M) == M

Evictable(M) == {m \in M : Key(m) \notin protected}

\* Mutant: the dearest column is the worst, whatever the duals say.
IsDearest(w, M) == \A m \in Evictable(M) : m.cost <= w.cost

IsWorst(w, M) == \A m \in Evictable(M) : ~RankLess(w, m)

Effective(c) ==
  Improved(CoverageCosts(coverageCosts, Cover(c)),
           CoverageCosts(coverageCosts', Cover(c)))

Rejected == [main |-> FALSE, backup |-> FALSE, effective |-> FALSE]

-----------------------------------------------------------------------------
(* admit, started from the backup pool b (reprice_backup takes the         *)
(* candidate out of the backup pool first).                                *)

RejectDominated(c, b) ==
  /\ \E old \in SameKey(main, c) \cup
              (IF SameKey(main, c) = {} THEN SameKey(b, c) ELSE {}) :
        Dominates(old, c)
  /\ backup' = b
  /\ update' = Rejected
  /\ UNCHANGED <<main, coverageCosts>>

ReplaceMain(c, b) ==
  /\ \E old \in SameKey(main, c) : ~Dominates(old, c)
  /\ PutMain(c, b)
  /\ update' = [main |-> TRUE, backup |-> FALSE, effective |-> Effective(c)]

IsNewcomer(c, b) ==
  /\ SameKey(main, c) = {}
  /\ \A old \in SameKey(b, c) : ~Dominates(old, c)

FillMain(c, b) ==
  /\ IsNewcomer(c, b)
  /\ Cardinality(main) < Capacity
  /\ PutMain(c, b)
  /\ update' = [main |-> TRUE, backup |-> FALSE, effective |-> Effective(c)]

IsUnpromising(c) == dualsValid /\ ReducedCost(c) >= -Tol

DivertToBackup(c, b) ==
  /\ IsNewcomer(c, b)
  /\ Cardinality(main) >= Capacity
  /\ IsUnpromising(c)
  /\ backup' = WithBackup(b, c)
  /\ update' = [main |-> FALSE, backup |-> TRUE, effective |-> FALSE]
  /\ UNCHANGED <<main, coverageCosts>>

NeedsEviction(c, b) ==
  /\ IsNewcomer(c, b)
  /\ Cardinality(main) >= Capacity
  /\ ~IsUnpromising(c)

\* Mutant: the worst old column goes, and the newcomer is not compared.
AdmitAndEvictOld(c, b) ==
  /\ NeedsEviction(c, b)
  /\ \E w \in Evictable(main) :
       /\ IsWorst(w, main)
       /\ main' = (main \cup {c}) \ {w}
       /\ backup' = AfterDemotion(b \ SameKey(b, c), w)
       /\ coverageCosts' = IndexAfter(CoverageEntry(c), EmptyBag)
                             (-) CoverageEntry(w)
       /\ update' = [main |-> TRUE, backup |-> FALSE, effective |-> Effective(c)]

\* worst_main throws std::logic_error when every column is protected; the
\* invariant EvictionPossible says that it never does.
AdmitAndEvict(c, b) ==
  /\ NeedsEviction(c, b)
  /\ \E w \in Evictable(main \cup {c}) :
       /\ IsWorst(w, main \cup {c})
       /\ main' = (main \cup {c}) \ {w}
       /\ backup' = AfterDemotion(b \ SameKey(b, c), w)
       /\ coverageCosts' = IndexAfter(CoverageEntry(c), EmptyBag)
                             (-) CoverageEntry(w)
       /\ update' = [main |-> w # c,
                     backup |-> w = c /\ KeepEvicted,
                     effective |-> w # c /\ Effective(c)]

Accept(c, b) ==
  \/ RejectDominated(c, b)
  \/ ReplaceMain(c, b)
  \/ FillMain(c, b)
  \/ DivertToBackup(c, b)
  \/ AdmitAndEvict(c, b)

-----------------------------------------------------------------------------
(* The member functions.                                                   *)

AdmitColumn(c) ==
  /\ phase = "idle"
  /\ Accept(c, backup)
  /\ UNCHANGED <<protected, promise, duals, dualsValid, phase, todo>>

UpdateDuals(d) ==
  /\ phase = "idle"
  /\ duals' = d
  /\ dualsValid' = TRUE
  /\ UNCHANGED <<contents, protected, promise, phase, todo, update>>

BeginReprice ==
  /\ phase = "idle" /\ dualsValid
  /\ phase' = "reprice"
  /\ todo' = {b \in backup : ReducedCost(b) < -Tol}
  /\ UNCHANGED <<contents, protected, promise, duals, dualsValid, update>>

\* Candidates are visited from the best rank on.
RepriceCandidate ==
  /\ phase = "reprice"
  /\ \E c \in todo :
       /\ \A d \in todo \ {c} : ~RankLess(d, c)
       /\ Accept(c, backup \ SameKey(backup, c))
       /\ todo' = todo \ {c}
  /\ UNCHANGED <<protected, promise, duals, dualsValid, phase>>

EndReprice ==
  /\ phase = "reprice" /\ todo = {}
  /\ phase' = "idle"
  /\ UNCHANGED <<contents, protected, promise, duals, dualsValid, todo, update>>

\* Mutant: a partition is not held against the capacity.
FitsAnyNumber(S) == \A c, d \in S : Key(c) = Key(d) => c = d

\* What protect_partition demands of a partition.
Fits(S) ==
  /\ Cardinality(S) <= Capacity
  /\ \A c, d \in S : Key(c) = Key(d) => c = d

\* protect_partition throws, and changes nothing, when the partition does not
\* fit or repeats a key.
BeginProtect(S) ==
  /\ phase = "idle"
  /\ Fits(S)
  /\ protected' = Keys(S)
  /\ todo' = S
  /\ promise' = S
  /\ phase' = "protect"
  /\ UNCHANGED <<contents, duals, dualsValid, update>>

\* Mutant: any incumbent of the key will do, whatever it costs.
ProtectPlanAnyIncumbent ==
  /\ phase = "protect"
  /\ \E c \in todo :
       /\ todo' = todo \ {c}
       /\ IF SameKey(main, c) # {}
            THEN /\ update' = Rejected
                 /\ UNCHANGED contents
            ELSE /\ PutMain(c, backup)
                 /\ update' = [main |-> TRUE, backup |-> FALSE,
                               effective |-> Effective(c)]
  /\ UNCHANGED <<protected, promise, duals, dualsValid, phase>>

ProtectPlan ==
  /\ phase = "protect"
  /\ \E c \in todo :
       /\ todo' = todo \ {c}
       /\ IF \E old \in SameKey(main, c) : Dominates(old, c)
            THEN /\ update' = Rejected
                 /\ UNCHANGED contents
            ELSE /\ PutMain(c, backup)
                 /\ update' = [main |-> TRUE, backup |-> FALSE,
                               effective |-> Effective(c)]
  /\ UNCHANGED <<protected, promise, duals, dualsValid, phase>>

DemoteExcess ==
  /\ phase = "protect" /\ todo = {}
  /\ Cardinality(main) > Capacity
  /\ \E w \in Evictable(main) :
       /\ IsWorst(w, main)
       /\ main' = main \ {w}
       /\ backup' = AfterDemotion(backup, w)
       /\ coverageCosts' = IndexAfter(EmptyBag, CoverageEntry(w))
  /\ update' = Rejected
  /\ UNCHANGED <<protected, promise, duals, dualsValid, phase, todo>>

EndProtect ==
  /\ phase = "protect" /\ todo = {}
  /\ Cardinality(main) <= Capacity
  /\ phase' = "idle"
  /\ UNCHANGED <<contents, protected, promise, duals, dualsValid, todo,
                 update>>

Init ==
  /\ main = {} /\ backup = {} /\ coverageCosts = EmptyBag
  /\ protected = {}
  /\ duals = [i \in UNION {Cover(c) : c \in Column} |-> 0]
  /\ dualsValid = FALSE
  /\ phase = "idle" /\ todo = {}
  /\ update = Rejected
  /\ promise = {}

\* The steps of a loop, which follow its start without a caller.
LoopStep ==
  \/ RepriceCandidate \/ EndReprice
  \/ ProtectPlan \/ DemoteExcess \/ EndProtect

Next ==
  \/ \E c \in Column : AdmitColumn(c)
  \/ \E d \in Duals : UpdateDuals(d)
  \/ BeginReprice
  \/ \E S \in Partition : BeginProtect(S)
  \/ LoopStep

Spec == Init /\ [][Next]_vars

-----------------------------------------------------------------------------
(* Properties.                                                             *)

\* Every variable stays in its type: the pools hold feasible columns, and a
\* loop's work list is empty unless the loop runs.
TypeOK ==
  /\ main \subseteq Column /\ IsFiniteSet(main)
  /\ backup \subseteq Column
  /\ protected = Keys(promise)
  /\ promise \subseteq Column /\ IsFiniteSet(promise)
  /\ dualsValid \in BOOLEAN
  /\ phase \in {"idle", "reprice", "protect"}
  /\ todo \subseteq Column /\ (phase = "idle" => todo = {})
  /\ update \in [main : BOOLEAN, backup : BOOLEAN, effective : BOOLEAN]

\* A customer sequence has one column in the whole pool: put_main erases the
\* backup column of its key, and a demoted or repriced column never meets an
\* older column of its key on the other side.
OneColumnPerKey ==
  \A a, b \in main \cup backup : Key(a) = Key(b) => a = b /\ ~(a \in main /\ a \in backup)

\* The main pool is above its capacity only inside protect_partition, and then
\* by at most the columns the protected partition brought.
CapacityBound ==
  Cardinality(main) <=
    IF phase = "protect" THEN Capacity + Cardinality(promise \ todo) ELSE Capacity

\* A main pool that has been filled stays full: the adaptive set-partitioning
\* trigger, which asks for a full pool, is not lost to an eviction.
StaysFull == [][Cardinality(main) >= Capacity => Cardinality(main') >= Capacity]_main

\* Every key of the protected partition has a column in the main pool, or its
\* plan is still to be visited by protect_partition: no sequence of admissions
\* and repricing passes evicts it.
ProtectedStay ==
  \A k \in protected : k \in Keys(main) \/ (phase = "protect" /\ k \in Keys(todo))

\* worst_main finds a column to evict whenever admit, reprice_backup or
\* protect_partition asks for one, so the logic_error it guards with is dead.
EvictionPossible ==
  /\ phase = "idle" =>
       \A c \in Column : NeedsEviction(c, backup) => Evictable(main \cup {c}) # {}
  /\ phase = "reprice" =>
       \A c \in todo : NeedsEviction(c, backup \ SameKey(backup, c))
                         => Evictable(main \cup {c}) # {}
  /\ phase = "protect" /\ todo = {} /\ Cardinality(main) > Capacity
       => Evictable(main) # {}

\* coverage_costs_ is exactly the multiset of main-pool costs per customer set,
\* so index_main_erase never throws and best_coverage_cost never answers from a
\* column that has left.
IndexExact ==
  \A cover \in {Cover(c) : c \in Column}, cost \in {c.cost : c \in Column} :
    Copies(coverageCosts, <<cover, cost>>) =
      Cardinality({m \in main : Cover(m) = cover /\ m.cost = cost})

\* At the end of a repricing pass the evictable part of the main pool is the
\* best choice: every backup column with a negative reduced cost ranks behind
\* all of it, and there is none while the main pool has room.
RepriceSelectsBest ==
  phase = "reprice" /\ todo = {} =>
    \A b \in backup : ReducedCost(b) < -Tol =>
      /\ Cardinality(main) = Capacity
      /\ \A m \in Evictable(main) : RankLess(m, b)

\* The column that stands for a protected plan costs at most 2 Tol more than
\* the plan did: one Tol when an incumbent within tolerance is kept, one more
\* when an exact column within tolerance replaces that one; drift stops there.
ProtectedStayCheap ==
  \A p \in promise \ todo :
    \A m \in main : Key(m) = Key(p) => m.cost <= p.cost + 2 * Tol

\* Admission and repricing never forget: with keep_evicted_in_backup a key that
\* has a column keeps one, and its cost rises only by the tolerance and only
\* for an exact column.
NothingForgotten ==
  [][phase # "protect" /\ KeepEvicted =>
       \A old \in main \cup backup :
         \E new \in main' \cup backup' :
           /\ Key(new) = Key(old)
           /\ \/ new = old
              \/ new.cost < old.cost - Tol
              \/ new.cost <= old.cost + Tol /\ new.exact /\ ~old.exact]_contents

\* A key leaves the main pool only as the worst evictable column: everything
\* evictable that remains, the newcomer included, ranks before it.
EvictsWorst ==
  [][\A m \in main : Key(m) \notin Keys(main') =>
       /\ Key(m) \notin protected
       /\ \A r \in main' : Key(r) \notin protected => RankLess(r, m)]_contents

=============================================================================
