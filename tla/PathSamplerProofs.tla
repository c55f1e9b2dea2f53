------------------------- MODULE PathSamplerProofs -------------------------
(***************************************************************************)
(* Proofs about the path sampler.                                          *)
(*                                                                         *)
(* Its scans (PathRepair), for all catalogues, costs, bounds and           *)
(* roundings: bounds and cut tails change nothing about what a scan finds, *)
(* and a repair ends in a plan no option improves.                         *)
(*                                                                         *)
(* Its catalogues (CatalogStore), for all sizes, budgets and failures of   *)
(* files: what is read is what was written, and the store implements the   *)
(* cache that has no files at all (CatalogCache).                          *)
(*                                                                         *)
(* And how a catalogue is made (PathCatalog), for all nets: no path is     *)
(* lost that nothing standing dominates, and the sampler that builds no    *)
(* catalogue draws from the same paths.                                    *)
(***************************************************************************)
EXTENDS PathRepair, CatalogStore, PathCatalog, FoldTheorems

Cost(m) == Fast(m[1], After(m))
Present == Full(1, plans[1])

\* The moves a scan looks for.
GoodMoves == {m \in Candidates : Better(Cost(m), Present)}

Typed ==
  /\ case \in Cases
  /\ plans \in [DOMAIN case.full -> PlansOf(case)]
  /\ task = "hints" => todo \subseteq DOMAIN case.hints

\* A scan stays on one route.
ScanTyped ==
  pc = "scan" =>
    /\ work \subseteq Alternatives /\ band \subseteq Alternatives
    /\ IsFiniteSet(band) /\ minimum \in Int
    /\ \A m, n \in work \cup band : m[1] = n[1]

\* What was passed over is out of the band for good.
ScanInv ==
  pc = "scan" /\ task \in Scans =>
    /\ work \subseteq Candidates /\ band \subseteq GoodMoves
    /\ \A m \in GoodMoves : m \in work \/ m \in band \/ minimum + Tolerance < Cost(m)
    /\ \A m \in band : minimum <= Cost(m) /\ Cost(m) <= minimum + Tolerance
    /\ band = {} => minimum = Infinity
    /\ band # {} => \E m \in band : Cost(m) = minimum

\* What a repair has refused is refused of the present plan.
RefusedInv ==
  /\ pc = "start" => refused = {}
  /\ pc = "stage" => task \notin Scans
  /\ task = "virtual" => refused = {}
  /\ task = "subset" => \A m \in refused : m[1] = 1 => ~Improves(m)

IInv == Typed /\ ScanTyped /\ ScanInv /\ RefusedInv /\ EndsRepaired
-----------------------------------------------------------------------------
(* Moves.                                                                  *)

\* A move names a route, a gap and another option of the gap.
LEMMA MoveParts ==
  ASSUME NEW m \in Alternatives
  PROVE  /\ m = <<m[1], m[2], m[3]>>
         /\ m[1] \in DOMAIN plans /\ m[2] \in case.eligible /\ m[3] \in 1..9
         /\ m[3] \in DOMAIN case.options[m[2]] /\ m[3] # plans[m[1]][m[2]]
BY DEF Alternatives

\* What is known of the case at hand.
LEMMA CaseFacts ==
  ASSUME Typed
  PROVE  /\ case.eligible \subseteq DOMAIN case.options /\ DOMAIN case.options \subseteq Nat
         /\ DOMAIN plans = DOMAIN case.full /\ 1 \in DOMAIN plans
         /\ \A r \in DOMAIN plans : plans[r] \in PlansOf(case)
         /\ \A r \in DOMAIN plans, c \in PlansOf(case) :
              case.full[r][c] \in Int /\ case.fast[r][c] \in Int /\ case.lower[r][c] \in Int
         /\ \A r \in DOMAIN plans, c \in PlansOf(case) :
              case.lower[r][c] <= case.fast[r][c] /\ case.fast[r][c] < Infinity
         /\ Tolerance \in Nat /\ Infinity \in Nat
<1>1. case \in Cases
  BY DEF Typed
<1>2. /\ case.eligible \subseteq DOMAIN case.options /\ DOMAIN case.options \subseteq Nat
      /\ 1 \in DOMAIN case.full
      /\ \A r \in DOMAIN case.full : DOMAIN case.full[r] = PlansOf(case)
  BY <1>1, CaseAssumption
<1>3. DOMAIN plans = DOMAIN case.full /\ \A r \in DOMAIN plans : plans[r] \in PlansOf(case)
  BY DEF Typed
<1>4. \A r \in DOMAIN plans, c \in PlansOf(case) :
        case.full[r][c] \in Int /\ case.fast[r][c] \in Int /\ case.lower[r][c] \in Int
  <2>1. \A r \in DOMAIN case.full : \A c \in PlansOf(case) :
          {case.full[r][c], case.fast[r][c], case.lower[r][c]} \subseteq Int
    BY <1>1, CaseAssumption
  <2> QED BY <1>3, <2>1
<1>5. \A r \in DOMAIN plans, c \in PlansOf(case) :
        case.lower[r][c] <= case.fast[r][c] /\ case.fast[r][c] < Infinity
  BY <1>1, <1>2, <1>3, BoundsAndRounding
<1> QED BY <1>2, <1>3, <1>4, <1>5, RepairAssumption

\* A move leads to a plan of the case.
LEMMA AfterIsPlan ==
  ASSUME Typed, NEW r \in DOMAIN plans, NEW g \in DOMAIN case.options,
         NEW o \in 1..9, o \in DOMAIN case.options[g]
  PROVE  [plans[r] EXCEPT ![g] = o] \in PlansOf(case)
BY CaseFacts DEF PlansOf

\* Its costs are integers, the bound below that of the labels.
LEMMA MoveCosts ==
  ASSUME Typed, NEW m \in Alternatives
  PROVE  /\ After(m) \in PlansOf(case) /\ m[1] \in DOMAIN plans
         /\ Cost(m) \in Int /\ Full(m[1], After(m)) \in Int
         /\ case.lower[m[1]][After(m)] \in Int
         /\ case.lower[m[1]][After(m)] <= Cost(m)
         /\ Cost(m) < Infinity
<1>1. After(m) \in PlansOf(case) /\ m[1] \in DOMAIN plans
  <2>1. /\ m[1] \in DOMAIN plans /\ m[2] \in DOMAIN case.options
        /\ m[3] \in 1..9 /\ m[3] \in DOMAIN case.options[m[2]]
    BY MoveParts, CaseFacts
  <2> QED BY <2>1, AfterIsPlan DEF After
<1> QED BY <1>1, CaseFacts DEF Cost, Fast, Full

\* Different moves on a route lead to different plans.
LEMMA MovesDiffer ==
  ASSUME Typed, NEW m \in Alternatives, NEW n \in Alternatives,
         m[1] = n[1], After(m) = After(n)
  PROVE  m = n
<1>1. /\ m = <<m[1], m[2], m[3]>> /\ n = <<n[1], n[2], n[3]>>
      /\ m[2] \in DOMAIN plans[m[1]] /\ n[2] \in DOMAIN plans[m[1]]
      /\ m[3] # plans[m[1]][m[2]]
  BY MoveParts, CaseFacts DEF PlansOf
<1>2. After(m)[m[2]] = m[3] /\ After(n)[n[2]] = n[3]
  BY <1>1 DEF After
<1>3. m[2] # n[2] => After(n)[m[2]] = plans[m[1]][m[2]]
  BY <1>1 DEF After
<1>4. m[2] = n[2]
  BY <1>1, <1>2, <1>3
<1> QED BY <1>1, <1>2, <1>4

\* The bound grows along the catalogue of a gap.
LEMMA BoundGrows ==
  ASSUME Typed, NEW r \in DOMAIN plans, NEW g \in case.eligible,
         NEW i \in DOMAIN case.options[g], NEW j \in DOMAIN case.options[g], i <= j
  PROVE  case.lower[r][[plans[r] EXCEPT ![g] = i]] <= case.lower[r][[plans[r] EXCEPT ![g] = j]]
<1>1. PICK n \in 1..9 : DOMAIN case.options[g] = 1..n
  BY CaseFacts, CaseAssumption DEF Typed
<1>2. PICK p : p = [x \in 1..n |-> [plans[r] EXCEPT ![g] = x]]
  OBVIOUS
<1>3. \A x \in 1..n : p[x] = [plans[r] EXCEPT ![g] = x] /\ p[x] \in PlansOf(case)
  <2> SUFFICES ASSUME NEW x \in 1..n
               PROVE  [plans[r] EXCEPT ![g] = x] \in PlansOf(case)
    BY <1>2
  <2>1. g \in DOMAIN case.options /\ x \in 1..9
    BY <1>1, CaseFacts
  <2> QED BY <1>1, <2>1, AfterIsPlan
<1>4. PICK low : low = [x \in 1..n |-> case.lower[r][p[x]]]
  OBVIOUS
<1>5. \A x \in 1..n : low[x] = case.lower[r][p[x]] /\ low[x] \in Int
  BY <1>3, <1>4, CaseFacts
<1>6. ASSUME NEW x \in 1..n, x + 1 \in 1..n
      PROVE  low[x] <= low[x + 1]
  <2>1. g \in DOMAIN plans[r]
    BY CaseFacts DEF PlansOf
  <2>2. p[x][g] = x /\ [p[x] EXCEPT ![g] = @ + 1] = p[x + 1]
    BY <1>3, <1>6, <2>1
  <2>3. /\ case \in Cases /\ r \in DOMAIN case.full /\ p[x] \in DOMAIN case.full[r]
    BY <1>3, CaseFacts, CaseAssumption DEF Typed
  <2>4. p[x][g] + 1 \in DOMAIN case.options[g]
    BY <1>1, <1>6, <2>2
  <2>5. case.lower[r][p[x]] <= case.lower[r][[p[x] EXCEPT ![g] = @ + 1]]
    BY <2>3, <2>4, BoundsAndRounding
  <2> QED BY <1>5, <1>6, <2>2, <2>5
<1>7. i \in 1..n /\ j \in 1..n
  BY <1>1
<1>8. PICK K : K = {k \in 0..j - i : low[i] <= low[i + k]}
  OBVIOUS
<1>9. 0 \in K
  BY <1>5, <1>7, <1>8
<1>10. \A k \in 1..j - i : k - 1 \in K => k \in K
  <2> SUFFICES ASSUME NEW k \in 1..j - i, k - 1 \in K
               PROVE  low[i] <= low[i + k] /\ k \in 0..j - i
    BY <1>8
  <2>1. /\ i + (k - 1) \in 1..n /\ (i + (k - 1)) + 1 \in 1..n
        /\ (i + (k - 1)) + 1 = i + k /\ k \in 0..j - i
    BY <1>7
  <2>2. low[i] <= low[i + (k - 1)]
    BY <1>8
  <2>3. low[i + (k - 1)] <= low[i + k]
    BY <1>6, <2>1
  <2> QED BY <1>5, <1>7, <2>1, <2>2, <2>3
<1>11. j - i \in Nat
  BY <1>7
<1>12. j - i \in K
  <2>1. \A k \in 0..j - i : k \in K
    BY <1>9, <1>10, <1>11, UpTo
  <2> QED BY <1>11, <2>1
<1>13. low[i] <= low[j]
  <2>1. i + (j - i) = j
    BY <1>7
  <2> QED BY <1>8, <1>12, <2>1
<1> QED BY <1>3, <1>5, <1>7, <1>13

\* The next move of a scan is the first of those it has still to visit.
LEMMA NextMoveIsFirst ==
  ASSUME Typed, ScanTyped, Scanning
  PROVE  /\ NextMove \in work /\ NextMove \in Alternatives
         /\ \A n \in work \ {NextMove} : Before(NextMove, n)
<1>1. /\ work \subseteq Alternatives /\ work # {}
      /\ \A m, n \in work : m[1] = n[1]
  BY DEF ScanTyped, Scanning
<1>2. \A m \in work : m = <<m[1], m[2], m[3]>> /\ m[2] \in Nat /\ m[3] \in 1..9
  BY <1>1, MoveParts, CaseFacts
<1>3. PICK f : f = [m \in work |-> m[2] * 10 + m[3]]
  OBVIOUS
<1>4. \A m \in work : f[m] = m[2] * 10 + m[3] /\ f[m] \in Nat
  BY <1>2, <1>3
<1>5. PICK T : T = {f[m] : m \in work}
  OBVIOUS
<1>6. T \in SUBSET Nat /\ T # {}
  BY <1>1, <1>4, <1>5
<1>7. \E t \in T : \A u \in T : t <= u
  BY <1>6, SmallestNumber
<1>8. PICK m \in work : \A n \in work : f[m] <= f[n]
  BY <1>5, <1>7
<1>9. ASSUME NEW n \in work \ {m}
      PROVE  Before(m, n)
  <2>1. m[2] * 10 + m[3] <= n[2] * 10 + n[3]
    BY <1>4, <1>8
  <2>2. /\ m[2] \in Nat /\ n[2] \in Nat /\ m[3] \in 1..9 /\ n[3] \in 1..9
    BY <1>2
  <2>3. m[2] < n[2] \/ (m[2] = n[2] /\ m[3] <= n[3])
    BY <2>1, <2>2
  <2>4. ~(m[2] = n[2] /\ m[3] = n[3])
    BY <1>1, <1>2
  <2> QED BY <2>2, <2>3, <2>4 DEF Before
<1>10. NextMove \in work /\ \A n \in work \ {NextMove} : Before(NextMove, n)
  BY <1>9 DEF NextMove
<1> QED BY <1>1, <1>10

\* The move a scan ends with is one of its band.
LEMMA FirstOfBand ==
  ASSUME Typed, ScanTyped, pc = "scan", band # {}
  PROVE  FirstByVisits(band) \in band /\ FirstByVisits(band) \in Alternatives
<1>1. /\ band \subseteq Alternatives /\ IsFiniteSet(band)
      /\ \A m, n \in band : m[1] = n[1]
  BY DEF ScanTyped
<1>2. PICK key : key = [m \in band |-> VisitsOf(case, After(m))]
  OBVIOUS
<1>3. \A m \in band : key[m] = Visits(m)
  BY <1>2 DEF Visits
<1>4. TellsApart(key, band)
  <2>1. ASSUME NEW m \in band
        PROVE  key[m] \in Seq(Int)
    <3>1. After(m) \in PlansOf(case) /\ case \in Cases
      BY <1>1, MoveCosts DEF Typed
    <3> QED BY <1>2, <3>1, VisitsTellPlansApart
  <2>2. ASSUME NEW m \in band, NEW n \in band, key[m] = key[n]
        PROVE  m = n
    <3>1. After(m) \in PlansOf(case) /\ After(n) \in PlansOf(case) /\ case \in Cases
      BY <1>1, MoveCosts DEF Typed
    <3>2. After(m) = After(n)
      BY <1>2, <2>2, <3>1, VisitsTellPlansApart
    <3> QED BY <1>1, <3>2, MovesDiffer
  <2> QED BY <2>1, <2>2 DEF TellsApart
<1>5. \E m \in band : \A n \in band \ {m} : LexLess(key[m], key[n])
  BY <1>1, <1>4, LeastByKey
<1>6. \E m \in band : \A n \in band \ {m} : LexLess(Visits(m), Visits(n))
  BY <1>3, <1>5
<1>7. FirstByVisits(band) \in band
  BY <1>6 DEF FirstByVisits, Least
<1> QED BY <1>1, <1>7
-----------------------------------------------------------------------------
(* StepsInto of a scan.                                                        *)

\* As long as plans and refusals stay, so do the moves and their costs.
LEMMA MovesStay ==
  ASSUME UNCHANGED <<question, plans, refused>>
  PROVE  /\ Alternatives' = Alternatives /\ Candidates' = Candidates
         /\ GoodMoves' = GoodMoves
         /\ \A m : Cost(m)' = Cost(m) /\ Improves(m)' = Improves(m)
<1>1. case' = case /\ plans' = plans /\ refused' = refused
  BY DEF question
<1>2. Alternatives' = Alternatives
  BY <1>1 DEF Alternatives
<1>3. Candidates' = Candidates
  BY <1>1, <1>2 DEF Candidates
<1>4. \A m : Cost(m)' = Cost(m) /\ Improves(m)' = Improves(m)
  BY <1>1 DEF Cost, Fast, Full, After, Improves
<1>5. Present' = Present
  BY <1>1 DEF Present, Full
<1>6. GoodMoves' = GoodMoves
  BY <1>3, <1>4, <1>5 DEF GoodMoves
<1> QED BY <1>2, <1>3, <1>4, <1>6

\* Hopeless moves are not good, or too dear for the band.
LEMMA HopelessLose ==
  ASSUME Typed, ScanTyped, Scanning, NEW m \in Alternatives, Hopeless(m), m[1] = 1
  PROVE  m \in GoodMoves => minimum + Tolerance < Cost(m)
<1>1. /\ case.lower[m[1]][After(m)] \in Int /\ Cost(m) \in Int
      /\ case.lower[m[1]][After(m)] <= Cost(m)
  BY MoveCosts
<1>2. Present \in Int /\ Tolerance \in Nat /\ minimum \in Int
  BY CaseFacts DEF Present, Full, ScanTyped, Scanning
<1>3. CASE ~Better(case.lower[m[1]][After(m)], Full(m[1], plans[m[1]]))
  <2>1. ~Better(Cost(m), Present)
    <3>1. ~Better(case.lower[m[1]][After(m)], Present)
      BY <1>3 DEF Present
    <3> QED BY <1>1, <1>2, <3>1 DEF Better
  <2> QED BY <2>1 DEF GoodMoves
<1>4. CASE case.lower[m[1]][After(m)] > minimum + Tolerance
  BY <1>1, <1>2, <1>4
<1> QED BY <1>3, <1>4 DEF Hopeless

\* With a hopeless move goes all that its bound rules out.
LEMMA TailLoses ==
  ASSUME Typed, ScanTyped, ScanInv, Scanning, task \in Scans, Hopeless(NextMove),
         NEW n \in work, n[2] = NextMove[2]
  PROVE  Hopeless(n)
<1> DEFINE h == NextMove
<1>1. h \in work /\ h \in Alternatives /\ (n # h => Before(h, n)) /\ n \in Alternatives
  BY NextMoveIsFirst DEF ScanTyped, Scanning
<1>2. h[1] = n[1]
  BY <1>1 DEF ScanTyped, Scanning
<1>3. /\ h[2] \in case.eligible /\ h[2] \in Nat
      /\ h[3] \in 1..9 /\ n[3] \in 1..9 /\ h[1] \in DOMAIN plans
      /\ h[3] \in DOMAIN case.options[h[2]] /\ n[3] \in DOMAIN case.options[h[2]]
  BY <1>1, MoveParts, CaseFacts
<1>4. h[3] <= n[3]
  BY <1>1, <1>3 DEF Before
<1>5. case.lower[h[1]][After(h)] <= case.lower[n[1]][After(n)]
  BY <1>2, <1>3, <1>4, BoundGrows DEF After
<1>6. /\ case.lower[h[1]][After(h)] \in Int /\ case.lower[n[1]][After(n)] \in Int
      /\ Full(h[1], plans[h[1]]) \in Int /\ Full(n[1], plans[n[1]]) = Full(h[1], plans[h[1]])
      /\ minimum \in Int /\ Tolerance \in Nat
  BY <1>1, <1>2, <1>3, MoveCosts, CaseFacts DEF Full, ScanTyped, Scanning
<1> QED BY <1>5, <1>6 DEF Hopeless, Better

PassedOver(left) ==
  left \subseteq work /\ \A m \in work \ left : m \in GoodMoves => minimum + Tolerance < Cost(m)

\* Passing over moves that are not good, or too dear, keeps the scan.
LEMMA PassingKeepsScan ==
  ASSUME Typed, ScanTyped, ScanInv, Scanning, NEW left,
         left \subseteq work, task \in Scans => PassedOver(left),
         work' = left, UNCHANGED <<question, pc, plans, minimum, band, refused>>
  PROVE  ScanTyped' /\ ScanInv'
<1>1. /\ Alternatives' = Alternatives /\ Candidates' = Candidates /\ GoodMoves' = GoodMoves
      /\ \A m : Cost(m)' = Cost(m)
  BY MovesStay
<1>2. pc' = "scan" /\ pc = "scan" /\ task' = task
  BY DEF Scanning, question
<1>3. ScanTyped'
  BY <1>1, <1>2 DEF ScanTyped
<1>4. ScanInv'
  BY <1>1, <1>2 DEF ScanInv, PassedOver
<1> QED BY <1>3, <1>4

\* PruneOne and PruneTail keep the scan.
LEMMA PruneKept ==
  ASSUME Typed, ScanTyped, ScanInv, PruneOne \/ PruneTail
  PROVE  ScanTyped' /\ ScanInv'
<1>1. ASSUME NEW left, Scanning, task \in Scans, left \subseteq work,
             \A m \in work \ left : Hopeless(m)
      PROVE  PassedOver(left)
  <2> SUFFICES ASSUME NEW m \in work \ left, m \in GoodMoves
               PROVE  minimum + Tolerance < Cost(m)
    BY <1>1 DEF PassedOver
  <2>1. m \in Alternatives /\ m[1] = 1 /\ Hopeless(m)
    BY <1>1 DEF GoodMoves, Candidates
  <2> QED BY <1>1, <2>1, HopelessLose
<1>2. CASE PruneOne
  <2>1. /\ Scanning /\ Hopeless(NextMove) /\ work' = work \ {NextMove}
        /\ UNCHANGED <<question, pc, plans, minimum, band, refused>>
    BY <1>2 DEF PruneOne
  <2>2. work \ {NextMove} \subseteq work /\ \A m \in work \ (work \ {NextMove}) : Hopeless(m)
    BY <2>1
  <2> QED BY <1>1, <2>1, <2>2, PassingKeepsScan
<1>3. CASE PruneTail
  <2>1. /\ Scanning /\ Hopeless(NextMove) /\ work' = {m \in work : m[2] # NextMove[2]}
        /\ UNCHANGED <<question, pc, plans, minimum, band, refused>>
    BY <1>3 DEF PruneTail
  <2>2. PICK left : left = {m \in work : m[2] # NextMove[2]}
    OBVIOUS
  <2>3. left \subseteq work /\ (task \in Scans => \A m \in work \ left : Hopeless(m))
    BY <2>1, <2>2, TailLoses
  <2> QED BY <1>1, <2>1, <2>2, <2>3, PassingKeepsScan
<1> QED BY <1>2, <1>3

\* The lesser of two numbers.
LEMMA LesserOfTwo ==
  ASSUME NEW a \in Int, NEW b \in Int
  PROVE  Min({a, b}) = IF a <= b THEN a ELSE b
<1>1. \E x \in {a, b} : \A y \in {a, b} : x <= y
  OBVIOUS
<1>2. Min({a, b}) \in {a, b} /\ \A y \in {a, b} : Min({a, b}) <= y
  BY <1>1 DEF Min
<1> QED BY <1>2

\* Score keeps the scan: a move that is scored is in the band, or not good, or
\* too dear.
LEMMA ScoreKept ==
  ASSUME Typed, ScanTyped, ScanInv, Score
  PROVE  ScanTyped' /\ ScanInv'
<1> DEFINE h == NextMove
           left == work \ {h}
           Poor == ~Better(Cost(h), Full(h[1], plans[h[1]])) \/ Cost(h) > minimum + Tolerance
<1>1. /\ Scanning /\ work' = left
      /\ UNCHANGED <<question, pc, plans, refused>>
      /\ pc = "scan" /\ pc' = "scan" /\ task' = task
  BY DEF Score, Scanning, question
<1>2. /\ h \in work /\ h \in Alternatives /\ Cost(h) \in Int /\ minimum \in Int
      /\ Tolerance \in Nat /\ Cost(h) < Infinity
      /\ task \in Scans => h[1] = 1 /\ h \in Candidates
      /\ left \subseteq work
  BY <1>1, NextMoveIsFirst, MoveCosts, CaseFacts DEF ScanTyped, ScanInv, Candidates
<1>3. CASE Poor
  <2>1. UNCHANGED <<minimum, band>>
    BY <1>3 DEF Score, Cost
  <2>2. task \in Scans => PassedOver(left)
    BY <1>2, <1>3 DEF PassedOver, GoodMoves, Present
  <2> HIDE DEF left
  <2> QED BY <1>1, <1>2, <2>1, <2>2, PassingKeepsScan
<1>4. CASE ~Poor
  <2>1. /\ minimum' = Min({minimum, Cost(h)})
        /\ band' = {n \in band \cup {h} : Cost(n) <= Min({minimum, Cost(h)}) + Tolerance}
    BY <1>4 DEF Score, Cost
  <2>2. minimum' = IF minimum <= Cost(h) THEN minimum ELSE Cost(h)
    BY <1>2, <2>1, LesserOfTwo
  <2>3. band' = {n \in band \cup {h} : Cost(n) <= minimum' + Tolerance}
    BY <2>1
  <2>4. /\ Alternatives' = Alternatives /\ Candidates' = Candidates /\ GoodMoves' = GoodMoves
        /\ \A m : Cost(m)' = Cost(m)
    BY <1>1, MovesStay
  <2>5. ScanTyped'
    <3>1. IsFiniteSet(band')
      <4>1. IsFiniteSet(band)
        BY <1>1 DEF ScanTyped
      <4>2. IsFiniteSet(band \cup {h}) /\ band' \subseteq band \cup {h}
        BY <2>3, <4>1, FS_AddElement
      <4> QED BY <4>2, FS_Subset
    <3>2. minimum' \in Int
      BY <1>2, <2>2
    <3> QED BY <1>1, <1>2, <2>3, <2>4, <3>1, <3>2 DEF ScanTyped
  <2>6. ASSUME task \in Scans
        PROVE  ScanInv'
    <3>1. h \in GoodMoves /\ Cost(h) <= minimum + Tolerance
      BY <1>2, <1>4, <2>6 DEF GoodMoves, Present
    <3>2. \A m \in GoodMoves : Cost(m) \in Int
      BY MoveCosts DEF GoodMoves, Candidates
    <3>3. minimum' \in Int /\ minimum' <= minimum /\ minimum' <= Cost(h)
      BY <1>2, <2>2
    <3>4. work \subseteq Candidates /\ band \subseteq GoodMoves
      BY <1>1, <2>6 DEF ScanInv
    <3>5. work' \subseteq Candidates /\ band' \subseteq GoodMoves
      BY <1>1, <1>2, <2>3, <3>1, <3>4
    <3>6. ASSUME NEW m \in GoodMoves, m \notin work', m \notin band'
          PROVE  minimum' + Tolerance < Cost(m)
      <4>1. CASE m \in band \cup {h}
        BY <1>2, <2>3, <3>2, <3>3, <3>6, <4>1
      <4>2. CASE m \notin band \cup {h}
        <5>1. m \notin work /\ m \notin band
          BY <1>1, <3>6, <4>2
        <5>2. minimum + Tolerance < Cost(m)
          BY <1>1, <2>6, <5>1 DEF ScanInv
        <5> QED BY <1>2, <3>2, <3>3, <5>2
      <4> QED BY <4>1, <4>2
    <3>7. ASSUME NEW m \in band'
          PROVE  minimum' <= Cost(m) /\ Cost(m) <= minimum' + Tolerance
      <4>1. m \in band => minimum <= Cost(m)
        BY <1>1, <2>6 DEF ScanInv
      <4>2. Cost(m) \in Int
        BY <3>2, <3>5
      <4> QED BY <1>2, <2>3, <3>3, <3>7, <4>1, <4>2
    <3>8. \E m \in band' : Cost(m) = minimum'
      <4>1. CASE minimum <= Cost(h)
        <5>1. minimum' = minimum
          BY <2>2, <4>1
        <5>2. band # {}
          <6> SUFFICES ASSUME band = {}
                       PROVE  FALSE
            OBVIOUS
          <6>1. minimum = Infinity
            BY <1>1, <2>6 DEF ScanInv
          <6> QED BY <1>2, <4>1, <6>1, CaseFacts
        <5>3. PICK m \in band : Cost(m) = minimum
          BY <1>1, <2>6, <5>2 DEF ScanInv
        <5>4. m \in band'
          BY <1>2, <2>3, <5>1, <5>3
        <5> QED BY <5>1, <5>3, <5>4
      <4>2. CASE ~(minimum <= Cost(h))
        <5>1. minimum' = Cost(h) /\ h \in band'
          BY <1>2, <2>2, <2>3, <4>2
        <5> QED BY <5>1
      <4> QED BY <4>1, <4>2
    <3>9. band' # {}
      BY <3>8
    <3> QED BY <1>1, <2>4, <3>5, <3>6, <3>7, <3>8, <3>9 DEF ScanInv
  <2>7. task \notin Scans => ScanInv'
    BY <1>1 DEF ScanInv, Scans
  <2> QED BY <2>5, <2>6, <2>7
<1> QED BY <1>3, <1>4

\* A scan starts with all its moves, and nothing in its band.
LEMMA FreshScan ==
  ASSUME Typed, NEW moves, StartScan(moves), moves \subseteq Alternatives,
         \A m, n \in moves : m[1] = n[1], task \in Scans => moves = Candidates,
         UNCHANGED <<question, plans, refused>>
  PROVE  ScanTyped' /\ ScanInv'
<1>1. /\ Alternatives' = Alternatives /\ Candidates' = Candidates /\ GoodMoves' = GoodMoves
      /\ task' = task
  BY MovesStay DEF question
<1>2. work' = moves /\ minimum' = Infinity /\ band' = {}
  BY DEF StartScan
<1>3. ScanTyped'
  <2>1. IsFiniteSet({}) /\ Infinity \in Int
    BY FS_EmptySet, RepairAssumption
  <2> QED BY <1>1, <1>2, <2>1 DEF ScanTyped
<1>4. ScanInv'
  BY <1>1, <1>2 DEF ScanInv, GoodMoves
<1> QED BY <1>3, <1>4

\* Start, Rescan and ScanGap start their scans with what they are meant to visit.
LEMMA ScansStart ==
  ASSUME IInv, Start \/ Rescan \/ ScanGap
  PROVE  ScanTyped' /\ ScanInv'
<1> USE DEF IInv
<1>1. CASE Start
  <2>1. CASE task \in Scans
    <3>1. /\ StartScan({m \in Alternatives : m[1] = 1}) /\ UNCHANGED <<question, plans, refused>>
          /\ refused = {}
      BY <1>1, <2>1 DEF Start, RefusedInv
    <3>2. PICK moves : moves = {m \in Alternatives : m[1] = 1}
      OBVIOUS
    <3>3. /\ moves = Candidates /\ moves \subseteq Alternatives
          /\ \A m, n \in moves : m[1] = n[1]
      BY <3>1, <3>2 DEF Candidates
    <3> QED BY <3>1, <3>2, <3>3, FreshScan
  <2>2. CASE task \notin Scans
    <3>1. pc' = "stage"
      BY <1>1, <2>2 DEF Start
    <3> QED BY <3>1 DEF ScanTyped, ScanInv
  <2> QED BY <2>1, <2>2
<1>2. CASE Rescan
  <2>1. /\ StartScan({m \in Alternatives : m[1] = 1} \ refused)
        /\ UNCHANGED <<question, plans, refused>>
    BY <1>2 DEF Rescan
  <2>2. PICK moves : moves = {m \in Alternatives : m[1] = 1} \ refused
    OBVIOUS
  <2>3. /\ moves = Candidates /\ moves \subseteq Alternatives
        /\ \A m, n \in moves : m[1] = n[1]
    BY <2>2 DEF Candidates
  <2> QED BY <2>1, <2>2, <2>3, FreshScan
<1>3. CASE ScanGap
  <2>1. PICK place \in todo : StartScan({m \in Alternatives : <<m[1], m[2]>> = place})
    BY <1>3 DEF ScanGap
  <2>2. task \notin Scans /\ UNCHANGED <<question, plans, refused>>
    BY <1>3 DEF ScanGap, AtStage, Scans
  <2>3. PICK moves : moves = {m \in Alternatives : <<m[1], m[2]>> = place}
    OBVIOUS
  <2>4. moves \subseteq Alternatives /\ \A m, n \in moves : m[1] = n[1]
    BY <2>3
  <2> QED BY <2>1, <2>2, <2>3, <2>4, FreshScan
<1> QED BY <1>1, <1>2, <1>3

\* Every step keeps what a scan knows.
LEMMA ScanKept ==
  ASSUME IInv, [Next]_vars
  PROVE  ScanTyped' /\ ScanInv'
<1>1. CASE Start \/ Rescan \/ ScanGap
  BY <1>1, ScansStart
<1>2. CASE PruneOne \/ PruneTail \/ Score
  BY <1>2, PruneKept, ScoreKept DEF IInv
<1>3. CASE FoundNothing \/ FoundBetter \/ FoundRefused
  <2>1. pc' # "scan"
    BY <1>3 DEF FoundNothing, FoundBetter, FoundRefused, End
  <2> QED BY <2>1 DEF ScanTyped, ScanInv
<1>4. CASE TryRandom \/ TryHint \/ StageOver \/ Abandon
  <2>1. pc' # "scan"
    BY <1>4 DEF TryRandom, TryHint, AtStage, StageOver, Abandon, End
  <2> QED BY <2>1 DEF ScanTyped, ScanInv
<1>5. CASE Expire \/ UNCHANGED vars
  <2>1. UNCHANGED <<question, plans, refused>> /\ UNCHANGED <<pc, work, minimum, band>>
    BY <1>5 DEF Expire, vars, question, scan
  <2>2. /\ Alternatives' = Alternatives /\ Candidates' = Candidates /\ GoodMoves' = GoodMoves
        /\ task' = task /\ \A m : Cost(m)' = Cost(m)
    BY <2>1, MovesStay DEF question
  <2>3. ScanTyped'
    BY <2>1, <2>2 DEF ScanTyped, IInv
  <2>4. ScanInv'
    BY <2>1, <2>2 DEF ScanInv, IInv
  <2> QED BY <2>3, <2>4
<1> QED BY <1>1, <1>2, <1>3, <1>4, <1>5 DEF Next, Advance
-----------------------------------------------------------------------------
(* StepsInto that take or refuse a move.                                       *)

\* A scan that found nothing has no good move.
LEMMA NothingGood ==
  ASSUME IInv, Scanned, task \in Scans, band = {}
  PROVE  GoodMoves = {}
<1> SUFFICES ASSUME NEW m \in GoodMoves
             PROVE  FALSE
  OBVIOUS
<1>1. minimum = Infinity /\ minimum + Tolerance < Cost(m)
  BY DEF IInv, ScanInv, Scanned
<1>2. m \in Alternatives
  BY DEF GoodMoves, Candidates
<1>3. Cost(m) \in Int /\ Cost(m) < Infinity
  BY <1>2, MoveCosts DEF IInv
<1> QED BY <1>1, <1>3, CaseFacts DEF IInv

\* Taking a valid option keeps the plans valid.
LEMMA TakeTyped ==
  ASSUME Typed, NEW m, m[1] \in DOMAIN plans, After(m) \in PlansOf(case), Take(m),
         UNCHANGED question, todo' \subseteq todo
  PROVE  Typed'
<1>1. plans' = [plans EXCEPT ![m[1]] = After(m)] /\ case' = case /\ task' = task
  BY DEF Take, question
<1>2. plans' \in [DOMAIN case.full -> PlansOf(case)]
  BY <1>1 DEF Typed
<1> QED BY <1>1, <1>2 DEF Typed

\* A hint that is tried is an option of its gap.
LEMMA HintIsValid ==
  ASSUME Typed, TryHint
  PROVE  LET m == case.hints[Min(todo)]
         IN  m[1] \in DOMAIN plans /\ After(m) \in PlansOf(case)
<1>1. task = "hints" /\ todo # {}
  BY DEF TryHint, AtStage
<1>2. todo \subseteq DOMAIN case.hints /\ todo \in SUBSET Nat
  BY <1>1, CaseAssumption DEF Typed
<1>3. \E x \in todo : \A y \in todo : x <= y
  BY <1>1, <1>2, SmallestNumber
<1>4. Min(todo) \in todo
  BY <1>3 DEF Min
<1>5. PICK h : h = Min(todo)
  OBVIOUS
<1>6. h \in DOMAIN case.hints /\ case \in Cases
  BY <1>2, <1>4, <1>5 DEF Typed
<1>7. /\ case.hints[h][1] \in DOMAIN plans /\ case.hints[h][2] \in DOMAIN case.options
      /\ case.hints[h][3] \in DOMAIN case.options[case.hints[h][2]]
  BY <1>6, CaseAssumption, CaseFacts
<1>8. case.hints[h][3] \in 1..9
  BY <1>6, <1>7, CaseAssumption
<1>9. After(case.hints[h]) \in PlansOf(case)
  BY <1>7, <1>8, AfterIsPlan DEF After
<1> QED BY <1>5, <1>7, <1>9

\* Every step keeps the plans made of options of the case.
LEMMA TypedKept ==
  ASSUME IInv, [Next]_vars
  PROVE  Typed'
<1> USE DEF IInv
<1>1. CASE Start
  BY <1>1 DEF Start, Typed, question, Scans
<1>2. CASE PruneOne \/ PruneTail \/ Score \/ Rescan
  BY <1>2 DEF PruneOne, PruneTail, Score, Rescan, Typed, question
<1>3. CASE FoundNothing \/ FoundRefused
  BY <1>3 DEF FoundNothing, FoundRefused, End, Typed, question
<1>4. CASE FoundBetter
  <2>1. Typed /\ ScanTyped /\ pc = "scan" /\ band # {}
    BY <1>4 DEF FoundBetter, Scanned
  <2>2. PICK m : m = FirstByVisits(band)
    OBVIOUS
  <2>3. Take(m) /\ UNCHANGED <<question, todo>>
    BY <1>4, <2>2 DEF FoundBetter
  <2>4. m \in Alternatives
    BY <2>1, <2>2, FirstOfBand
  <2>5. m[1] \in DOMAIN plans /\ After(m) \in PlansOf(case)
    BY <2>1, <2>4, MoveCosts
  <2> QED BY <2>1, <2>3, <2>5, TakeTyped
<1>5. CASE ScanGap
  BY <1>5 DEF ScanGap, AtStage, Typed, question
<1>6. CASE TryRandom
  <2>1. PICK m \in Alternatives \ refused : Take(m) \/ UNCHANGED plans
    BY <1>6 DEF TryRandom
  <2>2. UNCHANGED <<question, todo>>
    BY <1>6 DEF TryRandom
  <2>3. CASE Take(m)
    <3>1. m[1] \in DOMAIN plans /\ After(m) \in PlansOf(case)
      BY <2>1, MoveCosts
    <3> QED BY <2>2, <2>3, <3>1, TakeTyped
  <2>4. CASE UNCHANGED plans
    BY <2>2, <2>4 DEF Typed, question
  <2> QED BY <2>1, <2>3, <2>4
<1>7. CASE TryHint
  <2>1. PICK m : m = case.hints[Min(todo)]
    OBVIOUS
  <2>2. /\ Take(m) \/ UNCHANGED plans
        /\ UNCHANGED question /\ todo' \subseteq todo
    BY <1>7, <2>1 DEF TryHint
  <2>3. CASE Take(m)
    BY <1>7, <2>1, <2>2, <2>3, HintIsValid, TakeTyped
  <2>4. CASE UNCHANGED plans
    BY <2>2, <2>4 DEF Typed, question
  <2> QED BY <2>2, <2>3, <2>4
<1>8. CASE StageOver \/ Abandon
  BY <1>8 DEF StageOver, Abandon, End, Typed, question
<1>9. CASE Expire \/ UNCHANGED vars
  BY <1>9 DEF Expire, vars, Typed, question
<1> QED BY <1>1, <1>2, <1>3, <1>4, <1>5, <1>6, <1>7, <1>8, <1>9 DEF Next, Advance

\* The end of a repair.
RepairEnds == RefusedInv /\ EndsRepaired

\* StepsInto that leave plans and refusals alone, other than the ends of scans.
LEMMA QuietKeepsEnd ==
  ASSUME IInv, UNCHANGED <<question, plans, refused>>,
         pc' = "start" => pc = "start",
         pc' = "stage" => task \notin Scans,
         pc' = "done" /\ ~late' => (pc = "done" /\ ~late) \/ task \notin Scans
  PROVE  RepairEnds'
<1>1. Alternatives' = Alternatives /\ task' = task /\ \A m : Improves(m)' = Improves(m)
  BY MovesStay DEF question
<1>2. RefusedInv'
  BY <1>1 DEF IInv, RefusedInv, Scans
<1>3. EndsRepaired'
  <2>1. \A m : Fast(1, After(m))' = Fast(1, After(m)) /\ Full(1, plans[1])' = Full(1, plans[1])
    BY DEF question, Fast, After, Full
  <2> QED BY <1>1, <2>1 DEF IInv, EndsRepaired, Scans
<1> QED BY <1>2, <1>3 DEF RepairEnds

\* Every step keeps the end of a repair: what was refused cannot improve, and
\* what was not refused was scanned.
LEMMA EndKept ==
  ASSUME IInv, [Next]_vars
  PROVE  RepairEnds'
<1>1. CASE Start \/ PruneOne \/ PruneTail \/ Score \/ Rescan \/ ScanGap
  <2>1. UNCHANGED <<question, plans, refused>> /\ pc' \in {"scan", "stage"}
    BY <1>1 DEF Start, StartScan, PruneOne, PruneTail, Score, Scanning, Rescan, ScanGap
  <2>2. pc' = "stage" => task \notin Scans
    BY <1>1 DEF Start, StartScan, PruneOne, PruneTail, Score, Scanning, Rescan, ScanGap
  <2> QED BY <2>1, <2>2, QuietKeepsEnd
<1>2. CASE Expire \/ UNCHANGED vars
  <2>1. /\ UNCHANGED <<question, plans, refused, pc>>
        /\ pc' = "done" => pc # "done" \/ late' = late
        /\ Expire => pc # "done"
    BY <1>2 DEF Expire, vars, question
  <2>2. pc = "stage" => task \notin Scans
    BY DEF IInv, RefusedInv
  <2>3. pc' = "done" => late' = late
    BY <1>2 DEF Expire, vars
  <2> QED BY <2>1, <2>2, <2>3, QuietKeepsEnd
<1>3. CASE Abandon
  <2>1. UNCHANGED <<question, plans, refused, late>> /\ pc' = "done" /\ late
    BY <1>3 DEF Abandon, End
  <2> QED BY <2>1, QuietKeepsEnd
<1>4. CASE StageOver
  <2>1. UNCHANGED <<question, plans, refused, late>> /\ pc' = "done" /\ task \notin Scans
    BY <1>4 DEF StageOver, End, IInv, RefusedInv
  <2> QED BY <2>1, QuietKeepsEnd
<1>5. CASE TryRandom \/ TryHint
  <2>1. /\ pc' = "stage" /\ task' = task /\ task \in {"random", "hints"}
    BY <1>5 DEF TryRandom, TryHint, AtStage, question
  <2> QED BY <2>1 DEF RepairEnds, RefusedInv, EndsRepaired, Scans
<1>6. CASE FoundNothing
  <2>1. /\ UNCHANGED <<question, plans, refused, late>> /\ Scanned /\ band = {}
        /\ pc' = IF task = "final" THEN "stage" ELSE "done"
    BY <1>6 DEF FoundNothing, End
  <2>2. CASE task \notin Scans
    BY <2>1, <2>2, QuietKeepsEnd
  <2>3. CASE task \in Scans
    <3>1. GoodMoves = {} /\ pc' = "done"
      BY <2>1, <2>3, NothingGood DEF Scans
    <3>2. /\ Alternatives' = Alternatives /\ task' = task
          /\ \A m : Improves(m)' = Improves(m)
      BY <2>1, MovesStay DEF question
    <3>3. RefusedInv'
      BY <2>1, <3>1, <3>2 DEF IInv, RefusedInv
    <3>4. ASSUME task \in {"subset", "virtual"}, NEW m \in Alternatives, m[1] = 1,
                 Better(Fast(1, After(m)), Full(1, plans[1]))
          PROVE  task = "subset" /\ ~Improves(m)
      <4>1. m \in refused
        BY <3>1, <3>4 DEF GoodMoves, Candidates, Cost, Present
      <4> QED BY <3>4, <4>1 DEF IInv, RefusedInv
    <3>5. \A m : Fast(1, After(m))' = Fast(1, After(m)) /\ Full(1, plans[1])' = Full(1, plans[1])
      BY <2>1 DEF question, Fast, After, Full
    <3>6. EndsRepaired'
      BY <3>2, <3>4, <3>5 DEF EndsRepaired
    <3> QED BY <3>3, <3>6 DEF RepairEnds
  <2> QED BY <2>2, <2>3
<1>7. CASE FoundBetter
  <2>1. PICK m : m = FirstByVisits(band)
    OBVIOUS
  <2>2. /\ Take(m) /\ task' = task /\ Scanned /\ band # {}
        /\ pc' = IF task \in {"subset", "virtual"} THEN "again"
                 ELSE IF task = "final" THEN "stage" ELSE "done"
    BY <1>7, <2>1 DEF FoundBetter, question
  <2>3. task \in Scans => m[1] = 1
    <3>1. m \in band
      BY <2>1, <2>2, FirstOfBand DEF IInv, Scanned
    <3> QED BY <2>2, <3>1 DEF IInv, ScanInv, Scanned, GoodMoves, Candidates
  <2>4. refused' = {n \in refused : n[1] # m[1]}
    BY <2>2 DEF Take, Forgotten
  <2> QED BY <2>2, <2>3, <2>4 DEF IInv, RefusedInv, RepairEnds, EndsRepaired, Scans
<1>8. CASE FoundRefused
  <2>1. PICK m : m = FirstByVisits(band)
    OBVIOUS
  <2>2. /\ ~Accepts(m) /\ refused' = Excluded(m) /\ UNCHANGED <<question, plans, late>>
        /\ pc' = IF task = "subset" THEN "again"
                 ELSE IF task = "final" THEN "stage" ELSE "done"
    BY <1>8, <2>1 DEF FoundRefused
  <2>3. ~Improves(m) /\ task # "virtual"
    BY <2>2 DEF Accepts
  <2>4. task' = task /\ \A n : Improves(n)' = Improves(n)
    BY <2>2 DEF question, Improves, Full, After
  <2>5. RefusedInv'
    BY <2>2, <2>3, <2>4 DEF IInv, RefusedInv, Excluded, Scans
  <2>6. EndsRepaired'
    BY <2>2, <2>3, <2>4 DEF EndsRepaired
  <2> QED BY <2>5, <2>6 DEF RepairEnds
<1> QED BY <1>1, <1>2, <1>3, <1>4, <1>5, <1>6, <1>7, <1>8 DEF Next, Advance
-----------------------------------------------------------------------------
(* Theorems.                                                               *)

\* A repair starts in the invariant.
LEMMA InitIsInv == Init => IInv
<1> SUFFICES ASSUME Init
             PROVE  IInv
  OBVIOUS
<1>1. plans \in [DOMAIN case.full -> PlansOf(case)]
  <2>1. ASSUME NEW g \in DOMAIN case.options
        PROVE  1 \in DOMAIN case.options[g]
    BY CaseAssumption DEF Init
  <2> QED BY <2>1 DEF Init, PlansOf
<1>2. Typed
  BY <1>1 DEF Init, Typed
<1>3. pc = "start" /\ refused = {}
  BY DEF Init
<1> QED BY <1>2, <1>3 DEF IInv, ScanTyped, ScanInv, RefusedInv, EndsRepaired

\* The invariant of the scans and stages holds in every behaviour.
LEMMA RepairInvariance == Spec => []IInv
<1>1. IInv /\ [Next]_vars => IInv'
  BY TypedKept, ScanKept, EndKept DEF IInv, RepairEnds
<1> QED BY InitIsInv, <1>1, PTL DEF Spec

\* Bounds and cut tails change nothing: for all catalogues, costs and bounds
\* that stay below the labels, a scan ends with the moves that improve by the
\* labels and come within the tolerance of the least of them
\* (best_replacement_in_gaps, virtual_complete_insertion).
THEOREM ScansAreExhaustive == Spec => []ScanExhaustive
<1>1. ASSUME IInv
      PROVE  ScanExhaustive
  <2> SUFFICES ASSUME Scanned, task \in Scans
               PROVE  band = {m \in GoodMoves : \A n \in GoodMoves : Cost(m) <= Cost(n) + Tolerance}
    BY DEF ScanExhaustive, GoodMoves, Cost, Candidates, Present
  <2>1. /\ band \subseteq GoodMoves /\ minimum \in Int /\ Tolerance \in Nat
        /\ \A m \in GoodMoves : m \in band \/ minimum + Tolerance < Cost(m)
        /\ \A m \in band : minimum <= Cost(m) /\ Cost(m) <= minimum + Tolerance
        /\ band # {} => \E m \in band : Cost(m) = minimum
    BY <1>1, RepairAssumption DEF IInv, ScanInv, ScanTyped, Scanned
  <2>2. \A m \in GoodMoves : Cost(m) \in Int
    BY <1>1, MoveCosts DEF IInv, GoodMoves, Candidates
  <2>3. ASSUME NEW m \in band, NEW n \in GoodMoves
        PROVE  Cost(m) <= Cost(n) + Tolerance
    <3>1. minimum <= Cost(n)
      BY <2>1, <2>2
    <3> QED BY <2>1, <2>2, <3>1
  <2>4. ASSUME NEW m \in GoodMoves, \A n \in GoodMoves : Cost(m) <= Cost(n) + Tolerance
        PROVE  m \in band
    <3>1. band # {}
      BY <1>1, NothingGood
    <3>2. PICK n \in band : Cost(n) = minimum
      BY <2>1, <3>1
    <3>3. Cost(m) <= minimum + Tolerance
      BY <2>1, <2>4, <3>2
    <3> QED BY <2>1, <2>2, <3>3
  <2> QED BY <2>1, <2>3, <2>4
<1> QED BY <1>1, RepairInvariance, PTL

\* A repair that was not cut off ends in a plan that no option of its gaps
\* improves by both costs, and an insertion's completion in one that no option
\* improves by the labels, whatever was excluded on the way
\* (improve_path_subset, virtual_complete_insertion).
THEOREM RepairsAreComplete == Spec => []EndsRepaired
<1>1. IInv => EndsRepaired
  BY DEF IInv
<1> QED BY <1>1, RepairInvariance, PTL

-----------------------------------------------------------------------------
(* The catalogue store: pages, and the sums of what is kept.               *)

\* Every cached page holds what was written to its record and block.
TruePage == {p \in [key : Key \X Nat, content : Key \X Nat, bytes : Int] : p.content = p.key}

PagesInv == pages \in Seq(TruePage) /\ ReadsTrue

\* Running sums of a sequence of weights.
Adds(p, n, w) ==
  /\ p[0] = 0
  /\ \A k \in 0..n : p[k] \in Int
  /\ \A k \in 1..n : w[k] \in Int /\ p[k] = p[k - 1] + w[k]

Stretch(v, b, w, a, h) == \A j \in 1..h : v[b + j] = w[a + j]

\* Equal stretches of two sequences of weights have equal sums.
LEMMA SameStretch ==
  ASSUME NEW n \in Nat, NEW w, NEW p, Adds(p, n, w),
         NEW m \in Nat, NEW v, NEW q, Adds(q, m, v),
         NEW a \in Nat, NEW b \in Nat, NEW h \in Nat, a + h <= n, b + h <= m,
         Stretch(v, b, w, a, h)
  PROVE  q[b + h] - q[b] = p[a + h] - p[a]
<1>1. PICK K : K = {j \in 0..h : q[b + j] - q[b] = p[a + j] - p[a]}
  OBVIOUS
<1>2. /\ \A j \in 0..h : p[a + j] \in Int /\ q[b + j] \in Int
      /\ \A j \in 1..h : /\ p[a + j] = p[a + (j - 1)] + w[a + j] /\ w[a + j] \in Int
                         /\ q[b + j] = q[b + (j - 1)] + v[b + j]
  <2>1. \A j \in 0..h : a + j \in 0..n /\ b + j \in 0..m
    OBVIOUS
  <2>2. \A j \in 1..h : /\ a + j \in 1..n /\ b + j \in 1..m
                        /\ (a + j) - 1 = a + (j - 1) /\ (b + j) - 1 = b + (j - 1)
    OBVIOUS
  <2> QED BY <2>1, <2>2 DEF Adds, Stretch
<1>3. 0 \in K
  <2>1. a + 0 = a /\ b + 0 = b /\ 0 \in 0..h
    OBVIOUS
  <2>2. p[a] \in Int /\ q[b] \in Int
    BY <1>2, <2>1
  <2> QED BY <1>1, <2>1, <2>2
<1>4. ASSUME NEW j \in 1..h, j - 1 \in K
      PROVE  j \in K
  <2>1. 0 \in 0..h /\ j \in 0..h /\ j - 1 \in 0..h /\ a + 0 = a /\ b + 0 = b
    OBVIOUS
  <2>2. PICK x \in Int, y \in Int, z \in Int, p0 \in Int, q0 \in Int :
          x = p[a + (j - 1)] /\ y = q[b + (j - 1)] /\ z = w[a + j] /\ p0 = p[a] /\ q0 = q[b]
    BY <1>2, <2>1
  <2>3. p[a + j] = x + z /\ q[b + j] = y + z /\ y - q0 = x - p0
    BY <1>1, <1>2, <1>4, <2>2 DEF Stretch
  <2>4. (y + z) - q0 = (x + z) - p0
    BY <2>3
  <2> QED BY <1>1, <2>1, <2>2, <2>3, <2>4
<1>5. \A j \in 0..h : j \in K
  BY <1>3, <1>4, UpTo
<1> QED BY <1>1, <1>5

\* What solves the recursion of a sum over a sequence.
SumFold(g, n, w) ==
  g = [s \in SUBSET (1..n) |-> IF s = {} THEN 0 ELSE LET k == Max(s) IN g[s \ {k}] + w[k]]

\* A sum over a sequence is the last of its running sums.
LEMMA SumIsLast ==
  ASSUME NEW n \in Nat, NEW w, \A k \in 1..n : w[k] \in Int
  PROVE  \E p : Adds(p, n, w) /\ p[n] = (CHOOSE g : SumFold(g, n, w))[1..n]
<1>1. PICK step : step = [k \in 1..n |-> [v \in Int |-> v + w[k]]]
  OBVIOUS
<1>2. \A k \in 1..n, v \in Int : step[k][v] = v + w[k] /\ v + w[k] \in Int
  BY <1>1
<1>3. PICK zero \in Int : zero = 0
  OBVIOUS
<1>4. StepsInto(step, 1..n, Int)
  BY <1>2 DEF StepsInto
<1>5. \A s \in SUBSET (1..n) : s # {} => Max(s) \in 1..n
  BY LastPosition
<1>6. ASSUME NEW g, FoldsLeft(g, n, Int, zero, step)
      PROVE  SumFold(g, n, w)
  <2>1. g = [s \in SUBSET (1..n) |-> g[s]] /\ g[{}] = 0
    BY <1>3, <1>6 DEF FoldsLeft
  <2>2. ASSUME NEW s \in SUBSET (1..n), s # {}
        PROVE  g[s] = g[s \ {Max(s)}] + w[Max(s)]
    <3>1. g[s \ {Max(s)}] \in Int /\ g[s] = step[Max(s)][g[s \ {Max(s)}]]
      BY <1>6, <2>2 DEF FoldsLeft
    <3> QED BY <1>2, <1>5, <2>2, <3>1
  <2> QED BY <2>1, <2>2 DEF SumFold
<1>7. ASSUME NEW g, SumFold(g, n, w)
      PROVE  FoldsAlong(g, n, Int, zero, step)
  <2>1. g[{}] = zero
    BY <1>3, <1>7 DEF SumFold
  <2>2. ASSUME NEW s \in SUBSET (1..n), s # {}, g[s \ {Max(s)}] \in Int
        PROVE  g[s] = step[Max(s)][g[s \ {Max(s)}]]
    <3>1. g[s] = g[s \ {Max(s)}] + w[Max(s)]
      BY <1>7, <2>2 DEF SumFold
    <3> QED BY <1>2, <1>5, <2>2, <3>1
  <2> QED BY <2>1, <2>2 DEF FoldsAlong
<1>8. \E g : SumFold(g, n, w)
  BY <1>4, <1>6, LeftFoldExists
<1>9. PICK g : g = CHOOSE f : SumFold(f, n, w)
  OBVIOUS
<1>10. SumFold(g, n, w)
  BY <1>8, <1>9
<1>11. PICK p : Running(p, n, Int, zero, step) /\ p[n] = g[1..n]
  BY <1>4, <1>7, <1>10, LeftFoldPrefixes
<1>12. Adds(p, n, w)
  <2>1. \A k \in 1..n : k - 1 \in 0..n
    OBVIOUS
  <2> QED BY <1>2, <1>3, <1>11, <2>1 DEF Adds, Running
<1> QED BY <1>9, <1>11, <1>12

\* The bytes of an order are the sum of those of its entries.
LEMMA TotalBytesAdds ==
  ASSUME NEW order, NEW n \in Nat, DOMAIN order = 1..n, \A k \in 1..n : order[k].bytes \in Int
  PROVE  \E p : Adds(p, n, [k \in 1..n |-> order[k].bytes]) /\ TotalBytes(order) = p[n]
<1>1. PICK w : w = [k \in 1..n |-> order[k].bytes]
  OBVIOUS
<1>2. PICK p : Adds(p, n, w) /\ p[n] = (CHOOSE g : SumFold(g, n, w))[1..n]
  BY <1>1, SumIsLast
<1>3. TotalBytes(order) = (CHOOSE g :
         g = [s \in SUBSET (DOMAIN order) |->
                IF s = {} THEN 0 ELSE LET k == Max(s) IN g[s \ {k}] + order[k].bytes])[DOMAIN order]
  BY DEF TotalBytes, FoldLeft, MapThenFoldSet
<1>4. \A g : SumFold(g, n, w) <=> 
         g = [s \in SUBSET (DOMAIN order) |->
                IF s = {} THEN 0 ELSE LET k == Max(s) IN g[s \ {k}] + order[k].bytes]
  <2>1. \A s \in SUBSET (1..n) : s # {} => Max(s) \in 1..n
    BY LastPosition
  <2>2. \A s \in SUBSET (1..n) : s # {} => order[Max(s)].bytes = w[Max(s)]
    BY <2>1, <1>1
  <2> QED BY <2>2 DEF SumFold
<1>5. (CHOOSE g : SumFold(g, n, w)) = (CHOOSE g :
         g = [s \in SUBSET (DOMAIN order) |->
                IF s = {} THEN 0 ELSE LET k == Max(s) IN g[s \ {k}] + order[k].bytes])
  BY <1>4
<1> QED BY <1>1, <1>2, <1>3, <1>5

\* So is what the abstract cache counts.
LEMMA SizeAdds ==
  ASSUME NEW s, NEW n \in Nat, DOMAIN s = 1..n, \A k \in 1..n : Bytes[s[k]] \in Int
  PROVE  \E p : Adds(p, n, [k \in 1..n |-> Bytes[s[k]]]) /\ Cache!Size(s) = p[n]
<1>1. PICK w : w = [k \in 1..n |-> Bytes[s[k]]]
  OBVIOUS
<1>2. PICK p : Adds(p, n, w) /\ p[n] = (CHOOSE g : SumFold(g, n, w))[1..n]
  BY <1>1, SumIsLast
<1>3. Cache!Size(s) = (CHOOSE g :
         g = [r \in SUBSET (DOMAIN s) |->
                IF r = {} THEN 0 ELSE LET k == Max(r) IN g[r \ {k}] + Bytes[s[k]]])[DOMAIN s]
  BY DEF Cache!Size, Cache!FoldLeft, Cache!MapThenFoldSet, Cache!Max, Max
<1>4. \A g : SumFold(g, n, w) <=> 
         g = [r \in SUBSET (DOMAIN s) |->
                IF r = {} THEN 0 ELSE LET k == Max(r) IN g[r \ {k}] + Bytes[s[k]]]
  <2>1. \A r \in SUBSET (1..n) : r # {} => Max(r) \in 1..n
    BY LastPosition
  <2>2. \A r \in SUBSET (1..n) : r # {} => Bytes[s[Max(r)]] = w[Max(r)]
    BY <2>1, <1>1
  <2> QED BY <2>2 DEF SumFold
<1>5. (CHOOSE g : SumFold(g, n, w)) = (CHOOSE g :
         g = [r \in SUBSET (DOMAIN s) |->
                IF r = {} THEN 0 ELSE LET k == Max(r) IN g[r \ {k}] + Bytes[s[k]]])
  BY <1>4
<1> QED BY <1>1, <1>2, <1>3, <1>5

\* So many of the oldest entries leave that the newcomer fits, and no more.
LEMMA OverflowIsLeast ==
  ASSUME NEW order, NEW n \in Nat, Len(order) = n, NEW used, NEW room
  PROVE  /\ Overflow(order, used, room) \in 0..n
         /\ LET Fits(k) == k = n \/ used - TotalBytes(SubSeq(order, 1, k)) <= room
            IN /\ Fits(Overflow(order, used, room))
               /\ \A k \in 0..n : Fits(k) => Overflow(order, used, room) <= k
<1>1. PICK T : T = {k \in 0 .. n : k = n \/ used - TotalBytes(SubSeq(order, 1, k)) <= room}
  OBVIOUS
<1>2. n \in T /\ T \in SUBSET Nat
  BY <1>1
<1>3. \E k \in T : \A m \in T : k <= m
  BY <1>2, SmallestNumber
<1>4. Overflow(order, used, room) = CHOOSE k \in T : \A m \in T : k <= m
  BY <1>1 DEF Overflow, Min
<1>5. Overflow(order, used, room) \in T /\ \A m \in T : Overflow(order, used, room) <= m
  BY <1>3, <1>4
<1> QED BY <1>1, <1>5

-----------------------------------------------------------------------------
(* Pages.                                                                  *)

\* What one finds by its key has that key.
LEMMA EntryHasKey ==
  ASSUME NEW order, NEW k, Holds(order, k)
  PROVE  /\ Place(order, k) \in DOMAIN order
         /\ Entry(order, k) = order[Place(order, k)] /\ Entry(order, k).key = k
BY DEF Holds, Entry, Place

\* Using an entry, or putting one, keeps the kind of the entries.
LEMMA OrderKept ==
  ASSUME NEW S, NEW order \in Seq(S), NEW k
  PROVE  /\ Others(order, k) \in Seq(S)
         /\ Holds(order, k) => Touch(order, k) \in Seq(S)
         /\ \A n \in 0..Len(order) : Younger(order, n) \in Seq(S)
<1>1. Len(order) \in Nat /\ DOMAIN order = 1..Len(order)
  OBVIOUS
<1>2. \A i \in 1..Len(order) : RemoveAt(order, i) \in Seq(S)
  BY <1>1 DEF RemoveAt
<1>3. Holds(order, k) => Place(order, k) \in 1..Len(order) /\ Entry(order, k) \in S
  BY <1>1, EntryHasKey
<1>4. \A n \in 0..Len(order) : Younger(order, n) \in Seq(S)
  BY <1>1 DEF Younger
<1> QED BY <1>2, <1>3, <1>4 DEF Others, Touch

\* So does putting one.
LEMMA PutKept ==
  ASSUME NEW S, NEW order \in Seq(S), NEW e \in S
  PROVE  Put(order, e) \in Seq(S)
<1>1. Others(order, e.key) \in Seq(S)
  BY OrderKept
<1> QED BY <1>1 DEF Put

\* A page enters the cache after its checksum agreed.
LEMMA InsertPageKept ==
  ASSUME PagesInv, NEW k \in Key, NEW c \in DOMAIN Block[k], Verified(k, c), InsertPage(k, c)
  PROVE  pages' \in Seq(TruePage)
<1>1. PICK page : page = [key |-> PageKey(k, c), content |-> Content(k, c),
                          bytes |-> PageCharge(k, c)]
  OBVIOUS
<1>2. PICK n : n = Overflow(pages, pageBytes, PageBudget - PageCharge(k, c))
  OBVIOUS
<1>3. c \in Nat /\ Block[k][c] \in Nat
  <2>1. Block[k] \in Seq(Nat)
    BY SizeAssumption
  <2> QED BY <2>1
<1>4. page \in TruePage
  BY <1>1, <1>3 DEF TruePage, PageKey, Content, Verified, PageCharge
<1>5. pages \in Seq(TruePage)
  BY DEF PagesInv
<1>6. n \in 0..Len(pages)
  <2>1. Len(pages) \in Nat
    BY <1>5
  <2> QED BY <1>2, <2>1, OverflowIsLeast
<1>7. Put(Younger(pages, n), page) \in Seq(TruePage)
  BY <1>4, <1>5, <1>6, OrderKept, PutKept
<1>8. pages' = Put(Younger(pages, n), page) \/ pages' = pages
  BY <1>1, <1>2 DEF InsertPage, pageState
<1> QED BY <1>5, <1>7, <1>8

\* Whatever is read is what was written.
LEMMA ReadKept ==
  ASSUME PagesInv, NEW k \in Key, Read(k)
  PROVE  PagesInv'
<1>1. PICK c \in DOMAIN Block[k] :
        PageHit(k, c) \/ ReadBlock(k, c) \/ ReadFails(k, c) \/ InsertFails(k, c)
  BY DEF Read
<1>2. CASE PageHit(k, c)
  <2>1. Holds(pages, <<k, c>>) /\ pages' = Touch(pages, <<k, c>>)
        /\ misread' = (Entry(pages, <<k, c>>).content # <<k, c>>)
    BY <1>2 DEF PageHit, PageKey, Deliver
  <2>2. pages \in Seq(TruePage)
    BY DEF PagesInv
  <2>3. Entry(pages, <<k, c>>) \in TruePage /\ Entry(pages, <<k, c>>).key = <<k, c>>
    BY <2>1, <2>2, EntryHasKey
  <2>4. misread' = FALSE
    BY <2>1, <2>3 DEF TruePage
  <2>5. pages' \in Seq(TruePage)
    BY <2>1, <2>2, OrderKept
  <2> QED BY <2>4, <2>5 DEF PagesInv, ReadsTrue
<1>3. CASE ReadBlock(k, c)
  <2>1. misread' = FALSE
    BY <1>3 DEF ReadBlock, Deliver, Content, Verified
  <2>2. pages' \in Seq(TruePage)
    BY <1>3, InsertPageKept DEF ReadBlock
  <2> QED BY <2>1, <2>2 DEF PagesInv, ReadsTrue
<1>4. CASE ReadFails(k, c)
  BY <1>4 DEF ReadFails, Fail, pageState, PagesInv, ReadsTrue
<1>5. CASE InsertFails(k, c)
  BY <1>5 DEF InsertFails, Fail, PagesInv, ReadsTrue
<1> QED BY <1>1, <1>2, <1>3, <1>4, <1>5

\* No step of the store makes a page untrue.
LEMMA StorePagesKept == PagesInv /\ [StoreNext /\ UNCHANGED packed]_storeVars => PagesInv'
<1> SUFFICES ASSUME PagesInv, [StoreNext /\ UNCHANGED packed]_storeVars
             PROVE  PagesInv'
  OBVIOUS
<1>1. ASSUME UNCHANGED <<pages, misread>>
      PROVE  PagesInv'
  BY <1>1 DEF PagesInv, ReadsTrue
<1>2. CASE UNCHANGED storeVars
  BY <1>1, <1>2 DEF storeVars, pageState
<1>3. ASSUME NEW k \in Key, NEW f \in Mode, PathCatalog(k, f) \/ PeekCatalog(k, f)
      PROVE  PagesInv'
  BY <1>1, <1>3 DEF PathCatalog, PeekCatalog, pageState
<1>4. CASE Release \/ CloseReader
  BY <1>1, <1>4 DEF Release, CloseReader, pageState
<1>5. ASSUME NEW k \in Key, OpenReader(k) \/ OpenFails(k)
      PROVE  PagesInv'
  BY <1>1, <1>5 DEF OpenReader, OpenFails, Fail, pageState
<1>6. ASSUME NEW k \in Key, NEW c \in 0 .. Len(Block[k]), Damage(k, c)
      PROVE  PagesInv'
  BY <1>1, <1>6 DEF Damage, pageState
<1>7. ASSUME NEW k \in Key, Read(k)
      PROVE  PagesInv'
  BY <1>7, ReadKept
<1> QED BY <1>2, <1>3, <1>4, <1>5, <1>6, <1>7 DEF StoreNext

\* A value read from an indexed catalogue is the one written to that record
\* and block, though pages of several records share a cache and outlive the
\* files they came from (copy_value).
THEOREM ReadsAreTrue == StoreSpec => []ReadsTrue
<1>1. StoreInit => PagesInv
  BY DEF StoreInit, PagesInv, ReadsTrue
<1>2. PagesInv => ReadsTrue
  BY DEF PagesInv
<1> QED BY <1>1, <1>2, StorePagesKept, PTL DEF StoreSpec
-----------------------------------------------------------------------------
(* Memory.                                                                 *)

Kept == {e \in [key : Key, indexed : BOOLEAN, bytes : Nat] : e.bytes = Bytes[e.key]}

\* Every catalogue is charged for what it retains, however it came to memory,
\* and the count of the bytes is that of the catalogues.
RamInv ==
  /\ packed \in BOOLEAN
  /\ ram \in Seq(Kept)
  /\ ramBytes = TotalBytes(ram)

\* The abstract cache keeps the pairs of the entries, in their order.
LEMMA RamFacts ==
  ASSUME RamInv
  PROVE  /\ Len(ram) \in Nat /\ DOMAIN ram = 1..Len(ram)
         /\ \A i \in 1..Len(ram) : /\ ram[i] \in Kept /\ ram[i].key \in Key
                                   /\ ram[i].bytes = Bytes[ram[i].key]
                                   /\ Bytes[ram[i].key] \in Nat
         /\ KeptKeys \in Seq(Key) /\ Len(KeptKeys) = Len(ram)
         /\ DOMAIN KeptKeys = 1..Len(ram)
         /\ \A i \in 1..Len(ram) : KeptKeys[i] = ram[i].key
<1>1. ram \in Seq(Kept)
  BY DEF RamInv
<1>2. Len(ram) \in Nat /\ DOMAIN ram = 1..Len(ram) /\ \A i \in 1..Len(ram) : ram[i] \in Kept
  BY <1>1
<1>3. \A e \in Kept : e.key \in Key /\ e.bytes = Bytes[e.key] /\ Bytes[e.key] \in Nat
  BY SizeAssumption DEF Kept
<1>4. KeptKeys = [i \in 1..Len(ram) |-> ram[i].key]
  BY <1>2 DEF KeptKeys
<1>5. KeptKeys \in [1..Len(ram) -> Key]
  BY <1>2, <1>3, <1>4
<1> QED BY <1>2, <1>3, <1>4, <1>5

\* The running sums of the entries, and what the prefixes and suffixes weigh.
LEMMA MemorySums ==
  ASSUME RamInv
  PROVE  \E p : /\ Adds(p, Len(ram), [i \in 1..Len(ram) |-> ram[i].bytes])
                /\ ramBytes = p[Len(ram)]
                /\ \A k \in 0..Len(ram) :
                     /\ TotalBytes(SubSeq(ram, 1, k)) = p[k]
                     /\ Cache!Size(Cache!Suffix(KeptKeys, k)) = p[Len(ram)] - p[k]
<1>1. PICK n \in Nat : n = Len(ram)
  BY RamFacts
<1>2. PICK w : w = [i \in 1..n |-> ram[i].bytes]
  OBVIOUS
<1>3a. DOMAIN ram = 1..n /\ \A i \in 1..n : ram[i].bytes \in Int
  <2>1. \A i \in 1..n : ram[i].bytes = Bytes[ram[i].key] /\ Bytes[ram[i].key] \in Nat
    BY <1>1, RamFacts
  <2> QED BY <1>1, <2>1, RamFacts
<1>3. PICK p : Adds(p, n, w) /\ TotalBytes(ram) = p[n]
  BY <1>2, <1>3a, TotalBytesAdds
<1>4. ASSUME NEW k \in 0..n
      PROVE  TotalBytes(SubSeq(ram, 1, k)) = p[k]
  <2>1. PICK s : s = SubSeq(ram, 1, k)
    OBVIOUS
  <2>2. k \in Nat /\ DOMAIN s = 1..k /\ \A i \in 1..k : s[i] = ram[i]
    BY <1>1, <2>1, RamFacts DEF RamInv
  <2>3. PICK v : v = [i \in 1..k |-> s[i].bytes]
    OBVIOUS
  <2>4. \A i \in 1..k : v[i] = w[i] /\ s[i].bytes \in Int
    BY <1>1, <1>2, <2>2, <2>3, RamFacts
  <2>5. PICK q : Adds(q, k, v) /\ TotalBytes(s) = q[k]
    BY <2>2, <2>3, <2>4, TotalBytesAdds
  <2>6. PICK zero \in Nat : zero = 0
    OBVIOUS
  <2>7. zero + k <= n /\ zero + k <= k /\ zero + k = k /\ \A j \in 1..k : zero + j = j
    BY <2>2, <2>6
  <2>8. q[zero + k] - q[zero] = p[zero + k] - p[zero]
    <3>1. Stretch(v, zero, w, zero, k)
      BY <2>4, <2>7 DEF Stretch
    <3> QED BY <1>3, <2>2, <2>5, <2>7, <3>1, SameStretch
  <2>9. p[zero] = 0 /\ q[zero] = 0 /\ p[k] \in Int /\ q[k] \in Int
    BY <1>3, <2>2, <2>5, <2>6 DEF Adds
  <2> QED BY <2>1, <2>5, <2>7, <2>8, <2>9
<1>5. ASSUME NEW k \in 0..n
      PROVE  Cache!Size(Cache!Suffix(KeptKeys, k)) = p[n] - p[k]
  <2>1. PICK s : s = Cache!Suffix(KeptKeys, k)
    OBVIOUS
  <2>2. PICK m \in Nat : m = n - k
    OBVIOUS
  <2>3. DOMAIN s = 1..m /\ \A i \in 1..m : s[i] = ram[k + i].key /\ k + i \in 1..n
    <3>1. s = SubSeq(KeptKeys, k + 1, n)
      BY <1>1, <2>1, RamFacts DEF Cache!Suffix
    <3>2. KeptKeys \in Seq(Key) /\ Len(KeptKeys) = n
      BY <1>1, RamFacts
    <3>3. DOMAIN s = 1..m /\ \A i \in 1..m : s[i] = KeptKeys[k + i] /\ k + i \in 1..n
      BY <2>2, <3>1, <3>2
    <3> QED BY <1>1, <3>3, RamFacts
  <2>4. PICK v : v = [i \in 1..m |-> Bytes[s[i]]]
    OBVIOUS
  <2>5. \A i \in 1..m : v[i] = w[k + i] /\ Bytes[s[i]] \in Int
    <3>1. ASSUME NEW i \in 1..m
          PROVE  v[i] = w[k + i] /\ Bytes[s[i]] \in Int
      <4>1. k + i \in 1..n /\ s[i] = ram[k + i].key
        BY <2>3
      <4>2. ram[k + i].bytes = Bytes[ram[k + i].key] /\ Bytes[ram[k + i].key] \in Nat
        BY <1>1, <4>1, RamFacts
      <4> QED BY <1>2, <2>4, <4>1, <4>2
    <3> QED BY <3>1
  <2>6. PICK q : Adds(q, m, v) /\ Cache!Size(s) = q[m]
    BY <2>3, <2>4, <2>5, SizeAdds
  <2>7. PICK zero \in Nat : zero = 0
    OBVIOUS
  <2>8. /\ zero + m <= m /\ k + m <= n /\ zero + m = m /\ k + m = n
        /\ \A j \in 1..m : zero + j = j
    BY <2>2, <2>7
  <2>9. q[zero + m] - q[zero] = p[k + m] - p[k]
    <3>1. Stretch(v, zero, w, k, m)
      BY <2>5, <2>8 DEF Stretch
    <3> QED BY <1>3, <2>6, <2>8, <3>1, SameStretch
  <2>10. q[zero] = 0 /\ q[m] \in Int
    BY <2>6, <2>7 DEF Adds
  <2> QED BY <2>1, <2>6, <2>8, <2>9, <2>10
<1> QED BY <1>1, <1>2, <1>3, <1>4, <1>5 DEF RamInv

\* As many catalogues leave as the abstract cache lets go.
LEMMA SameOverflow ==
  ASSUME RamInv, NEW k \in Key, Bytes[k] <= Budget
  PROVE  /\ Overflow(ram, ramBytes, Budget - Bytes[k]) = Cache!Fewest(k)
         /\ Cache!Fewest(k) \in 0..Len(ram)
<1>1. PICK n \in Nat : n = Len(ram) /\ n = Len(KeptKeys)
  BY RamFacts
<1>2. PICK p : /\ Adds(p, n, [i \in 1..n |-> ram[i].bytes]) /\ ramBytes = p[n]
               /\ \A j \in 0..n : /\ TotalBytes(SubSeq(ram, 1, j)) = p[j]
                                  /\ Cache!Size(Cache!Suffix(KeptKeys, j)) = p[n] - p[j]
  BY <1>1, MemorySums
<1>3. PICK b \in Nat, room \in Int : b = Bytes[k] /\ room = Budget - b
  BY SizeAssumption
<1>3a. PICK limit \in Nat : limit = Budget
  BY SizeAssumption
<1>4. \A j \in 0..n : p[j] \in Int
  BY <1>2 DEF Adds
<1>5. ASSUME NEW j \in 0..n
      PROVE  (j = n \/ ramBytes - TotalBytes(SubSeq(ram, 1, j)) <= room)
               <=> Cache!Size(Cache!Suffix(KeptKeys, j)) + Bytes[k] <= Budget
  <2>1. PICK x \in Int, y \in Int : x = p[n] /\ y = p[j]
    BY <1>4
  <2>2. j = n => x - y = 0
    BY <2>1
  <2>3. (j = n \/ x - y <= room) <=> (x - y) + b <= limit
    BY <1>3, <1>3a, <2>2
  <2> QED BY <1>2, <1>3, <1>3a, <2>1, <2>3
<1>6. {j \in 0 .. n : j = n \/ ramBytes - TotalBytes(SubSeq(ram, 1, j)) <= room}
        = {j \in 0 .. n : Cache!Size(Cache!Suffix(KeptKeys, j)) + Bytes[k] <= Budget}
  BY <1>5
<1>7. Overflow(ram, ramBytes, room) = Cache!Fewest(k)
  BY <1>1, <1>6 DEF Overflow, Cache!Fewest, Cache!Min, Min
<1>8. Overflow(ram, ramBytes, room) \in 0..n
  BY <1>1, OverflowIsLeast
<1> QED BY <1>1, <1>3, <1>7, <1>8

Parts(s, t, u) ==
  /\ Len(u) = Len(s) + Len(t)
  /\ \A i \in 1..Len(s) : u[i] = s[i]
  /\ \A i \in 1..Len(t) : u[Len(s) + i] = t[i]

\* The bytes of an order are those of its parts.
LEMMA BytesOfParts ==
  ASSUME NEW s \in Seq(Kept), NEW t \in Seq(Kept), NEW u \in Seq(Kept), Parts(s, t, u)
  PROVE  /\ TotalBytes(s) \in Int /\ TotalBytes(t) \in Int
         /\ TotalBytes(u) = TotalBytes(s) + TotalBytes(t)
<1>1. ASSUME NEW r \in Seq(Kept)
      PROVE  /\ Len(r) \in Nat /\ DOMAIN r = 1..Len(r)
             /\ \A i \in 1..Len(r) : r[i].bytes \in Int
  <2>1. \A i \in 1..Len(r) : r[i] \in Kept
    OBVIOUS
  <2> QED BY <2>1 DEF Kept
<1>2. PICK a \in Nat : a = Len(s)
  BY <1>1
<1>3. PICK b \in Nat : b = Len(t)
  BY <1>1
<1>4. PICK n \in Nat : n = a + b /\ n = Len(u)
  BY <1>2, <1>3 DEF Parts
<1>5. PICK v : v = [i \in 1..a |-> s[i].bytes]
  OBVIOUS
<1>6. PICK w : w = [i \in 1..b |-> t[i].bytes]
  OBVIOUS
<1>7. PICK x : x = [i \in 1..n |-> u[i].bytes]
  OBVIOUS
<1>8. PICK p : Adds(p, a, v) /\ TotalBytes(s) = p[a]
  BY <1>1, <1>2, <1>5, TotalBytesAdds
<1>9. PICK q : Adds(q, b, w) /\ TotalBytes(t) = q[b]
  BY <1>1, <1>3, <1>6, TotalBytesAdds
<1>10. PICK r : Adds(r, n, x) /\ TotalBytes(u) = r[n]
  BY <1>1, <1>4, <1>7, TotalBytesAdds
<1>11. PICK zero \in Nat : zero = 0
  OBVIOUS
<1>12. p[zero + a] - p[zero] = r[zero + a] - r[zero]
  <2>1. zero + a <= n /\ zero + a <= a /\ \A j \in 1..a : zero + j = j /\ j \in 1..n
    <3>1. zero + a <= n /\ zero + a <= a
      BY <1>4, <1>11
    <3>2. ASSUME NEW j \in 1..a PROVE zero + j = j /\ j \in 1..n
      BY <1>4, <1>11
    <3> QED BY <3>1, <3>2
  <2>2. Stretch(v, zero, x, zero, a)
    BY <1>2, <1>5, <1>7, <2>1 DEF Parts, Stretch
  <2> QED BY SMTT(40), <1>8, <1>10, <2>1, <2>2, SameStretch
<1>13. q[zero + b] - q[zero] = r[a + b] - r[a]
  <2>0. zero + b <= b /\ a + b <= n
    BY <1>4, <1>11
  <2>1. \A j \in 1..b : zero + j = j /\ a + j \in 1..n
    BY <1>4, <1>11
  <2>2. Stretch(w, zero, x, a, b)
    BY <1>2, <1>3, <1>6, <1>7, <2>1 DEF Parts, Stretch
  <2> QED BY <1>9, <1>10, <2>0, <2>2, SameStretch
<1>14. /\ p[zero] = 0 /\ q[zero] = 0 /\ r[zero] = 0
       /\ p[a] \in Int /\ q[b] \in Int /\ r[a] \in Int /\ r[n] \in Int
  BY <1>4, <1>8, <1>9, <1>10, <1>11 DEF Adds
<1>15. zero + a = a /\ zero + b = b
  BY <1>11
<1>16. PICK i \in Int, j \in Int, k \in Int, l \in Int :
         i = p[a] /\ j = q[b] /\ k = r[a] /\ l = r[n]
  BY <1>14
<1>17. i - 0 = k - 0 /\ j - 0 = l - k
  BY <1>4, <1>12, <1>13, <1>14, <1>15, <1>16
<1>18. l = i + j
  BY <1>17
<1> QED BY <1>8, <1>9, <1>10, <1>16, <1>18

\* A newcomer adds its own.
LEMMA BytesOfAppend ==
  ASSUME NEW s \in Seq(Kept), NEW e \in Kept
  PROVE  TotalBytes(s) \in Int /\ TotalBytes(Append(s, e)) = TotalBytes(s) + e.bytes
<1>1. PICK t : t = <<e>>
  OBVIOUS
<1>2. t \in Seq(Kept) /\ Len(t) = 1 /\ t[1] = e /\ DOMAIN t = 1..1
  BY <1>1
<1>3. e.bytes \in Nat
  BY DEF Kept
<1>4. TotalBytes(t) = e.bytes
  <2>1. PICK one \in Nat : one = 1
    OBVIOUS
  <2>2. DOMAIN t = 1..one /\ \A k \in 1..one : t[k].bytes \in Int
    BY <1>2, <1>3, <2>1
  <2>3. PICK p : Adds(p, one, [k \in 1..one |-> t[k].bytes]) /\ TotalBytes(t) = p[one]
    BY <2>2, TotalBytesAdds
  <2>4. p[1] = p[1 - 1] + t[1].bytes /\ p[0] = 0
    BY <2>1, <2>3 DEF Adds
  <2>5. 1 - 1 = 0
    OBVIOUS
  <2> QED BY <1>2, <1>3, <2>1, <2>3, <2>4, <2>5
<1>5. PICK u : u = Append(s, e)
  OBVIOUS
<1>6. u \in Seq(Kept) /\ Parts(s, t, u)
  BY <1>2, <1>5 DEF Parts
<1>7. TotalBytes(s) \in Int /\ TotalBytes(u) = TotalBytes(s) + TotalBytes(t)
  BY <1>2, <1>6, BytesOfParts
<1> QED BY <1>4, <1>5, <1>7

\* What is taken out of an order, and what is left, add up to it.
LEMMA BytesOfRest ==
  ASSUME NEW s \in Seq(Kept)
  PROVE  /\ \A n \in 0..Len(s) :
              TotalBytes(s) = TotalBytes(SubSeq(s, 1, n)) + TotalBytes(Younger(s, n))
         /\ \A i \in 1..Len(s) : TotalBytes(s) = TotalBytes(RemoveAt(s, i)) + s[i].bytes
<1>1. Len(s) \in Nat
  OBVIOUS
<1>2. ASSUME NEW n \in 0..Len(s)
      PROVE  TotalBytes(s) = TotalBytes(SubSeq(s, 1, n)) + TotalBytes(Younger(s, n))
  <2>1. PICK a : a = SubSeq(s, 1, n)
    OBVIOUS
  <2>2. PICK b : b = Younger(s, n)
    OBVIOUS
  <2>3. /\ a \in Seq(Kept) /\ Len(a) = n /\ \A i \in 1..n : s[i] = a[i]
        /\ b \in Seq(Kept) /\ Len(b) = Len(s) - n
        /\ \A i \in 1..(Len(s) - n) : s[n + i] = b[i]
    BY <1>1, <2>1, <2>2 DEF Younger
  <2>4. Parts(a, b, s)
    BY <1>1, <2>3 DEF Parts
  <2> QED BY <2>1, <2>2, <2>3, <2>4, BytesOfParts
<1>3. ASSUME NEW i \in 1..Len(s)
      PROVE  TotalBytes(s) = TotalBytes(RemoveAt(s, i)) + s[i].bytes
  <2>1. PICK a : a = SubSeq(s, 1, i - 1)
    OBVIOUS
  <2>2. PICK c : c = SubSeq(s, i + 1, Len(s))
    OBVIOUS
  <2>3. PICK r : r = RemoveAt(s, i)
    OBVIOUS
  <2>4. PICK d : d = Append(a, s[i])
    OBVIOUS
  <2>5. /\ a \in Seq(Kept) /\ Len(a) = i - 1 /\ \A k \in 1..(i - 1) : a[k] = s[k]
        /\ c \in Seq(Kept) /\ Len(c) = Len(s) - i
        /\ \A k \in 1..(Len(s) - i) : c[k] = s[i + k]
        /\ s[i] \in Kept
    <3>1. a \in Seq(Kept) /\ Len(a) = i - 1 /\ \A k \in 1..(i - 1) : a[k] = s[k]
      BY <1>1, <2>1
    <3>2. c \in Seq(Kept) /\ Len(c) = Len(s) - i
      BY <1>1, <2>2
    <3>3. \A k \in 1..(Len(s) - i) : c[k] = s[i + k]
      BY <1>1, <2>2
    <3>4. s[i] \in Kept
      BY <1>1
    <3> QED BY <3>1, <3>2, <3>3, <3>4
  <2>6. r = a \o c
    BY <2>1, <2>2, <2>3 DEF RemoveAt
  <2>7. r \in Seq(Kept) /\ Parts(a, c, r)
    <3>1. r \in Seq(Kept)
      BY <2>5, <2>6
    <3>1a. Len(r) = Len(a) + Len(c)
      <4>1. \A x, y \in Seq(Kept) : Len(x \o y) = Len(x) + Len(y)
        OBVIOUS
      <4>2. a \in Seq(Kept) /\ c \in Seq(Kept)
        BY <2>5
      <4>3. Len(a \o c) = Len(a) + Len(c)
        BY <4>1, <4>2
      <4> QED BY <4>3, <2>6
    <3>2. \A k \in 1..Len(a) : r[k] = a[k]
      BY <2>5, <2>6
    <3>3. \A k \in 1..Len(c) : r[Len(a) + k] = c[k]
      BY <2>5, <2>6
    <3> QED BY <3>1, <3>1a, <3>2, <3>3 DEF Parts
  <2>8. d \in Seq(Kept) /\ Len(d) = i /\ \A k \in 1..i : s[k] = d[k]
    <3>1. d \in Seq(Kept) /\ Len(d) = i
      BY <2>4, <2>5
    <3>2. \A k \in 1..(i - 1) : d[k] = s[k]
      BY <2>4, <2>5
    <3>3. d[i] = s[i]
      BY <2>4, <2>5
    <3> QED BY <3>1, <3>2, <3>3
  <2>9. Parts(d, c, s)
    BY <1>1, <2>5, <2>8 DEF Parts
  <2>10. TotalBytes(s) = TotalBytes(d) + TotalBytes(c)
    BY <2>5, <2>8, <2>9, BytesOfParts
  <2>11. /\ TotalBytes(r) = TotalBytes(a) + TotalBytes(c)
         /\ TotalBytes(a) \in Int /\ TotalBytes(c) \in Int
    BY <2>5, <2>7, BytesOfParts
  <2>12. TotalBytes(d) = TotalBytes(a) + s[i].bytes
    BY <2>4, <2>5, BytesOfAppend
  <2>13. s[i].bytes \in Int
    BY <2>5 DEF Kept
  <2> QED BY <2>3, <2>10, <2>11, <2>12, <2>13
<1> QED BY <1>2, <1>3

-----------------------------------------------------------------------------
(* The store implements the cache.                                         *)

\* What is left of a sequence when a position is taken out.
LEMMA RemoveAtIs ==
  ASSUME NEW S, NEW s \in Seq(S), NEW i \in 1..Len(s), NEW n \in Nat, n = Len(s)
  PROVE  /\ RemoveAt(s, i) \in Seq(S) /\ Len(RemoveAt(s, i)) = n - 1
         /\ \A j \in 1..(n - 1) : RemoveAt(s, i)[j] = IF j < i THEN s[j] ELSE s[j + 1]
<1>1. PICK a : a = SubSeq(s, 1, i - 1)
  OBVIOUS
<1>2. PICK c : c = SubSeq(s, i + 1, n)
  OBVIOUS
<1>3. /\ a \in Seq(S) /\ Len(a) = i - 1 /\ \A j \in 1..(i - 1) : a[j] = s[j]
      /\ c \in Seq(S) /\ Len(c) = n - i /\ \A j \in 1..(n - i) : c[j] = s[i + j]
  BY <1>1, <1>2
<1>4. RemoveAt(s, i) = a \o c
  BY <1>1, <1>2 DEF RemoveAt
<1>5. \A x, y \in Seq(S) :
        /\ x \o y \in Seq(S) /\ Len(x \o y) = Len(x) + Len(y)
        /\ \A j \in 1..(Len(x) + Len(y)) :
             (x \o y)[j] = IF j <= Len(x) THEN x[j] ELSE y[j - Len(x)]
  OBVIOUS
<1>6. /\ a \o c \in Seq(S) /\ Len(a \o c) = n - 1
      /\ \A j \in 1..(n - 1) : (a \o c)[j] = IF j <= i - 1 THEN a[j] ELSE c[j - (i - 1)]
  BY <1>3, <1>5
<1>7. ASSUME NEW j \in 1..(n - 1)
      PROVE  (a \o c)[j] = IF j < i THEN s[j] ELSE s[j + 1]
  <2>1. CASE j < i
    BY <1>3, <1>6, <2>1
  <2>2. CASE ~(j < i)
    <3>1. j - (i - 1) \in 1..(n - i) /\ i + (j - (i - 1)) = j + 1 /\ ~(j <= i - 1)
      BY <2>2
    <3> QED BY <1>3, <1>6, <2>2, <3>1
  <2> QED BY <2>1, <2>2
<1> QED BY <1>4, <1>6, <1>7

\* A hit is a use in both.
LEMMA HitRefines ==
  ASSUME RamInv, NEW k \in Key, Hit(k)
  PROVE  /\ ram' \in Seq(Kept) /\ ramBytes' = TotalBytes(ram')
         /\ Cache!Refresh(k)
<1>1. PICK i \in 1..Len(ram) : i = Place(ram, k) /\ ram[i].key = k /\ Entry(ram, k) = ram[i]
  BY RamFacts, EntryHasKey DEF Hit
<1>2. ram \in Seq(Kept) /\ Len(ram) \in Nat /\ ram[i] \in Kept
  BY RamFacts DEF RamInv
<1>3. PICK s : s = RemoveAt(ram, i)
  OBVIOUS
<1>4. ram' = Append(s, ram[i]) /\ ramBytes' = ramBytes /\ answer' = k
  BY <1>1, <1>3 DEF Hit, Touch, Others, Return
<1>5. s \in Seq(Kept)
  BY <1>2, <1>3 DEF RemoveAt
<1>6. ram' \in Seq(Kept)
  BY <1>2, <1>4, <1>5
<1>7. ramBytes' = TotalBytes(ram')
  <2>1. TotalBytes(ram) = TotalBytes(s) + ram[i].bytes
    BY <1>2, <1>3, BytesOfRest
  <2>2. TotalBytes(Append(s, ram[i])) = TotalBytes(s) + ram[i].bytes
    BY <1>2, <1>5, BytesOfAppend
  <2> QED BY <1>4, <2>1, <2>2 DEF RamInv
<1>8. KeptKeys' = Append(RemoveAt(KeptKeys, i), k)
  <2>1. PICK n \in Nat : n = Len(ram)
    BY <1>2
  <2>2. /\ Len(ram') = n /\ DOMAIN ram' = 1..n
        /\ \A j \in 1..n : ram'[j] = IF j < i THEN ram[j]
                                     ELSE IF j < n THEN ram[j + 1] ELSE ram[i]
    <3>1. Len(s) = n - 1 /\ \A j \in 1..(n - 1) : s[j] = IF j < i THEN ram[j] ELSE ram[j + 1]
      BY <1>2, <1>3, <2>1, RemoveAtIs
    <3> QED BY <1>2, <1>4, <1>5, <2>1, <3>1
  <2>3. PICK t : t = Append(RemoveAt(KeptKeys, i), k)
    OBVIOUS
  <2>4. KeptKeys \in Seq(Key) /\ Len(KeptKeys) = n /\ \A j \in 1..n : KeptKeys[j] = ram[j].key
    BY <2>1, RamFacts
  <2>5. /\ DOMAIN t = 1..n /\ t \in Seq(Key)
        /\ \A j \in 1..n : t[j] = IF j < i THEN KeptKeys[j]
                                  ELSE IF j < n THEN KeptKeys[j + 1] ELSE k
    <3>1. PICK r : r = RemoveAt(KeptKeys, i)
      OBVIOUS
    <3>2. /\ r \in Seq(Key) /\ Len(r) = n - 1
          /\ \A j \in 1..(n - 1) : r[j] = IF j < i THEN KeptKeys[j] ELSE KeptKeys[j + 1]
      <4>1. KeptKeys \in Seq(Key) /\ i \in 1..Len(KeptKeys) /\ n = Len(KeptKeys)
        BY <2>1, <2>4
      <4>2. /\ RemoveAt(KeptKeys, i) \in Seq(Key) /\ Len(RemoveAt(KeptKeys, i)) = n - 1
            /\ \A j \in 1..(n - 1) :
                 RemoveAt(KeptKeys, i)[j] = IF j < i THEN KeptKeys[j] ELSE KeptKeys[j + 1]
        BY <4>1, RemoveAtIs
      <4> QED BY <3>1, <4>2
    <3> QED BY <2>1, <2>3, <3>1, <3>2
  <2>6. \A j \in 1..n : ram'[j].key = t[j]
    BY <1>1, <2>1, <2>2, <2>4, <2>5
  <2>7. KeptKeys' = [j \in 1..n |-> ram'[j].key]
    BY <2>2 DEF KeptKeys
  <2>8. t = [j \in 1..n |-> t[j]]
    BY <2>5
  <2> QED BY <2>3, <2>6, <2>7, <2>8
<1>9. i \in DOMAIN KeptKeys /\ KeptKeys[i] = k
  BY <1>1, RamFacts
<1> QED BY <1>4, <1>6, <1>7, <1>8, <1>9 DEF Cache!Refresh, Cache!RemoveAt, RemoveAt

\* So is an admission, as what is kept is charged for what it retains.
LEMMA AdmitRefines ==
  ASSUME RamInv, NEW k \in Key, NEW indexed \in BOOLEAN, ~Holds(ram, k),
         Admit(k, indexed, Bytes[k]), answer' = k
  PROVE  /\ ram' \in Seq(Kept) /\ ramBytes' = TotalBytes(ram')
         /\ Cache!Admit(k) \/ Cache!PassThrough(k)
<1>1. /\ ram \in Seq(Kept) /\ ramBytes = TotalBytes(ram) /\ Len(ram) \in Nat
      /\ Bytes[k] \in Nat /\ Budget \in Nat
  BY SizeAssumption, RamFacts DEF RamInv
<1>2. ~Cache!Contains(KeptKeys, k)
  BY RamFacts DEF Holds, Cache!Contains
<1>3. CASE Bytes[k] > Budget
  <2>1. ram' = ram /\ ramBytes' = ramBytes
    BY <1>3 DEF Admit, memory
  <2>2. KeptKeys' = KeptKeys
    BY <2>1 DEF KeptKeys
  <2> QED BY <1>1, <1>2, <1>3, <2>1, <2>2 DEF Cache!PassThrough
<1>4. CASE ~(Bytes[k] > Budget)
  <2>0. Bytes[k] <= Budget
    BY <1>1, <1>4
  <2>1. PICK n \in 0..Len(ram) : /\ n = Overflow(ram, ramBytes, Budget - Bytes[k])
                                 /\ n = Cache!Fewest(k)
    BY <2>0, SameOverflow
  <2>2. PICK e : e = [key |-> k, indexed |-> indexed, bytes |-> Bytes[k]]
    OBVIOUS
  <2>3. e \in Kept /\ e.key = k /\ e.bytes = Bytes[k]
    BY <1>1, <2>2 DEF Kept
  <2>4. PICK y : y = Younger(ram, n)
    OBVIOUS
  <2>5. PICK l \in Nat : l = Len(ram) /\ n \in 0..l
    BY <1>1
  <2>6. y \in Seq(Kept) /\ Len(y) = l - n /\ \A i \in 1..(l - n) : y[i] = ram[n + i]
    BY <1>1, <2>4, <2>5 DEF Younger
  <2>7. Others(y, k) = y
    <3>1. ~Holds(y, k)
      BY <1>1, <2>5, <2>6 DEF Holds
    <3> QED BY <3>1 DEF Others
  <2>8. /\ ram' = Append(y, e)
        /\ ramBytes' = ramBytes - TotalBytes(SubSeq(ram, 1, n)) + Bytes[k]
    BY <1>4, <2>1, <2>2, <2>3, <2>4, <2>7 DEF Admit, Put
  <2>9. ram' \in Seq(Kept)
    BY <2>3, <2>6, <2>8
  <2>10. ramBytes' = TotalBytes(ram')
    <3>1. TotalBytes(ram) = TotalBytes(SubSeq(ram, 1, n)) + TotalBytes(y)
      BY <1>1, <2>4, BytesOfRest
    <3>2. TotalBytes(ram') = TotalBytes(y) + Bytes[k] /\ TotalBytes(y) \in Int
      BY <2>3, <2>6, <2>8, BytesOfAppend
    <3>3. TotalBytes(SubSeq(ram, 1, n)) \in Int
      <4>1. SubSeq(ram, 1, n) \in Seq(Kept)
        BY <1>1
      <4> QED BY <2>3, <4>1, BytesOfAppend
    <3>4. PICK a \in Int, b \in Int : a = TotalBytes(SubSeq(ram, 1, n)) /\ b = TotalBytes(y)
      BY <3>2, <3>3
    <3>5. ramBytes' = ((a + b) - a) + Bytes[k]
      BY <1>1, <2>8, <3>1, <3>4
    <3>6. ((a + b) - a) + Bytes[k] = b + Bytes[k]
      BY <1>1
    <3> QED BY <3>2, <3>4, <3>5, <3>6
  <2>11. KeptKeys' = Append(Cache!Suffix(KeptKeys, n), k)
    <3>1. DOMAIN ram' = 1..(l - n + 1)
          /\ \A i \in 1..(l - n + 1) : ram'[i] = IF i <= l - n THEN ram[n + i] ELSE e
      BY <2>5, <2>6, <2>8
    <3>2. /\ KeptKeys \in Seq(Key) /\ Len(KeptKeys) = l
          /\ \A i \in 1..l : KeptKeys[i] = ram[i].key
      BY <2>5, RamFacts
    <3>3. PICK t : t = Append(Cache!Suffix(KeptKeys, n), k)
      OBVIOUS
    <3>4. /\ DOMAIN t = 1..(l - n + 1) /\ t \in Seq(Key)
          /\ \A i \in 1..(l - n + 1) : t[i] = IF i <= l - n THEN KeptKeys[n + i] ELSE k
      <4>1. PICK r : r = Cache!Suffix(KeptKeys, n)
        OBVIOUS
      <4>2. r \in Seq(Key) /\ Len(r) = l - n /\ \A i \in 1..(l - n) : r[i] = KeptKeys[n + i]
        BY <2>5, <3>2, <4>1 DEF Cache!Suffix
      <4> QED BY <2>5, <3>3, <4>1, <4>2
    <3>5. \A i \in 1..(l - n + 1) : ram'[i].key = t[i]
      BY <2>3, <2>5, <3>1, <3>2, <3>4
    <3>6. KeptKeys' = [i \in 1..(l - n + 1) |-> ram'[i].key]
      BY <3>1 DEF KeptKeys
    <3>7. t = [i \in 1..(l - n + 1) |-> t[i]]
      BY <3>4
    <3> QED BY <3>3, <3>5, <3>6, <3>7
  <2> QED BY <1>2, <2>0, <2>1, <2>9, <2>10, <2>11 DEF Cache!Admit
<1> QED BY <1>3, <1>4

\* Every step of the store is one of the cache, or changes neither what is kept
\* nor what was answered.
LEMMA StoreStepRefines ==
  ASSUME RamInv, [StoreNext /\ UNCHANGED packed]_storeVars
  PROVE  RamInv' /\ [Cache!Next]_(Cache!vars)
<1>0. packed' = packed
  BY DEF storeVars
<1>1. ASSUME UNCHANGED <<ram, ramBytes, answer>>
      PROVE  RamInv' /\ [Cache!Next]_(Cache!vars)
  BY <1>0, <1>1 DEF RamInv, Cache!vars, KeptKeys
<1>2. CASE UNCHANGED storeVars
  BY <1>1, <1>2 DEF storeVars, memory
<1>3. ASSUME NEW k \in Key, NEW f \in Mode, PathCatalog(k, f)
      PROVE  RamInv' /\ [Cache!Next]_(Cache!vars)
  <2>1. CASE Hit(k)
    BY <1>0, <2>1, HitRefines DEF RamInv, Cache!Next
  <2>2. CASE Restore(k, f)
    <3>1. /\ ~Holds(ram, k) /\ Admit(k, packed, Bytes[k]) /\ answer' = k
      BY <2>2 DEF Restore, Loads, FlatIntact, Restored, RestoredBytes, Return
    <3> QED BY <1>0, <3>1, AdmitRefines DEF RamInv, Cache!Next
  <2>3. CASE Rebuild(k, f)
    <3>1. /\ ~Holds(ram, k) /\ Admit(k, FALSE, Bytes[k]) /\ answer' = k
      BY <2>3 DEF Rebuild, Return
    <3> QED BY <1>0, <3>1, AdmitRefines DEF RamInv, Cache!Next
  <2> QED BY <1>3, <2>1, <2>2, <2>3 DEF PathCatalog
<1>4. ASSUME NEW k \in Key, NEW f \in Mode, PeekCatalog(k, f)
      PROVE  RamInv' /\ [Cache!Next]_(Cache!vars)
  <2>1. ram' = ram /\ ramBytes' = ramBytes /\ KeptKeys' = KeptKeys
        /\ answer' \in {k, Nothing} /\ ~Holds(ram, k)
    BY <1>4 DEF PeekCatalog, Return, memory, KeptKeys
  <2>2. ~Cache!Contains(KeptKeys, k)
    BY <2>1, RamFacts DEF Holds, Cache!Contains
  <2> QED BY <1>0, <2>1, <2>2 DEF RamInv, Cache!Next, Cache!Peek
<1>5. CASE Release \/ CloseReader
  BY <1>1, <1>5 DEF Release, CloseReader, memory
<1>6. ASSUME NEW k \in Key, OpenReader(k) \/ OpenFails(k)
      PROVE  RamInv' /\ [Cache!Next]_(Cache!vars)
  BY <1>1, <1>6 DEF OpenReader, OpenFails, Fail, memory
<1>7. ASSUME NEW k \in Key, NEW c \in 0 .. Len(Block[k]), Damage(k, c)
      PROVE  RamInv' /\ [Cache!Next]_(Cache!vars)
  BY <1>1, <1>7 DEF Damage, memory
<1>8. ASSUME NEW k \in Key, Read(k)
      PROVE  RamInv' /\ [Cache!Next]_(Cache!vars)
  <2>1. PICK c \in DOMAIN Block[k] :
          PageHit(k, c) \/ ReadBlock(k, c) \/ ReadFails(k, c) \/ InsertFails(k, c)
    BY <1>8 DEF Read
  <2> QED BY <1>1, <2>1 DEF PageHit, ReadBlock, ReadFails, InsertFails, Deliver, Fail, memory
<1> QED BY <1>2, <1>3, <1>4, <1>5, <1>6, <1>7, <1>8 DEF StoreNext

\* The tier on disk is invisible: each request is answered with the catalogue
\* asked for, and memory keeps what it would keep without files (path_catalog).
THEOREM DiskIsInvisible == StoreSpec => CacheSpec
<1>1. StoreInit => RamInv /\ Cache!Init
  <2> SUFFICES ASSUME StoreInit PROVE RamInv /\ Cache!Init
    OBVIOUS
  <2>1. packed \in BOOLEAN /\ ram = <<>> /\ ramBytes = 0 /\ answer = Nothing
    BY DEF StoreInit
  <2>2. KeptKeys = <<>>
    BY <2>1 DEF KeptKeys
  <2>3. TotalBytes(ram) = 0
    <3>1. PICK zero \in Nat : zero = 0
      OBVIOUS
    <3>2. DOMAIN ram = 1..zero /\ \A k \in 1..zero : ram[k].bytes \in Int
      BY <2>1, <3>1
    <3>3. PICK p : Adds(p, zero, [k \in 1..zero |-> ram[k].bytes]) /\ TotalBytes(ram) = p[zero]
      BY <3>2, TotalBytesAdds
    <3> QED BY <3>1, <3>3 DEF Adds
  <2> QED BY <2>1, <2>2, <2>3 DEF RamInv, Cache!Init
<1>2. RamInv /\ [StoreNext /\ UNCHANGED packed]_storeVars => RamInv' /\ [Cache!Next]_(Cache!vars)
  BY StoreStepRefines
<1> QED BY <1>1, <1>2, PTL DEF StoreSpec, CacheSpec, Cache!Spec
-----------------------------------------------------------------------------
(* Catalogues.                                                             *)

\* Sequences of bounded length over a finite set are finitely many.
LEMMA SeqOfFinite ==
  ASSUME NEW S, IsFiniteSet(S), NEW n \in Nat
  PROVE  IsFiniteSet(SeqOf(S, n))
<1>1. PICK T : T = SUBSET ((1..n) \X S)
  OBVIOUS
<1>2. IsFiniteSet(T)
  <2>1. IsFiniteSet(1..n)
    BY FS_Interval
  <2>2. IsFiniteSet((1..n) \X S)
    BY <2>1, FS_Product
  <2> QED BY <1>1, <2>2, FS_SUBSET
<1>3. PICK graph : graph = [p \in SeqOf(S, n) |-> {<<i, p[i]>> : i \in DOMAIN p}]
  OBVIOUS
<1>4. ASSUME NEW p \in SeqOf(S, n)
      PROVE  graph[p] \in T /\ graph[p] = {<<i, p[i]>> : i \in DOMAIN p}
  <2>1. PICK m \in 0..n : p \in [1..m -> S]
    BY DEF SeqOf
  <2>2. \A i \in DOMAIN p : i \in 1..n /\ p[i] \in S
    BY <2>1
  <2> QED BY <1>1, <1>3, <2>2
<1>5. ASSUME NEW p \in SeqOf(S, n), NEW q \in SeqOf(S, n), graph[p] = graph[q]
      PROVE  p = q
  <2>1. PICK m \in 0..n : p \in [1..m -> S]
    BY DEF SeqOf
  <2>2. PICK l \in 0..n : q \in [1..l -> S]
    BY DEF SeqOf
  <2>3. \A i \in 1..m : i \in 1..l /\ p[i] = q[i]
    <3> SUFFICES ASSUME NEW i \in 1..m
                 PROVE  i \in 1..l /\ p[i] = q[i]
      OBVIOUS
    <3>1. <<i, p[i]>> \in graph[q]
      BY <1>4, <1>5, <2>1
    <3> QED BY <1>4, <2>2, <3>1
  <2>4. \A i \in 1..l : i \in 1..m
    <3> SUFFICES ASSUME NEW i \in 1..l
                 PROVE  i \in 1..m
      OBVIOUS
    <3>1. <<i, q[i]>> \in graph[p]
      BY <1>4, <1>5, <2>2
    <3> QED BY <1>4, <2>1, <3>1
  <2>5. 1..m = 1..l
    BY <2>3, <2>4
  <2> QED BY <2>1, <2>2, <2>3, <2>5
<1>6. graph \in Injection(SeqOf(S, n), T)
  BY <1>3, <1>4, <1>5 DEF Injection, IsInjective
<1> QED BY <1>2, <1>6, FS_Injection

\* A set of paths that has with a path all that the path dominates.
Closed(C) == \A p \in C, q \in Enumerated : Dominates(p, q) => q \in C

CatalogTyped ==
  /\ net \in Nets /\ tolerance \in Tolerances
  /\ pass \in {"enumerate", "filter", "done"}
  /\ ahead \subseteq Enumerated
  /\ pass = "done" => ahead = {}
  /\ kept \subseteq (IF pass = "done" THEN Enumerated \cup {<< >>} ELSE Enumerated)

\* What leaves the catalogue is dominated by what stays.
LossInv == \A C \in SUBSET Enumerated : Closed(C) /\ Standing \subseteq C => Seen \subseteq C

\* There are finitely many paths, and none is empty.
LEMMA EnumeratedFinite ==
  ASSUME net \in Nets
  PROVE  /\ IsFiniteSet(Enumerated)
         /\ \A p \in Enumerated : /\ p \in Seq(Stations) /\ Len(p) \in 1..net.stations
                                  /\ DOMAIN p = 1..Len(p) /\ p # << >>
         /\ net.stations \in Nat /\ Stations = 1..net.stations
<1>1. net.stations \in Nat /\ Stations = 1..net.stations
  BY NetAssumption DEF Stations
<1>2. IsFiniteSet(SeqOf(Stations, net.stations))
  BY <1>1, FS_Interval, SeqOfFinite
<1>3. IsFiniteSet(Enumerated)
  <2>1. Enumerated \in SUBSET SeqOf(Stations, net.stations)
    BY DEF Enumerated, Elementary
  <2> QED BY <1>2, <2>1, FS_Subset
<1>4. ASSUME NEW p \in Enumerated
      PROVE  /\ p \in Seq(Stations) /\ Len(p) \in 1..net.stations
             /\ DOMAIN p = 1..Len(p) /\ p # << >>
  <2>1. p \in SeqOf(Stations, net.stations) /\ p # << >>
    BY DEF Enumerated, Elementary
  <2>2. PICK m \in 0..net.stations : p \in [1..m -> Stations]
    BY <2>1 DEF SeqOf
  <2>3. p \in Seq(Stations) /\ Len(p) = m /\ DOMAIN p = 1..m
    BY <1>1, <2>2
  <2>4. m # 0
    BY <2>1, <2>2
  <2> QED BY <1>1, <2>1, <2>3, <2>4
<1> QED BY <1>1, <1>3, <1>4

\* The net and the tolerance decide what there is and what it dominates.
LEMMA NetStays ==
  ASSUME UNCHANGED <<net, tolerance>>
  PROVE  /\ Enumerated' = Enumerated
         /\ \A p, q : Dominates(p, q)' <=> Dominates(p, q)
         /\ \A C : Closed(C)' <=> Closed(C)
<1>1. \A a, b : Leg(a, b)' = Leg(a, b)
  BY DEF Leg
<1>2. \A p : Driven(p)' = Driven(p)
  BY DEF Driven, Leg, Nodes, FoldFunction, FoldFunctionOnSet, MapThenFoldSet
<1>3. \A p : First(p)' = First(p) /\ Back(p)' = Back(p)
  BY DEF First, Back, Leg
<1>4. \A p : Length(p)' = Length(p)
  BY <1>2, <1>3 DEF Length
<1>5. \A p : Ranks(p)' = Ranks(p)
  BY DEF Ranks
<1>6. \A p : Fastest(p)' = Fastest(p) /\ Slowest(p)' = Slowest(p)
  BY <1>5 DEF Fastest, Slowest
<1>7. \A p, q : Dominates(p, q)' <=> Dominates(p, q)
  BY <1>3, <1>4, <1>6 DEF Dominates
<1>8. Elementary' = Elementary
  BY DEF Elementary, Stations
<1>9. \A a, b : Reachable(a, b)' <=> Reachable(a, b)
  BY <1>1 DEF Reachable
<1>10. \A d : TimeLowerBound(d)' = TimeLowerBound(d)
  BY DEF TimeLowerBound
<1>11. \A p : Passable(p)' <=> Passable(p)
  BY <1>4, <1>9, <1>10 DEF Passable, Nodes
<1>12. Enumerated' = Enumerated
  BY <1>8, <1>9, <1>11 DEF Enumerated
<1> QED BY <1>7, <1>12 DEF Closed

\* Paths of stations, their ranks, and their lengths.
LEMMA PathTyped ==
  ASSUME net \in Nets, NEW p \in Elementary
  PROVE  /\ p \in Seq(Int) /\ Len(p) \in 1..net.stations /\ DOMAIN p = 1..Len(p)
         /\ \A i \in DOMAIN p : p[i] \in Stations /\ Nodes(p)[i] \in Origin..net.stations
         /\ Last(p) \in Stations /\ Head(p) \in Stations
<1>1. net.stations \in Nat /\ Stations = 1..net.stations
  BY NetAssumption DEF Stations
<1>2. p \in SeqOf(Stations, net.stations) /\ p # << >>
  BY DEF Elementary
<1>3. PICK m \in 0..net.stations : p \in [1..m -> Stations]
  BY <1>2 DEF SeqOf
<1>4. p \in Seq(Stations) /\ Len(p) = m /\ DOMAIN p = 1..m /\ m # 0
  BY <1>1, <1>2, <1>3
<1>5. p \in Seq(Int) /\ \A i \in DOMAIN p : p[i] \in Stations
  BY <1>1, <1>3, <1>4
<1>6. Last(p) \in Stations /\ Head(p) \in Stations
  <2>1. Last(p) = p[m] /\ Head(p) = p[1]
    BY <1>4 DEF Last
  <2> QED BY <1>1, <1>4, <1>5, <2>1
<1>7. ASSUME NEW i \in DOMAIN p
      PROVE  Nodes(p)[i] \in Origin..net.stations
  <2>1. CASE i = 1
    <3>1. Nodes(p)[1] = Origin
      BY <1>5 DEF Nodes, Origin
    <3> QED BY <1>1, <2>1, <3>1 DEF Origin
  <2>2. CASE i # 1
    <3>1. i - 1 \in DOMAIN p /\ i \in 1..m /\ m \in Nat
      BY <1>1, <1>4, <2>2
    <3>2. Nodes(p)[i] = p[i - 1]
      BY <1>4, <1>5, <2>2, <3>1 DEF Nodes, Origin
    <3> QED BY <1>1, <1>5, <3>1, <3>2 DEF Origin
  <2> QED BY <2>1, <2>2
<1> QED BY <1>1, <1>4, <1>5, <1>6, <1>7

\* The lengths of a path's legs.
Legs(p) == [i \in DOMAIN p |-> Leg(Nodes(p)[i], p[i])]

\* Lengths are numbers.
LEMMA LengthTyped ==
  ASSUME net \in Nets, NEW p \in Elementary
  PROVE  /\ \A i \in DOMAIN p : Legs(p)[i] \in Int
         /\ Driven(p) = Total(Legs(p), DOMAIN p)
         /\ Driven(p) \in Int /\ First(p) \in Int /\ Back(p) \in Int /\ Length(p) \in Int
<1>1. net.stations \in Nat /\ Stations = 1..net.stations
  BY NetAssumption DEF Stations
<1>2. \A a, b \in Target..net.stations : Leg(a, b) \in Int
  BY NetAssumption DEF Leg
<1>3. \A i \in DOMAIN p : Legs(p)[i] \in Int
  <2> SUFFICES ASSUME NEW i \in DOMAIN p
               PROVE  Leg(Nodes(p)[i], p[i]) \in Int
    BY DEF Legs
  <2>1. Nodes(p)[i] \in Target..net.stations /\ p[i] \in Target..net.stations
    BY <1>1, PathTyped DEF Target, Origin
  <2> QED BY <1>2, <2>1
<1>4. Driven(p) = Total(Legs(p), DOMAIN p)
  BY DEF Driven, Legs, Total, MapThenSumSet, FoldFunction, FoldFunctionOnSet, MapThenFoldSet
<1>5. IsFiniteSet(DOMAIN p)
  BY <1>1, PathTyped, FS_Interval
<1>6. Driven(p) \in Int
  <2>1. PICK f, S : f = Legs(p) /\ S = DOMAIN p
    OBVIOUS
  <2>2. Total(f, S) \in Int
    BY <1>3, <1>5, <2>1, TotalType
  <2> QED BY <1>4, <2>1, <2>2
<1>7. First(p) \in Int /\ Back(p) \in Int
  <2>1. Head(p) \in Target..net.stations /\ Last(p) \in Target..net.stations
    BY <1>1, PathTyped DEF Target
  <2>2. Origin \in Target..net.stations /\ Target \in Target..net.stations
    BY <1>1 DEF Target, Origin
  <2> QED BY <1>2, <2>1, <2>2 DEF First, Back
<1>8. Length(p) \in Int
  BY <1>6, <1>7 DEF Length
<1> QED BY <1>3, <1>4, <1>6, <1>7, <1>8

\* The fastest and the slowest rank are ranks, and bound the others.
LEMMA RankBounds ==
  ASSUME net \in Nets, NEW p \in Elementary
  PROVE  /\ Fastest(p) \in Int /\ Slowest(p) \in Int /\ Fastest(p) <= Slowest(p)
         /\ \A i \in DOMAIN p : /\ net.rank[p[i]] \in Int
                                /\ Fastest(p) <= net.rank[p[i]]
                                /\ net.rank[p[i]] <= Slowest(p)
         /\ \E i \in DOMAIN p : net.rank[p[i]] = Slowest(p)
<1>1. net.stations \in Nat /\ Stations = 1..net.stations
  BY NetAssumption DEF Stations
<1>2. \A i \in DOMAIN p : net.rank[p[i]] \in Int
  <2>1. \A i \in DOMAIN p : p[i] \in 1..net.stations
    BY <1>1, PathTyped
  <2>2. \A i \in 1..net.stations : net.rank[i] \in Int
    BY NetAssumption
  <2> QED BY <2>1, <2>2
<1>3. PICK R : R = Ranks(p)
  OBVIOUS
<1>4. /\ R # {} /\ \A x \in R : x \in Int
      /\ \A i \in DOMAIN p : net.rank[p[i]] \in R
      /\ \A x \in R : \E i \in DOMAIN p : net.rank[p[i]] = x
  <2>1. 1 \in DOMAIN p
    BY <1>1, PathTyped
  <2> QED BY <1>2, <1>3, <2>1 DEF Ranks
<1>5. IsFiniteSet(R)
  <2>1. IsFiniteSet(DOMAIN p)
    BY <1>1, PathTyped, FS_Interval
  <2>2. PICK f, D : D = DOMAIN p /\ f = [i \in D |-> net.rank[p[i]]]
    OBVIOUS
  <2>3. f \in Surjection(D, R)
    BY <1>3, <2>2 DEF Ranks, Surjection
  <2> QED BY <2>1, <2>2, <2>3, FS_Surjection
<1>6. Fastest(p) \in R /\ \A x \in R : Fastest(p) <= x
  <2>1. PICK f : f = [x \in R |-> x]
    OBVIOUS
  <2>2. \A x \in R : f[x] \in Int /\ f[x] = x
    BY <1>4, <2>1
  <2>3. \E x \in R : \A y \in R : f[x] <= f[y]
    BY <1>4, <1>5, <2>2, LeastExists
  <2>4. \E x \in R : \A y \in R : x <= y
    BY <2>2, <2>3
  <2> QED BY <1>3, <2>4 DEF Fastest, Min
<1>7. Slowest(p) \in R /\ \A x \in R : Slowest(p) >= x
  <2>1. PICK f : f = [x \in R |-> -x]
    OBVIOUS
  <2>2. \A x \in R : f[x] \in Int /\ f[x] = -x /\ x \in Int
    BY <1>4, <2>1
  <2>3. \E x \in R : \A y \in R : f[x] <= f[y]
    BY <1>4, <1>5, <2>2, LeastExists
  <2>4. \E x \in R : \A y \in R : x >= y
    BY <2>2, <2>3
  <2> QED BY <1>3, <2>4 DEF Slowest, Max
<1> QED BY <1>2, <1>4, <1>6, <1>7

\* The key of a path, by which the filter takes the paths in order.
LEMMA KeyTyped ==
  ASSUME net \in Nets, NEW p \in Elementary
  PROVE  SortKey(p) \in Seq(Int)
<1>1. p \in Seq(Int)
  BY PathTyped
<1>2. First(p) \in Int /\ Back(p) \in Int /\ Length(p) \in Int
  BY LengthTyped
<1>3. Fastest(p) \in Int /\ Slowest(p) \in Int
  BY RankBounds
<1>4. <<First(p), Back(p), Length(p), Fastest(p), Slowest(p)>> \in Seq(Int)
  BY <1>2, <1>3
<1> QED BY <1>1, <1>4 DEF SortKey

\* The keys candidates are sorted by tell all paths apart.
LEMMA KeysDiffer ==
  ASSUME net \in Nets, NEW p \in Elementary, NEW q \in Elementary, p # q
  PROVE  SortKey(p) # SortKey(q)
<1> SUFFICES ASSUME SortKey(p) = SortKey(q)
             PROVE  p = q
  OBVIOUS
<1>1. PICK a, b : /\ a = <<First(p), Back(p), Length(p), Fastest(p), Slowest(p)>>
                  /\ b = <<First(q), Back(q), Length(q), Fastest(q), Slowest(q)>>
  OBVIOUS
<1>2. p \in Seq(Int) /\ q \in Seq(Int)
  BY PathTyped
<1>3. a \in Seq(Int) /\ b \in Seq(Int) /\ Len(a) = 5 /\ Len(b) = 5
  BY <1>1, LengthTyped, RankBounds
<1>4. a \o p = b \o q
  BY <1>1 DEF SortKey
<1>5. Len(a \o p) = 5 + Len(p) /\ Len(b \o q) = 5 + Len(q)
  <2>1. \A x, y \in Seq(Int) : Len(x \o y) = Len(x) + Len(y)
    OBVIOUS
  <2> QED BY <1>2, <1>3, <2>1
<1>6. Len(p) = Len(q) /\ Len(p) \in Nat
  BY <1>2, <1>4, <1>5
<1>7. \A i \in 1..Len(p) : p[i] = (a \o p)[i + 5] /\ q[i] = (b \o q)[i + 5]
  <2>1. \A x, y \in Seq(Int) : \A i \in 1..Len(y) : y[i] = (x \o y)[i + Len(x)]
    OBVIOUS
  <2>2. \A i \in 1..Len(p) : p[i] = (a \o p)[i + Len(a)]
    BY <1>2, <1>3, <2>1
  <2>3. \A i \in 1..Len(q) : q[i] = (b \o q)[i + Len(b)]
    BY <1>2, <1>3, <2>1
  <2> QED BY <1>3, <1>6, <2>2, <2>3
<1>8. \A i \in 1..Len(p) : p[i] = q[i]
  BY <1>4, <1>7
<1> QED BY <1>2, <1>6, <1>8

\* A pass takes a path that is still to come.
LEMMA NextIsAhead ==
  ASSUME CatalogTyped, ahead # {}
  PROVE  Least(ahead, LAMBDA q : q) \in ahead /\ Least(ahead, SortKey) \in ahead
<1>1. PICK sequence, key : /\ sequence = [p \in ahead |-> p]
                           /\ key = [p \in ahead |-> SortKey(p)]
  OBVIOUS
<1>2. \A p \in ahead : sequence[p] = p /\ key[p] = SortKey(p)
  BY <1>1
<1>3. IsFiniteSet(ahead)
  BY EnumeratedFinite, FS_Subset DEF CatalogTyped
<1>4. ahead \subseteq Elementary
  BY DEF CatalogTyped, Enumerated
<1>5. TellsApart(sequence, ahead)
  <2>1. \A p \in ahead : p \in Seq(Int)
    BY <1>4, PathTyped DEF CatalogTyped
  <2> QED BY <1>2, <2>1 DEF TellsApart
<1>6. TellsApart(key, ahead)
  <2>1. \A p \in ahead : SortKey(p) \in Seq(Int)
    BY <1>4, KeyTyped DEF CatalogTyped
  <2>2. \A p, q \in ahead : p # q => SortKey(p) # SortKey(q)
    BY <1>4, KeysDiffer DEF CatalogTyped
  <2> QED BY <1>2, <2>1, <2>2 DEF TellsApart
<1>7. \E p \in ahead : \A q \in ahead \ {p} : LexLess(sequence[p], sequence[q])
  BY <1>3, <1>5, LeastByKey
<1>8. \E p \in ahead : \A q \in ahead \ {p} : LexLess(key[p], key[q])
  BY <1>3, <1>6, LeastByKey
<1>9. \E p \in ahead : \A q \in ahead \ {p} : LexLess(p, q)
  BY <1>2, <1>7
<1>10. \E p \in ahead : \A q \in ahead \ {p} : LexLess(SortKey(p), SortKey(q))
  BY <1>2, <1>8
<1> QED BY <1>9, <1>10 DEF Least

\* Nothing is lost before anything was enumerated.
LEMMA CatalogStarts ==
  ASSUME CatalogInit
  PROVE  CatalogTyped /\ LossInv
<1>1. Seen = {}
  BY DEF CatalogInit, Seen
<1> QED BY <1>1 DEF CatalogInit, CatalogTyped, LossInv

\* A path that is offered stands, or something that dominates it does.
LEMMA OfferKeeps ==
  ASSUME CatalogTyped, LossInv, Offer
  PROVE  CatalogTyped' /\ LossInv'
<1>1. PICK p : /\ p = Least(ahead, LAMBDA q : q) /\ ahead' = ahead \ {p}
               /\ kept' = IF Refused(p) THEN kept ELSE With(p)
  BY DEF Offer
<1>2. p \in ahead /\ p \in Enumerated
  BY <1>1, NextIsAhead DEF Offer, CatalogTyped
<1>3. /\ Enumerated' = Enumerated
      /\ \A C : Closed(C)' <=> Closed(C)
  BY NetStays DEF Offer
<1>4. kept \subseteq Enumerated /\ pass = "enumerate" /\ pass' = "enumerate"
  BY DEF CatalogTyped, Offer
<1>5. kept' \subseteq Enumerated
  BY <1>1, <1>2, <1>4 DEF With
<1>6. CatalogTyped'
  BY <1>1, <1>3, <1>4, <1>5 DEF CatalogTyped, Offer
<1>7. << >> \notin Enumerated
  BY DEF Enumerated, Elementary
<1>8. ASSUME NEW C \in SUBSET Enumerated, Closed(C), Standing' \subseteq C
      PROVE  Seen' \subseteq C
  <2>1. kept' \subseteq C
    BY <1>4, <1>5, <1>7, <1>8 DEF Standing
  <2>2. p \in C
    BY <1>1, <1>2, <1>8, <2>1 DEF Refused, With, Closed
  <2>3. kept \subseteq C
    BY <1>1, <1>4, <1>8, <2>1, <2>2 DEF With, Closed
  <2>4. Seen \subseteq C
    BY <1>4, <1>8, <2>3 DEF LossInv, Standing
  <2> QED BY <1>1, <1>3, <1>4, <2>2, <2>4 DEF Seen
<1>9. LossInv'
  BY <1>3, <1>8 DEF LossInv
<1> QED BY <1>6, <1>9

\* Sorting changes the order only.
LEMMA SortKeeps ==
  ASSUME CatalogTyped, LossInv, Sort
  PROVE  CatalogTyped' /\ LossInv'
<1>1. /\ Enumerated' = Enumerated
      /\ \A C : Closed(C)' <=> Closed(C)
  BY NetStays DEF Sort
<1>2. kept \subseteq Enumerated /\ << >> \notin Enumerated
  BY DEF CatalogTyped, Sort, Enumerated, Elementary
<1>3. Standing' = Standing /\ Seen' = Seen
  BY <1>1, <1>2 DEF Sort, Standing, Seen
<1>4. CatalogTyped'
  BY <1>1, <1>2 DEF CatalogTyped, Sort
<1>5. LossInv'
  BY <1>1, <1>3 DEF LossInv
<1> QED BY <1>4, <1>5

\* What the second pass drops is dominated by what it keeps.
LEMMA FilterKeeps ==
  ASSUME CatalogTyped, LossInv, Filter
  PROVE  CatalogTyped' /\ LossInv'
<1>1. PICK p : /\ p = Least(ahead, SortKey) /\ ahead' = ahead \ {p}
               /\ kept' = IF \E k \in kept : Dominates(k, p) THEN kept ELSE With(p)
  BY DEF Filter
<1>2. p \in ahead /\ p \in Enumerated
  BY <1>1, NextIsAhead DEF Filter, CatalogTyped
<1>3. /\ Enumerated' = Enumerated
      /\ \A C : Closed(C)' <=> Closed(C)
  BY NetStays DEF Filter
<1>4. kept \subseteq Enumerated /\ pass = "filter" /\ pass' = "filter"
  BY DEF CatalogTyped, Filter
<1>5. kept' \subseteq Enumerated
  BY <1>1, <1>2, <1>4 DEF With
<1>6. CatalogTyped'
  BY <1>1, <1>3, <1>4, <1>5 DEF CatalogTyped, Filter
<1>7. ASSUME NEW C \in SUBSET Enumerated, Closed(C), Standing' \subseteq C
      PROVE  Seen' \subseteq C
  <2>1. kept' \subseteq C /\ ahead' \subseteq C
    BY <1>4, <1>7 DEF Standing
  <2>2. p \in C
    BY <1>1, <1>2, <1>7, <2>1 DEF With, Closed
  <2>3. kept \cup ahead \subseteq C
    BY <1>1, <1>4, <1>7, <2>1, <2>2 DEF With, Closed
  <2>4. Seen \subseteq C
    BY <1>4, <1>7, <2>3 DEF LossInv, Standing
  <2> QED BY <1>3, <1>4, <2>4 DEF Seen
<1>8. LossInv'
  BY <1>3, <1>7 DEF LossInv
<1> QED BY <1>6, <1>8

\* Writing the catalogue out changes nothing that stands.
LEMMA MaterializeKeeps ==
  ASSUME CatalogTyped, LossInv, Materialize
  PROVE  CatalogTyped' /\ LossInv'
<1>1. /\ Enumerated' = Enumerated
      /\ \A C : Closed(C)' <=> Closed(C)
  BY NetStays DEF Materialize
<1>2. kept \subseteq Enumerated /\ << >> \notin Enumerated
  BY DEF CatalogTyped, Materialize, Enumerated, Elementary
<1>3. Standing' = Standing /\ Seen' = Seen
  BY <1>1, <1>2 DEF Materialize, Standing, Seen
<1>4. CatalogTyped'
  BY <1>1, <1>2 DEF CatalogTyped, Materialize
<1>5. LossInv'
  BY <1>1, <1>3 DEF LossInv
<1> QED BY <1>4, <1>5

\* No path is lost at any moment of the two passes.
LEMMA LossInvariant == CatalogSpec => [](CatalogTyped /\ LossInv)
<1>1. ASSUME CatalogTyped /\ LossInv, [CatalogNext]_catalogVars
      PROVE  CatalogTyped' /\ LossInv'
  <2>1. CASE UNCHANGED catalogVars
    <3>1. /\ Enumerated' = Enumerated
          /\ \A C : Closed(C)' <=> Closed(C)
      BY <2>1, NetStays DEF catalogVars
    <3>2. Standing' = Standing /\ Seen' = Seen
      BY <2>1, <3>1 DEF catalogVars, Standing, Seen
    <3> QED BY <1>1, <2>1, <3>1, <3>2 DEF catalogVars, CatalogTyped, LossInv
  <2> QED BY <1>1, <2>1, OfferKeeps, SortKeeps, FilterKeeps, MaterializeKeeps DEF CatalogNext
<1> QED BY <1>1, CatalogStarts, PTL DEF CatalogSpec

\* Paths dominated from a closed set stay in it, so what can be reached fills it.
LEMMA ReachFills ==
  ASSUME CatalogTyped, LossInv
  PROVE  NothingLost
<1>1. PICK U : U = Enumerated
  OBVIOUS
<1>2. IsFiniteSet(U)
  BY <1>1, EnumeratedFinite DEF CatalogTyped
<1>3. PICK N \in Nat : N = Cardinality(U)
  BY <1>2, FS_CardinalityType
<1>4. Standing \in SUBSET U
  BY <1>1 DEF Standing, CatalogTyped
<1>5. PICK D : D = [S \in SUBSET U |-> Dominated(S)]
  OBVIOUS
<1>6. \A S \in SUBSET U : D[S] \in SUBSET U /\ S \subseteq D[S] /\ D[S] = Dominated(S)
  BY <1>1, <1>5 DEF Dominated
<1>7. PICK p : p[0] = Standing /\ \A k \in 1..N : p[k] = D[p[k - 1]]
  <2>1. PICK V, base, step : /\ V = SUBSET U /\ base = Standing
                             /\ step = [k \in 1..N |-> D]
    OBVIOUS
  <2>2. base \in V /\ StepsInto(step, 1..N, V)
    BY <1>4, <1>6, <2>1 DEF StepsInto
  <2>3. PICK g : FoldsLeft(g, N, V, base, step)
    BY <2>2, LeftFoldExists
  <2>4. FoldsAlong(g, N, V, base, step)
    BY <2>3 DEF FoldsLeft, FoldsAlong
  <2>5. PICK q : Running(q, N, V, base, step)
    BY <2>2, <2>4, LeftFoldPrefixes
  <2> QED BY <2>1, <2>5 DEF Running
<1>8. \A k \in 0..N : p[k] \in SUBSET U
  <2>1. PICK K : K = {k \in 0..N : p[k] \in SUBSET U}
    OBVIOUS
  <2>2. 0 \in K /\ \A k \in 1..N : k - 1 \in K => k \in K
    BY <1>4, <1>6, <1>7, <2>1
  <2>3. \A k \in 0..N : k \in K
    BY <2>2, UpTo
  <2> QED BY <2>1, <2>3
<1> DEFINE Fills(f) == f = [k \in 0..N |-> IF k = 0 THEN Standing ELSE Dominated(f[k - 1])]
<1>9. PICK f : f = [k \in 0..N |-> p[k]]
  OBVIOUS
<1>10. Fills(f)
  <2>1. \A k \in 0..N : f[k] = IF k = 0 THEN Standing ELSE Dominated(f[k - 1])
    BY <1>6, <1>7, <1>8, <1>9
  <2> QED BY <1>9, <2>1
<1>11. Reach = CHOOSE h : Fills(h)
  BY <1>1, <1>3 DEF Reach
<1>12. Fills(Reach)
  BY <1>10, <1>11
<1>13. \A k \in 0..N : Reach[k] = p[k]
  <2>1. PICK K : K = {k \in 0..N : Reach[k] = p[k]}
    OBVIOUS
  <2>2. 0 \in K
    BY <1>7, <1>12, <2>1
  <2>3. \A k \in 1..N : k - 1 \in K => k \in K
    BY <1>6, <1>7, <1>8, <1>12, <2>1
  <2>4. \A k \in 0..N : k \in K
    BY <2>2, <2>3, UpTo
  <2> QED BY <2>1, <2>4
<1>14. PICK n \in 0..N : p[n] \in SUBSET U /\ D[p[n]] = p[n]
  BY <1>2, <1>3, <1>4, <1>6, <1>7, Saturates
<1>15. Closed(p[n])
  BY <1>1, <1>6, <1>14 DEF Dominated, Closed
<1>16. Standing \subseteq p[n]
  <2>1. PICK K : K = {k \in 0..N : Standing \subseteq p[k]}
    OBVIOUS
  <2>2. 0 \in K
    BY <1>7, <2>1
  <2>3. \A k \in 1..N : k - 1 \in K => k \in K
    BY <1>6, <1>7, <1>8, <2>1
  <2>4. \A k \in 0..N : k \in K
    BY <2>2, <2>3, UpTo
  <2> QED BY <2>1, <2>4
<1>17. Seen \subseteq p[n]
  BY <1>1, <1>14, <1>15, <1>16 DEF LossInv
<1> QED BY <1>1, <1>3, <1>13, <1>17 DEF NothingLost

\* Every path that was enumerated is dominated, directly or through others,
\* by a path that still stands.
THEOREM CatalogueLosesNothing == CatalogSpec => []NothingLost
<1>1. CatalogTyped /\ LossInv => NothingLost
  BY ReachFills
<1> QED BY <1>1, LossInvariant, PTL

-----------------------------------------------------------------------------
(* The sampler that builds no catalogue.                                   *)

\* What the enumeration and the sampler compare: of two paths that dominate
\* each other the one with the smaller key wins.
Beats(k, p) ==
  /\ k # p /\ Dominates(k, p)
  /\ Dominates(p, k) => LexLess(SortKey(k), SortKey(p))

\* Without a tolerance dominance is transitive.
LEMMA DominanceChains ==
  ASSUME net \in Nets, tolerance = 0,
         NEW p \in Elementary, NEW q \in Elementary, NEW r \in Elementary,
         Dominates(p, q), Dominates(q, r)
  PROVE  Dominates(p, r)
<1>1. /\ First(p) \in Int /\ First(q) \in Int /\ First(r) \in Int
      /\ Back(p) \in Int /\ Back(q) \in Int /\ Back(r) \in Int
      /\ Length(p) \in Int /\ Length(q) \in Int /\ Length(r) \in Int
  BY LengthTyped
<1>2. /\ Slowest(p) \in Int /\ Fastest(q) \in Int /\ Fastest(q) <= Slowest(q)
      /\ Slowest(q) \in Int /\ Fastest(r) \in Int
  BY RankBounds
<1>3. Slowest(p) <= Fastest(q) /\ Slowest(q) <= Fastest(r)
  BY DEF Dominates
<1>4. Slowest(p) <= Fastest(r)
  BY <1>2, <1>3
<1>5. First(p) <= First(q) + 0 /\ Back(p) <= Back(q) + 0 /\ Length(p) <= Length(q) + 0
  BY DEF Dominates
<1>6. First(q) <= First(r) + 0 /\ Back(q) <= Back(r) + 0 /\ Length(q) <= Length(r) + 0
  BY DEF Dominates
<1>7. First(p) <= First(r) + 0 /\ Back(p) <= Back(r) + 0 /\ Length(p) <= Length(r) + 0
  BY <1>1, <1>5, <1>6
<1> QED BY <1>4, <1>7 DEF Dominates

\* Paths that dominate each other differ in their stations only.
LEMMA EqualPaths ==
  ASSUME net \in Nets, tolerance = 0, NEW p \in Elementary, NEW q \in Elementary,
         Dominates(p, q), Dominates(q, p)
  PROVE  LexLess(SortKey(p), SortKey(q)) <=> LexLess(p, q)
<1>1. /\ First(p) \in Int /\ First(q) \in Int /\ Back(p) \in Int /\ Back(q) \in Int
      /\ Length(p) \in Int /\ Length(q) \in Int
  BY LengthTyped
<1>2. /\ Slowest(p) \in Int /\ Fastest(p) \in Int /\ Fastest(p) <= Slowest(p)
      /\ Slowest(q) \in Int /\ Fastest(q) \in Int /\ Fastest(q) <= Slowest(q)
  BY RankBounds
<1>3. Slowest(p) <= Fastest(q) /\ Slowest(q) <= Fastest(p)
  BY DEF Dominates
<1>4. Fastest(p) = Fastest(q) /\ Slowest(p) = Slowest(q)
  BY <1>2, <1>3
<1>5. /\ First(p) <= First(q) + 0 /\ Back(p) <= Back(q) + 0 /\ Length(p) <= Length(q) + 0
      /\ First(q) <= First(p) + 0 /\ Back(q) <= Back(p) + 0 /\ Length(q) <= Length(p) + 0
  BY DEF Dominates
<1>6. First(p) = First(q) /\ Back(p) = Back(q) /\ Length(p) = Length(q)
  BY <1>1, <1>5
<1>7. PICK h : h = <<First(p), Back(p), Length(p), Fastest(p), Slowest(p)>>
  OBVIOUS
<1>8. h \in Seq(Int) /\ p \in Seq(Int) /\ q \in Seq(Int)
  BY <1>1, <1>2, <1>7, PathTyped
<1>9. SortKey(p) = h \o p /\ SortKey(q) = h \o q
  BY <1>4, <1>6, <1>7 DEF SortKey
<1> QED BY <1>8, <1>9, LexOfAppend

\* To beat is transitive.
LEMMA BeatsChains ==
  ASSUME net \in Nets, tolerance = 0,
         NEW p \in Elementary, NEW q \in Elementary, NEW r \in Elementary,
         Beats(p, q), Beats(q, r)
  PROVE  Beats(p, r)
<1>1. Dominates(p, q) /\ Dominates(q, r)
  BY DEF Beats
<1>2. Dominates(p, r)
  BY <1>1, DominanceChains
<1>3. ASSUME Dominates(r, p)
      PROVE  LexLess(SortKey(p), SortKey(q)) /\ LexLess(SortKey(q), SortKey(r))
  <2>1. Dominates(q, p) /\ Dominates(r, q)
    BY <1>1, <1>3, DominanceChains
  <2> QED BY <2>1 DEF Beats
<1>4. SortKey(p) \in Seq(Int) /\ SortKey(q) \in Seq(Int) /\ SortKey(r) \in Seq(Int)
  BY KeyTyped
<1>5. Dominates(r, p) => LexLess(SortKey(p), SortKey(r))
  BY <1>3, <1>4, LexTransitive
<1>6. p # r
  <2> SUFFICES ASSUME p = r
               PROVE  FALSE
    OBVIOUS
  <2>1. Dominates(q, p) /\ Dominates(p, q)
    BY <1>1
  <2>2. LexLess(SortKey(p), SortKey(q)) /\ LexLess(SortKey(q), SortKey(p))
    BY <2>1 DEF Beats
  <2>3. LexLess(SortKey(p), SortKey(p))
    BY <1>4, <2>2, LexTransitive
  <2> QED BY <1>4, <2>3, LexIrreflexive
<1> QED BY <1>2, <1>5, <1>6 DEF Beats

\* Of two paths that dominate each other one beats the other.
LEMMA BeatsOneWay ==
  ASSUME net \in Nets, NEW p \in Elementary, NEW q \in Elementary, p # q, Dominates(p, q)
  PROVE  Beats(p, q) \/ Beats(q, p)
<1>1. SortKey(p) \in Seq(Int) /\ SortKey(q) \in Seq(Int) /\ SortKey(p) # SortKey(q)
  BY KeyTyped, KeysDiffer
<1>2. LexLess(SortKey(p), SortKey(q)) \/ LexLess(SortKey(q), SortKey(p))
  BY <1>1, LexTotal
<1> QED BY <1>2 DEF Beats

\* The beginning of a path is a path, with the legs of the whole.
LEMMA Prefix ==
  ASSUME net \in Nets, NEW p \in Elementary, NEW i \in DOMAIN p
  PROVE  /\ SubSeq(p, 1, i) \in Elementary
         /\ DOMAIN SubSeq(p, 1, i) = 1..i
         /\ Last(SubSeq(p, 1, i)) = p[i]
         /\ \A j \in 1..i : Legs(SubSeq(p, 1, i))[j] = Legs(p)[j]
         /\ i = Len(p) => SubSeq(p, 1, i) = p
<1>1. net.stations \in Nat /\ Stations = 1..net.stations
  BY NetAssumption DEF Stations
<1>2. PICK n \in 1..net.stations : n = Len(p) /\ DOMAIN p = 1..n /\ i \in 1..n /\ n \in Nat
  BY <1>1, PathTyped
<1>3. p \in Seq(Int) /\ \A j \in 1..n : p[j] \in Stations
  BY <1>2, PathTyped
<1>4. PICK q : q = SubSeq(p, 1, i)
  OBVIOUS
<1>5. q \in Seq(Int) /\ Len(q) = i /\ DOMAIN q = 1..i /\ \A j \in 1..i : q[j] = p[j]
  BY <1>2, <1>3, <1>4
<1>6. q \in Elementary
  <2>1. q \in [1..i -> Stations] /\ i \in 0..net.stations
    BY <1>1, <1>2, <1>3, <1>5
  <2>2. q \in SeqOf(Stations, net.stations)
    BY <2>1 DEF SeqOf
  <2>3. IsInjective(p)
    BY DEF Elementary
  <2>4. IsInjective(q)
    BY <1>2, <1>5, <2>3 DEF IsInjective
  <2>5. q # << >>
    BY <1>2, <1>5
  <2> QED BY <2>2, <2>4, <2>5 DEF Elementary
<1>7. Last(q) = p[i]
  BY <1>2, <1>5 DEF Last
<1>8. ASSUME NEW j \in 1..i
      PROVE  Legs(q)[j] = Legs(p)[j]
  <2>1. Nodes(q)[j] = Nodes(p)[j]
    <3>1. CASE j = 1
      BY <1>3, <1>5, <3>1 DEF Nodes
    <3>2. CASE j # 1
      <4>1. j - 1 \in 1..i /\ j - 1 \in 1..n
        BY <1>2, <3>2
      <4>2. Nodes(q)[j] = q[j - 1] /\ Nodes(p)[j] = p[j - 1]
        <5>1. \A x \in Seq(Int) : \A l \in 1..Len(x) : (<<Origin>> \o x)[l + 1] = x[l]
          BY DEF Origin
        <5>2. (<<Origin>> \o q)[j - 1 + 1] = q[j - 1] /\ (<<Origin>> \o p)[j - 1 + 1] = p[j - 1]
          BY <1>2, <1>3, <1>5, <4>1, <5>1
        <5>3. j - 1 + 1 = j
          BY <1>2
        <5> QED BY <5>2, <5>3 DEF Nodes
      <4> QED BY <1>5, <4>1, <4>2
    <3> QED BY <3>1, <3>2
  <2>2. j \in DOMAIN q /\ j \in DOMAIN p /\ q[j] = p[j]
    BY <1>2, <1>5
  <2> QED BY <2>1, <2>2 DEF Legs
<1>9. i = n => q = p
  BY <1>2, <1>3, <1>5
<1> QED BY <1>2, <1>4, <1>5, <1>6, <1>7, <1>8, <1>9

\* By the triangle inequality a path is at least as long as what it begins with.
LEMMA PrefixesAreShorter ==
  ASSUME net \in Nets, NEW p \in Elementary, NEW i \in DOMAIN p
  PROVE  Length(SubSeq(p, 1, i)) \in Int /\ Length(SubSeq(p, 1, i)) <= Length(p)
<1>1. net.stations \in Nat /\ Stations = 1..net.stations
  BY NetAssumption DEF Stations
<1>2. PICK n \in Nat : n = Len(p) /\ DOMAIN p = 1..n /\ i \in 1..n
  BY <1>1, PathTyped
<1>3. PICK legs : legs = Legs(p)
  OBVIOUS
<1>4. \A j \in 1..n : legs[j] \in Int
  BY <1>2, <1>3, LengthTyped
<1>5. PICK length : length = [j \in 1..n |-> Length(SubSeq(p, 1, j))]
  OBVIOUS
<1>6. PICK driven : driven = [j \in 1..n |-> Total(legs, 1..j)]
  OBVIOUS
<1>7. PICK back : back = [j \in 1..n |-> Leg(p[j], Target)]
  OBVIOUS
<1>8. ASSUME NEW j \in 1..n
      PROVE  /\ length[j] = driven[j] + back[j]
             /\ length[j] \in Int /\ driven[j] \in Int /\ back[j] \in Int
  <2>1. PICK q : q = SubSeq(p, 1, j)
    OBVIOUS
  <2>2. /\ q \in Elementary /\ DOMAIN q = 1..j /\ Last(q) = p[j]
        /\ \A l \in 1..j : Legs(q)[l] = legs[l]
    BY <1>2, <1>3, <2>1, Prefix
  <2>3. /\ \A l \in 1..j : Legs(q)[l] \in Int
        /\ Driven(q) = Total(Legs(q), 1..j)
        /\ Driven(q) \in Int /\ Back(q) \in Int /\ Length(q) \in Int
    BY <2>2, LengthTyped
  <2>4. PICK f, S : f = Legs(q) /\ S = 1..j
    OBVIOUS
  <2>5. Total(f, S) = Total(legs, S)
    <3>1. IsFiniteSet(S)
      BY <2>4, FS_Interval
    <3>2. \A x \in S : f[x] \in Int /\ f[x] = legs[x]
      BY <2>2, <2>3, <2>4
    <3> QED BY <3>1, <3>2, TotalSame
  <2>6. Driven(q) = driven[j]
    BY <1>6, <2>3, <2>4, <2>5
  <2>7. Back(q) = back[j]
    BY <1>7, <2>2 DEF Back
  <2> QED BY <1>5, <2>1, <2>3, <2>6, <2>7 DEF Length
<1>9. ASSUME NEW j \in 1..n, j + 1 \in 1..n
      PROVE  length[j] <= length[j + 1]
  <2>1. PICK S : S = 1..j + 1
    OBVIOUS
  <2>2. IsFiniteSet(S) /\ (\A x \in S : legs[x] \in Int) /\ j + 1 \in S
    <3>1. 1 \in Int /\ j + 1 \in Int /\ S = 1..(j + 1)
      BY <1>2, <2>1
    <3>2. IsFiniteSet(S)
      BY <3>1, FS_Interval
    <3>3. S \subseteq 1..n /\ j + 1 \in S
      BY <1>2, <1>9, <3>1
    <3> QED BY <1>4, <3>2, <3>3
  <2>3. Total(legs, S) = legs[j + 1] + Total(legs, S \ {j + 1})
    BY <2>2, TotalRemove
  <2>4. S \ {j + 1} = 1..j
    BY <2>1
  <2>5. driven[j + 1] = legs[j + 1] + driven[j]
    BY <1>6, <1>9, <2>1, <2>3, <2>4
  <2>6. p[j] \in 1..net.stations /\ p[j + 1] \in 1..net.stations
    BY <1>1, <1>2, <1>9, PathTyped
  <2>7. legs[j + 1] = Leg(p[j], p[j + 1])
    <3>1. p \in Seq(Int)
      BY PathTyped
    <3>2. \A x \in Seq(Int) : \A l \in 1..Len(x) : (<<Origin>> \o x)[l + 1] = x[l]
      BY DEF Origin
    <3>3. Nodes(p)[j + 1] = p[j]
      BY <1>2, <3>1, <3>2 DEF Nodes
    <3> QED BY <1>2, <1>3, <1>9, <3>3 DEF Legs
  <2>8. Leg(p[j], Target) <= Leg(p[j], p[j + 1]) + Leg(p[j + 1], Target)
    BY <2>6, TriangleInequality DEF Leg
  <2>9. back[j] <= legs[j + 1] + back[j + 1]
    BY <1>7, <1>9, <2>7, <2>8
  <2>10. /\ length[j] = driven[j] + back[j] /\ length[j + 1] = driven[j + 1] + back[j + 1]
         /\ driven[j] \in Int /\ driven[j + 1] \in Int /\ back[j] \in Int /\ back[j + 1] \in Int
    BY <1>8, <1>9
  <2>11. legs[j + 1] \in Int
    BY <1>4, <1>9
  <2> QED BY <2>5, <2>9, <2>10, <2>11
<1>10. \A k \in 0..n - i : i + k \in 1..n
  BY <1>2
<1>11. PICK K : K = {k \in 0..n - i : length[i] <= length[i + k]}
  OBVIOUS
<1>12. 0 \in K
  BY <1>2, <1>8, <1>11
<1>13. ASSUME NEW k \in 1..n - i, k - 1 \in K
       PROVE  k \in K
  <2>1. PICK j : j = i + (k - 1)
    OBVIOUS
  <2>2. j \in 1..n /\ j + 1 \in 1..n /\ j + 1 = i + k
    BY <1>2, <2>1
  <2>3. length[i] <= length[j]
    BY <1>11, <1>13, <2>1
  <2>4. length[j] <= length[j + 1]
    BY <1>9, <2>2
  <2>5. length[i] \in Int /\ length[j] \in Int /\ length[j + 1] \in Int
    BY <1>2, <1>8, <2>2
  <2>6. length[i] <= length[i + k]
    BY <2>2, <2>3, <2>4, <2>5
  <2> QED BY <1>11, <2>6
<1>14. PICK m \in Nat : m = n - i
  BY <1>2
<1>15. \A k \in 0..m : k \in K
  BY <1>12, <1>13, <1>14, UpTo
<1>16. length[i] <= length[n] /\ n \in 1..n
  <2>1. m \in K /\ i + m = n
    BY <1>2, <1>14, <1>15
  <2> QED BY <1>2, <1>11, <2>1
<1>17. length[n] = Length(p)
  BY <1>2, <1>5, <1>16, Prefix
<1> QED BY <1>2, <1>5, <1>8, <1>16, <1>17

-----------------------------------------------------------------------------
\* A longer route takes longer.
LEMMA LongerTakesLonger ==
  ASSUME net \in Nets, NEW a \in Int, NEW b \in Int, a <= b
  PROVE  /\ TimeLowerBound(a) \in Int /\ TimeLowerBound(b) \in Int
         /\ TimeLowerBound(a) <= TimeLowerBound(b)
<1>1. net.capacity \in Int /\ net.rest \in Int /\ net.service \in Int /\ net.slow \in Nat
  BY NetAssumption
<1>2. \A x \in Int : /\ Max({0, x}) \in Nat /\ x <= Max({0, x})
                     /\ \A y \in Int : y <= x => Max({0, y}) <= Max({0, x})
  <2>1. \A x \in Int : Max({0, x}) = IF x >= 0 THEN x ELSE 0
    <3> SUFFICES ASSUME NEW x \in Int
                 PROVE  Max({0, x}) = IF x >= 0 THEN x ELSE 0
      OBVIOUS
    <3>1. PICK m \in {0, x} : m = IF x >= 0 THEN x ELSE 0
      OBVIOUS
    <3>2. \A y \in {0, x} : m >= y
      BY <3>1
    <3>3. \A z \in {0, x} : (\A y \in {0, x} : z >= y) => z = m
      BY <3>1, <3>2
    <3> QED BY <3>1, <3>2, <3>3 DEF Max
  <2> QED BY <2>1
<1>3. PICK extra : extra = [x \in Int |-> Max({0, (x + net.rest) - net.capacity})]
  OBVIOUS
<1>4. extra[a] \in Nat /\ extra[b] \in Nat /\ extra[a] <= extra[b]
  <2>1. PICK x \in Int : x = (a + net.rest) - net.capacity
    BY <1>1
  <2>2. PICK y \in Int : y = (b + net.rest) - net.capacity
    BY <1>1
  <2>3. x <= y
    BY <1>1, <2>1, <2>2
  <2>4. extra[a] = Max({0, x}) /\ extra[b] = Max({0, y})
    BY <1>3, <2>1, <2>2, Zenon
  <2> QED BY <1>2, <2>3, <2>4
<1>5. PICK slow \in Nat : slow = net.slow
  BY <1>1
<1>6. PICK u, v : u = extra[a] * slow /\ v = extra[b] * slow
  OBVIOUS
<1>7. u \in Int /\ v \in Int /\ u <= v
  <2>1. \A l, m \in Nat : l * slow \in Int /\ (l <= m => l * slow <= m * slow)
    OBVIOUS
  <2> QED BY <1>4, <1>6, <2>1
<1>8. /\ TimeLowerBound(a) = net.service + (a + net.rest) + u
      /\ TimeLowerBound(b) = net.service + (b + net.rest) + v
  <2>1. \A x \in Int : TimeLowerBound(x) = net.service + (x + net.rest) + extra[x] * net.slow
    <3>1. \A x \in Int : TimeLowerBound(x) = net.service + (x + net.rest)
                              + Max({0, (x + net.rest) - net.capacity}) * net.slow
      BY Zenon DEF TimeLowerBound
    <3>2. \A x \in Int : extra[x] = Max({0, (x + net.rest) - net.capacity})
      BY <1>3, Zenon
    <3> QED BY <3>1, <3>2, Zenon
  <2> QED BY <1>5, <1>6, <2>1
<1> QED BY <1>1, <1>7, <1>8

\* The witnesses of the sampler are the enumerated paths that dominate.
LEMMA WitnessesAreDominating ==
  ASSUME net \in Nets, tolerance = 0, NEW p \in Enumerated, NEW w
  PROVE  w \in Witnesses(p) <=> w \in Enumerated /\ w # p /\ Dominates(w, p)
<1>1. p \in Elementary /\ Passable(p)
  BY DEF Enumerated
<1>2. First(p) \in Int /\ Back(p) \in Int /\ Length(p) \in Int /\ Fastest(p) \in Int
  BY <1>1, LengthTyped, RankBounds
<1>3. TimeLowerBound(Length(p)) <= net.horizon
  <2>1. net.stations \in Nat
    BY NetAssumption
  <2>2. Len(p) \in DOMAIN p
    BY <1>1, <2>1, PathTyped
  <2>3. SubSeq(p, 1, Len(p)) = p
    BY <1>1, <2>2, Prefix
  <2> QED BY <1>1, <2>2, <2>3 DEF Passable
<1>4. ASSUME w \in Witnesses(p)
      PROVE  w \in Enumerated /\ w # p /\ Dominates(w, p)
  <2>1. w \in Elementary /\ w # p /\ Reachable(Last(w), Target)
    BY <1>4 DEF Witnesses
  <2>2. \A i \in DOMAIN w : /\ net.rank[w[i]] <= Fastest(p)
                            /\ Reachable(Nodes(w)[i], w[i])
                            /\ Length(SubSeq(w, 1, i)) <= Length(p) + 0
    BY <1>4 DEF Witnesses
  <2>3. First(w) <= First(p) + tolerance /\ Back(w) <= Back(p) + tolerance
    BY <1>4 DEF Witnesses
  <2>4. Slowest(w) <= Fastest(p)
    BY <2>1, <2>2, RankBounds
  <2>5. Length(w) <= Length(p) + 0
    <3>1. net.stations \in Nat
      BY NetAssumption
    <3>2. Len(w) \in DOMAIN w /\ SubSeq(w, 1, Len(w)) = w
      BY <2>1, <3>1, PathTyped, Prefix
    <3> QED BY <2>2, <3>2
  <2>6. ASSUME NEW i \in DOMAIN w
        PROVE  TimeLowerBound(Length(SubSeq(w, 1, i))) <= net.horizon
    <3>1. PICK a \in Int : a = Length(SubSeq(w, 1, i))
      BY <2>1, PrefixesAreShorter
    <3>2. PICK b \in Int : b = Length(p)
      BY <1>2
    <3>3. a <= b
      BY <2>2, <3>1, <3>2
    <3>4. /\ TimeLowerBound(a) \in Int /\ TimeLowerBound(b) \in Int
          /\ TimeLowerBound(a) <= TimeLowerBound(b)
      BY <3>3, LongerTakesLonger
    <3>5. net.horizon \in Int
      BY NetAssumption
    <3> QED BY <1>3, <3>1, <3>2, <3>4, <3>5
  <2>7. Passable(w)
    BY <2>2, <2>6 DEF Passable
  <2> QED BY <2>1, <2>3, <2>4, <2>5, <2>7 DEF Enumerated, Dominates
<1>5. ASSUME w \in Enumerated, w # p, Dominates(w, p)
      PROVE  w \in Witnesses(p)
  <2>1. w \in Elementary /\ Passable(w) /\ Reachable(Last(w), Target)
    BY <1>5 DEF Enumerated
  <2>2. ASSUME NEW i \in DOMAIN w
        PROVE  /\ net.rank[w[i]] <= Fastest(p)
               /\ Reachable(Nodes(w)[i], w[i])
               /\ Length(SubSeq(w, 1, i)) <= Length(p) + 0
    <3>1. net.rank[w[i]] <= Fastest(p)
      <4>1. net.rank[w[i]] \in Int /\ net.rank[w[i]] <= Slowest(w) /\ Slowest(w) \in Int
        BY <2>1, RankBounds
      <4>2. Slowest(w) <= Fastest(p)
        BY <1>5 DEF Dominates
      <4> QED BY <1>2, <4>1, <4>2
    <3>2. Length(SubSeq(w, 1, i)) <= Length(p) + 0
      <4>1. /\ Length(SubSeq(w, 1, i)) \in Int
            /\ Length(SubSeq(w, 1, i)) <= Length(w) /\ Length(w) \in Int
        BY <2>1, PrefixesAreShorter, LengthTyped
      <4>2. Length(w) <= Length(p) + 0
        BY <1>5 DEF Dominates
      <4> QED BY <1>2, <4>1, <4>2
    <3> QED BY <2>1, <3>1, <3>2 DEF Passable
  <2>3. First(w) <= First(p) + tolerance /\ Back(w) <= Back(p) + tolerance
    BY <1>5 DEF Dominates
  <2> QED BY <1>5, <2>1, <2>2, <2>3 DEF Witnesses
<1> QED BY <1>4, <1>5

\* The paths no other path beats.
Unbeaten == {p \in Enumerated : \A w \in Enumerated : ~Beats(w, p)}

\* Without a tolerance the enumeration keeps what nothing it has seen beats,
\* and the filter keeps it all.
AgreeInv ==
  tolerance = 0 =>
    /\ pass = "enumerate" =>
         /\ kept \subseteq Seen
         /\ \A q \in Seen \ kept : \E k \in kept : Beats(k, q)
         /\ \A k, l \in kept : ~Beats(k, l)
    /\ pass = "filter" => kept \cup ahead = Unbeaten /\ kept \cap ahead = {}
    /\ pass = "done" => kept = Unbeaten \cup {<< >>}

\* What beats what does not change while the net and the tolerance stay.
LEMMA BeatsStays ==
  ASSUME UNCHANGED <<net, tolerance>>
  PROVE  /\ \A p, q : Beats(p, q)' <=> Beats(p, q)
         /\ Unbeaten' = Unbeaten /\ Enumerated' = Enumerated
<1>1. /\ Enumerated' = Enumerated
      /\ \A p, q : Dominates(p, q)' <=> Dominates(p, q)
  BY NetStays
<1>2. \A p : SortKey(p)' = SortKey(p)
  <2>1. \A p : First(p)' = First(p) /\ Back(p)' = Back(p) /\ Length(p)' = Length(p)
    BY DEF First, Back, Length, Leg, Driven, Nodes, FoldFunction, FoldFunctionOnSet,
           MapThenFoldSet
  <2>2. \A p : Fastest(p)' = Fastest(p) /\ Slowest(p)' = Slowest(p)
    BY DEF Fastest, Slowest, Ranks
  <2> QED BY <2>1, <2>2 DEF SortKey
<1>3. \A p, q : Beats(p, q)' <=> Beats(p, q)
  BY <1>1, <1>2 DEF Beats, LexLess, LessAt
<1> QED BY <1>1, <1>3 DEF Unbeaten

\* After every offer the catalogue has the unbeaten among the paths offered.
LEMMA AgreeOffer ==
  ASSUME CatalogTyped, AgreeInv, Offer
  PROVE  AgreeInv'
<1> SUFFICES ASSUME tolerance = 0
             PROVE  /\ kept' \subseteq Seen'
                    /\ \A q \in Seen' \ kept' : \E k \in kept' : Beats(k, q)
                    /\ \A k, l \in kept' : ~Beats(k, l)
  BY BeatsStays DEF AgreeInv, Offer
<1>1. PICK p : /\ p = Least(ahead, LAMBDA q : q) /\ ahead' = ahead \ {p}
               /\ kept' = IF Refused(p) THEN kept ELSE With(p)
  BY DEF Offer
<1>2. p \in ahead /\ p \in Enumerated /\ ahead \subseteq Enumerated
  BY <1>1, NextIsAhead DEF Offer, CatalogTyped
<1>3. Seen' = Seen \cup {p} /\ p \notin Seen /\ Seen \subseteq Enumerated
  BY <1>1, <1>2, BeatsStays DEF Offer, Seen
<1>4. /\ kept \subseteq Seen
      /\ \A q \in Seen \ kept : \E k \in kept : Beats(k, q)
      /\ \A k, l \in kept : ~Beats(k, l)
  BY DEF AgreeInv, Offer
<1>5. net \in Nets /\ Enumerated \subseteq Elementary
  BY DEF CatalogTyped, Enumerated
<1>6. p \in Elementary /\ kept \subseteq Elementary /\ Seen \subseteq Elementary
  BY <1>2, <1>3, <1>4, <1>5
<1>7. \A k \in kept : k # p
  BY <1>3, <1>4
<1>8. CASE Refused(p)
  <2>1. PICK k \in kept : Dominates(k, p) /\ (Dominates(p, k) => LexLess(k, p))
    BY <1>8 DEF Refused
  <2>2. Beats(k, p)
    BY <1>5, <1>6, <1>7, <2>1, EqualPaths DEF Beats
  <2>3. kept' = kept
    BY <1>1, <1>8
  <2>4. \A q \in Seen' \ kept' : q = p \/ q \in Seen \ kept
    BY <1>3, <2>3
  <2> QED BY <1>3, <1>4, <2>2, <2>3, <2>4
<1>9. CASE ~Refused(p)
  <2>1. kept' = {k \in kept : ~Dominates(p, k)} \cup {p}
    BY <1>1, <1>9 DEF With
  <2>2. ASSUME NEW k \in kept
        PROVE  ~Beats(k, p)
    <3>1. ~(Dominates(k, p) /\ (Dominates(p, k) => LexLess(k, p)))
      BY <1>9 DEF Refused
    <3> QED BY <1>5, <1>6, <3>1, EqualPaths DEF Beats
  <2>3. ASSUME NEW k \in kept, Dominates(p, k)
        PROVE  Beats(p, k)
    BY <1>5, <1>6, <1>7, <2>2, <2>3, BeatsOneWay
  <2>4. ASSUME NEW q \in Seen' \ kept'
        PROVE  \E k \in kept' : Beats(k, q)
    <3>1. q \in Seen /\ q \in Elementary
      BY <1>3, <1>6, <2>1, <2>4
    <3>2. CASE q \in kept
      BY <2>1, <2>3, <2>4, <3>2
    <3>3. CASE q \notin kept
      <4>1. PICK k \in kept : Beats(k, q)
        BY <1>4, <3>1, <3>3
      <4>2. CASE Dominates(p, k)
        <5>1. Beats(p, k)
          BY <2>3, <4>2
        <5>2. Beats(p, q)
          BY <1>5, <1>6, <3>1, <4>1, <5>1, BeatsChains
        <5> QED BY <2>1, <5>2
      <4>3. CASE ~Dominates(p, k)
        BY <2>1, <4>1, <4>3
      <4> QED BY <4>2, <4>3
    <3> QED BY <3>2, <3>3
  <2>5. ASSUME NEW k \in kept', NEW l \in kept'
        PROVE  ~Beats(k, l)
    BY <1>4, <2>1, <2>2 DEF Beats
  <2> QED BY <1>3, <1>4, <2>1, <2>4, <2>5
<1> QED BY <1>8, <1>9

\* Sorting keeps the unbeaten paths.
LEMMA AgreeSort ==
  ASSUME CatalogTyped, AgreeInv, Sort
  PROVE  AgreeInv'
<1> SUFFICES ASSUME tolerance = 0
             PROVE  kept = Unbeaten
  BY BeatsStays DEF AgreeInv, Sort
<1>1. Seen = Enumerated
  BY DEF Sort, Seen
<1>2. /\ kept \subseteq Enumerated
      /\ \A q \in Enumerated \ kept : \E k \in kept : Beats(k, q)
      /\ \A k, l \in kept : ~Beats(k, l)
  BY <1>1 DEF AgreeInv, Sort
<1>3. net \in Nets /\ Enumerated \subseteq Elementary
  BY DEF CatalogTyped, Enumerated
<1>4. ASSUME NEW p \in kept, NEW w \in Enumerated, Beats(w, p)
      PROVE  FALSE
  <2>1. CASE w \in kept
    BY <1>2, <1>4, <2>1
  <2>2. CASE w \notin kept
    <3>1. PICK k \in kept : Beats(k, w)
      BY <1>2, <2>2
    <3>2. k \in Elementary /\ w \in Elementary /\ p \in Elementary
      BY <1>2, <1>3
    <3>3. Beats(k, p)
      BY <1>3, <1>4, <3>1, <3>2, BeatsChains
    <3> QED BY <1>2, <3>1, <3>3
  <2> QED BY <2>1, <2>2
<1> QED BY <1>2, <1>4 DEF Unbeaten

\* The filter drops no unbeaten path.
LEMMA AgreeFilter ==
  ASSUME CatalogTyped, AgreeInv, Filter
  PROVE  AgreeInv'
<1> SUFFICES ASSUME tolerance = 0
             PROVE  kept' \cup ahead' = Unbeaten /\ kept' \cap ahead' = {}
  BY BeatsStays DEF AgreeInv, Filter
<1>1. PICK p : /\ p = Least(ahead, SortKey) /\ ahead' = ahead \ {p}
               /\ kept' = IF \E k \in kept : Dominates(k, p) THEN kept ELSE With(p)
  BY DEF Filter
<1>2. p \in ahead
  BY <1>1, NextIsAhead DEF Filter
<1>3. kept \cup ahead = Unbeaten /\ kept \cap ahead = {}
  BY DEF AgreeInv, Filter
<1>4. net \in Nets /\ Unbeaten \subseteq Elementary /\ Unbeaten \subseteq Enumerated
  BY DEF CatalogTyped, Enumerated, Unbeaten
<1>5. \A k, l \in Unbeaten : ~Beats(k, l)
  BY <1>4 DEF Unbeaten
<1>6. \A k \in kept : ~Dominates(k, p) /\ ~Dominates(p, k)
  <2> SUFFICES ASSUME NEW k \in kept, Dominates(k, p) \/ Dominates(p, k)
               PROVE  FALSE
    OBVIOUS
  <2>1. k \in Unbeaten /\ p \in Unbeaten /\ k # p
    BY <1>2, <1>3
  <2> QED BY <1>4, <1>5, <2>1, BeatsOneWay
<1>7. kept' = kept \cup {p}
  BY <1>1, <1>6 DEF With
<1> QED BY <1>1, <1>2, <1>3, <1>7

\* What is written out is what the implicit sampler draws from.
LEMMA AgreeMaterialize ==
  ASSUME CatalogTyped, AgreeInv, Materialize
  PROVE  AgreeInv'
BY BeatsStays DEF AgreeInv, Materialize

\* The sampler draws what no witness beats, which is what the catalogue holds.
LEMMA SamplersAgree ==
  ASSUME CatalogTyped, AgreeInv
  PROVE  ImplicitAgrees
<1> SUFFICES ASSUME pass = "done", tolerance = 0, NEW current \in kept
             PROVE  ImplicitSupport(current) = ExplicitSupport(current)
  BY DEF ImplicitAgrees
<1>1. net \in Nets /\ << >> \notin Enumerated
  BY DEF CatalogTyped, Enumerated, Elementary
<1>2. kept = Unbeaten \cup {<< >>}
  BY DEF AgreeInv
<1>3. ASSUME NEW p \in Enumerated
      PROVE  PathDominated(p) <=> \E w \in Enumerated : Beats(w, p)
  BY <1>1, WitnessesAreDominating DEF PathDominated, Beats
<1>4. Unbeaten = {p \in Enumerated : ~PathDominated(p)}
  BY <1>3 DEF Unbeaten
<1> QED BY <1>1, <1>2, <1>4 DEF ImplicitSupport, ExplicitSupport

\* Where there is no tolerance, the sampler that builds no catalogue draws
\* from the paths of the catalogue.
THEOREM ImplicitSamplerAgrees == CatalogSpec => []ImplicitAgrees
<1>1. ASSUME CatalogInit
      PROVE  AgreeInv
  <2>1. Seen = {} /\ kept = {} /\ pass = "enumerate"
    BY <1>1 DEF CatalogInit, Seen
  <2> QED BY <2>1 DEF AgreeInv
<1>2. ASSUME CatalogTyped, AgreeInv, [CatalogNext]_catalogVars
      PROVE  AgreeInv'
  <2>1. CASE UNCHANGED catalogVars
    BY <1>2, <2>1, BeatsStays DEF catalogVars, AgreeInv, Seen
  <2> QED BY <1>2, <2>1, AgreeOffer, AgreeSort, AgreeFilter, AgreeMaterialize DEF CatalogNext
<1>3. CatalogTyped /\ AgreeInv => ImplicitAgrees
  BY SamplersAgree
<1> QED BY <1>1, <1>2, <1>3, LossInvariant, PTL DEF CatalogSpec
=============================================================================
