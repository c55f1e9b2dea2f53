-------------------------- MODULE DualCertificate ---------------------------
(***************************************************************************)
(* certify_sp_start (src/include/ils_sp/detail/sp_dual_certificate.hpp):   *)
(* from the duals of the linear relaxation, a proof that the start of the  *)
(* set-partitioning model is as good as optimal, or a set of columns that  *)
(* no partition as good as the start can contain.                          *)
(*                                                                         *)
(* The proof has to hold for the doubles it is computed with: each sum is  *)
(* rounded to nearest and then moved one double outward, down for the      *)
(* lower bound and up for the cost of the start.  A double is modelled by  *)
(* an integer with few significant digits: Mantissa values at each         *)
(* spacing, the spacing doubling with the magnitude.  Overflow to infinity *)
(* is not modelled, nor is the relative gap, which is only reported.       *)
(*                                                                         *)
(* A definition marked "Mutant" is a mistaken form of the one after it,    *)
(* used by nothing, to see that a property notices the mistake.            *)
(***************************************************************************)
EXTENDS Integers, FiniteSets, FiniteSetsExt, Sequences, SequencesExt

CONSTANTS
  Cover,       \* the customers of each column, a sequence of sets
  Rows,        \* the customers in order, a sequence
  CostValue, DualValue,  \* the costs and duals tried
  AbsGap,      \* effective_abs_gap of the relaxation
  Tol,         \* kCostTolerance
  Mantissa,    \* doubles between two changes of spacing, a power of two
  Spacings     \* the spacings, powers of two from 1 on

ASSUME CertificateAssumption ==
  /\ {AbsGap, Tol} \subseteq Nat
  /\ CostValue \cup DualValue \subseteq Int
  /\ Mantissa \in Nat /\ Mantissa % 2 = 0
  /\ 1 \in Spacings /\ Spacings \subseteq Nat \ {0}
  /\ \A u \in Spacings \ {1} : \E v \in Spacings : u = 2 * v

\* A row per customer, and columns for customers of the rows only.
ASSUME IncidenceAssumption ==
  /\ Len(Rows) \in Nat /\ DOMAIN Rows = 1..Len(Rows)
  /\ Len(Cover) \in Nat /\ DOMAIN Cover = 1..Len(Cover)
  /\ \A i, k \in DOMAIN Rows : Rows[i] = Rows[k] => i = k
  /\ \A j \in DOMAIN Cover : Cover[j] \subseteq ToSet(Rows)

Columns == DOMAIN Cover
Order == [j \in Columns |-> j]
Partitions == {S \in SUBSET Columns :
                 /\ UNION {Cover[j] : j \in S} = ToSet(Rows)
                 /\ \A i, j \in S : i # j => Cover[i] \cap Cover[j] = {}}

VARIABLES
  costs, duals, start,  \* the inputs
  checked,              \* the certificate has been computed
  certificate           \* valid, certified and fixed_zero_columns

certificateVars == <<costs, duals, start, checked, certificate>>
-----------------------------------------------------------------------------
(* Doubles *)

Magnitude(x) == Max({x, -x})

Spacing(x) == Min({u \in Spacings : Magnitude(x) < Mantissa * u})

IsDouble(x) == x % Spacing(x) = 0

ASSUME InputsAreDoubles == \A x \in CostValue \cup DualValue : IsDouble(x)

\* To nearest, ties to the even digit.
Nearest(x) ==
  LET u == Spacing(x)
      digit == x \div u
      rest == x - digit * u
  IN IF 2 * rest < u \/ (2 * rest = u /\ digit % 2 = 0)
       THEN digit * u ELSE (digit + 1) * u

\* Mutant: no outward step, sums are left rounded to nearest.
Unmoved(x) == x

NextUp(x) == IF x >= 0 THEN x + Spacing(x) ELSE x + Spacing(x + 1)

NextDown(x) == -NextUp(-x)

Down(x) == NextDown(Nearest(x))

Up(x) == NextUp(Nearest(x))
-----------------------------------------------------------------------------
(* The bounds *)

UpperBound ==
  FoldLeft(LAMBDA sum, j : IF j \in start THEN Up(sum + costs[j]) ELSE sum,
           0, Order)

DualSum == FoldLeft(LAMBDA sum, i : Down(sum + duals[i]), 0, Rows)

ColumnDuals(j) ==
  FoldLeft(LAMBDA sum, i : IF i \in Cover[j] THEN Up(sum + duals[i]) ELSE sum,
           0, Rows)

Residual(j) == Down(costs[j] - ColumnDuals(j))

\* sum(y) + sum(min(0, c - A^T y)) bounds every partition from below.
LowerBound ==
  FoldLeft(LAMBDA sum, j : Down(sum + Min({0, Residual(j)})), DualSum, Order)

Gap == Up(UpperBound - LowerBound)

Threshold == Up(UpperBound + Tol)

\* The same bound for the partitions that contain column j.
ConditionalLower(j) == Down(LowerBound + Max({0, Residual(j)}))

Fixed == {j \in Columns : ConditionalLower(j) > Threshold}

NoCertificate == [valid |-> FALSE, certified |-> FALSE, fixed |-> {}]

Certificate ==
  LET certified == Gap <= Min({AbsGap, Tol})
  IN IF \/ LowerBound > UpperBound
        \/ ~certified /\ Fixed \cap start # {}
       THEN NoCertificate
       ELSE [valid |-> TRUE, certified |-> certified,
             fixed |-> IF certified THEN {} ELSE Fixed]
-----------------------------------------------------------------------------
CertificateInit ==
  /\ costs \in [Columns -> CostValue]
  /\ duals \in [ToSet(Rows) -> DualValue]
  /\ start \in Partitions
  /\ checked = FALSE
  /\ certificate = NoCertificate

CertifyStart ==
  /\ ~checked
  /\ checked' = TRUE
  /\ certificate' = Certificate
  /\ UNCHANGED <<costs, duals, start>>

CertificateNext == CertifyStart

CertificateSpec == CertificateInit /\ [][CertificateNext]_certificateVars
-----------------------------------------------------------------------------
(* Properties *)

ExactCost(S) == MapThenSumSet(LAMBDA j : costs[j], S)

(* A certified start is within the accepted gap of every partition of the  *)
(* customers, whatever the rounding did and whatever duals the solver gave *)
(* ("for any finite y"), so the integer model need not be solved.          *)
CertifiedOptimal ==
  certificate.certified =>
    \A S \in Partitions : ExactCost(start) <= ExactCost(S) + Min({AbsGap, Tol})

(* Fixing columns at zero "preserves every complete feasible solution no   *)
(* worse than this start", to within the cost tolerance.                   *)
FixingKeepsGoodPartitions ==
  \A S \in Partitions :
    ExactCost(S) <= ExactCost(start) + Tol => S \cap certificate.fixed = {}
=============================================================================
