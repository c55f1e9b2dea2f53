----------------------- MODULE SetPartitioningProofs -----------------------
(***************************************************************************)
(* Proofs about the set-partitioning calls.                                *)
(*                                                                         *)
(* Their schedule (SpSchedule), for every frequency, stall and interval:   *)
(* the cadence is kept, and an adaptive call answers a stall that is real. *)
(*                                                                         *)
(* Their certificate (DualCertificate), for all columns, costs and duals:  *)
(* a certified start is as good as optimal, and fixing columns loses no    *)
(* partition as good as the start.  The proof is the text's own comment,   *)
(* "for any finite y", carried through the roundings: weak duality.        *)
(***************************************************************************)
EXTENDS SpSchedule, DualCertificate, FoldTheorems

Typed ==
  /\ iteration \in Nat \ {0}
  /\ lastBest \in Nat /\ lastCoverage \in Nat
  /\ quietBest \in Nat /\ quietCoverage \in Nat

\* A round that reached the model is marked; a multiple of the frequency that
\* was not left early goes through the model.
CadenceInv ==
  /\ pc \in {"generate", "admit", "trigger", "guard", "feedback", "record", "close", "done"}
  /\ pc = "feedback" => lastSp = iteration
  /\ pc = "record" /\ Periodic => lastSp = iteration
  /\ CadenceKept

\* Once there is a record the mark of the last one measures its silence; the
\* pool advances only by improvements of the coverage.
StallInv ==
  /\ hasBest => iteration - lastBest = quietBest
  /\ lastCoverage # 0 => iteration - lastCoverage = quietCoverage
  /\ advanced => lastCoverage # 0 /\ sinceSp

IInv == Typed /\ CadenceInv /\ StallInv

Step == [Next /\ UNCHANGED record]_vars
-----------------------------------------------------------------------------
\* The schedule starts in its invariant.
LEMMA InitIsInv == Init => IInv
BY DEF Init, IInv, Typed, CadenceInv, CadenceKept, StallInv

(* What a report of the pool does to the marks.                            *)
LEMMA PoolStepKeeps ==
  ASSUME Typed, StallInv, NEW improved \in BOOLEAN, PoolStep(improved)
  PROVE  /\ lastCoverage' \in Nat /\ quietCoverage' \in Nat
         /\ lastCoverage' # 0 => iteration - lastCoverage' = quietCoverage'
         /\ advanced' => lastCoverage' # 0 /\ sinceSp'
<1>1. CASE improved = TRUE
  BY <1>1 DEF PoolStep, Typed
<1>2. CASE improved = FALSE
  <2>1. lastCoverage' = lastCoverage /\ quietCoverage' = quietCoverage
    BY <1>2 DEF PoolStep
  <2>2. (advanced' => advanced) /\ (sinceSp => sinceSp')
    BY <1>2, Zenon DEF PoolStep
  <2>3. QED
    BY <2>1, <2>2 DEF Typed, StallInv
<1>3. QED
  BY <1>1, <1>2

\* Every step of the schedule keeps its invariant.
LEMMA StepKeepsInv == IInv /\ Step => IInv'
<1> SUFFICES ASSUME IInv, Step PROVE IInv'
  OBVIOUS
<1> USE DEF IInv
<1>1. CASE Generate \/ RecordAssembled
  <2>1. /\ iteration' = iteration /\ lastSp' = lastSp
        /\ pc' \in {"close", "admit"}
        /\ pc' = "close" => blocked' \/ (pc = "record" /\ blocked' = blocked)
    <3>1. CASE Generate
      <4>1. /\ iteration' = iteration /\ lastSp' = lastSp /\ blocked' = late
            /\ pc' = IF late THEN "close" ELSE "admit"
        BY <3>1 DEF Generate
      <4>2. QED
        BY <4>1, Zenon
    <3>2. CASE RecordAssembled
      BY <3>2 DEF RecordAssembled
    <3>3. QED
      BY <1>1, <3>1, <3>2
  <2>2. CadenceInv'
    BY <2>1 DEF CadenceInv, CadenceKept, Periodic
  <2>3. CASE UNCHANGED <<hasBest, lastBest, lastCoverage, advanced, history>>
    BY <2>1, <2>2, <2>3 DEF Typed, StallInv, history
  <2>4. CASE \E improved \in BOOLEAN : Recorded(improved)
    <3>1. PICK improved \in BOOLEAN : Recorded(improved)
      BY <2>4
    <3>2. lastBest' = iteration /\ quietBest' = 0 /\ PoolStep(improved)
      BY <3>1 DEF Recorded
    <3>3. QED
      BY <2>1, <2>2, <3>2, PoolStepKeeps DEF Typed, StallInv
  <2>5. QED
    BY <1>1, <2>3, <2>4 DEF Generate, RecordAssembled
<1>2. CASE AdmitRoutes \/ TriggerAndReprice \/ ModelFeedback
  <2>1. /\ iteration' = iteration /\ lastSp' = lastSp /\ pc' \notin {"close", "done"}
        /\ UNCHANGED <<hasBest, lastBest, quietBest>>
        /\ \E improved \in BOOLEAN : PoolStep(improved)
    BY <1>2 DEF AdmitRoutes, TriggerAndReprice, ModelFeedback
  <2>2. /\ pc' \in {"trigger", "guard", "record"}
        /\ pc' = "record" => pc = "feedback" \/ ~Periodic
    BY <1>2 DEF AdmitRoutes, TriggerAndReprice, ModelFeedback
  <2>3. CadenceInv'
    BY <2>1, <2>2 DEF CadenceInv, CadenceKept, Periodic
  <2>4. QED
    BY <2>1, <2>3, PoolStepKeeps DEF Typed, StallInv
<1>3. CASE LeaveRound
  BY <1>3 DEF LeaveRound, history, Typed, CadenceInv, CadenceKept, StallInv, Periodic
<1>4. CASE CallModel
  BY <1>4 DEF CallModel, Typed, CadenceInv, CadenceKept, StallInv, Periodic
<1>5. CASE NextIteration
  <2>1. CadenceInv'
    BY <1>5 DEF NextIteration, CadenceInv, CadenceKept
  <2>2. QED
    BY <1>5, <2>1 DEF NextIteration, Typed, StallInv
<1>6. CASE Stop \/ DeadlinePasses \/ UNCHANGED vars
  BY <1>6 DEF Stop, DeadlinePasses, vars, history, Typed, CadenceInv, CadenceKept, StallInv,
     Periodic
<1>7. QED
  BY <1>1, <1>2, <1>3, <1>4, <1>5, <1>6 DEF Step, Next, Body
-----------------------------------------------------------------------------
\* The invariant of the schedule holds of every run of assemble_routes.
THEOREM ScheduleInvariant == Spec => []IInv
BY InitIsInv, StepKeepsInv, PTL DEF Spec, Step

(* Every multiple of sp_frequency that is not left early has a call of its *)
(* own, whatever adaptive calls came before it (assemble_routes).          *)
THEOREM CadenceHolds == Spec => []CadenceKept
<1>1. IInv => CadenceKept
  BY DEF IInv, CadenceInv
<1>2. QED
  BY <1>1, ScheduleInvariant, PTL

(* An adaptive call is triggered only when record and coverage have both   *)
(* been silent for the stall and the pool improved since the last call.    *)
THEOREM AdaptiveAnswersStall == Spec => AdaptiveOnlyWhenStalled
<1>1. IInv /\ Step =>
        [adaptiveSp' /\ ~adaptiveSp =>
           quietBest >= Stall /\ quietCoverage >= Stall /\ sinceSp]_adaptiveSp
  <2> SUFFICES ASSUME IInv, Step, adaptiveSp' # adaptiveSp, adaptiveSp', ~adaptiveSp
               PROVE  quietBest >= Stall /\ quietCoverage >= Stall /\ sinceSp
    OBVIOUS
  <2>1. TriggerAndReprice
    BY DEF Step, Next, Body, Generate, AdmitRoutes, LeaveRound, CallModel, ModelFeedback,
       RecordAssembled, NextIteration, Stop, DeadlinePasses, vars
  <2>2. AdaptiveTrigger
    BY <2>1, Zenon DEF TriggerAndReprice
  <2>3. QED
    BY <2>2 DEF AdaptiveTrigger, IInv, StallInv
<1>2. QED
  BY <1>1, ScheduleInvariant, PTL DEF Spec, Step, AdaptiveOnlyWhenStalled

-----------------------------------------------------------------------------
(* Outward rounding.                                                       *)
\* Every integer has a spacing: no sum overflows.
Unbounded == \A x \in Int : \E u \in Spacings : Magnitude(x) < Mantissa * u

\* The magnitude of a number is its absolute value.
LEMMA MagnitudeValue ==
  ASSUME NEW x \in Int
  PROVE  Magnitude(x) = IF x >= 0 THEN x ELSE -x
BY DEF Magnitude, Max

\* The spacing of a number is the least one whose mantissa reaches its magnitude.
LEMMA SpacingValue ==
  ASSUME Unbounded, NEW x \in Int
  PROVE  /\ Spacing(x) \in Spacings
         /\ Spacing(x) \in Nat \ {0}
         /\ Magnitude(x) < Mantissa * Spacing(x)
         /\ \A v \in Spacings : Magnitude(x) < Mantissa * v => Spacing(x) <= v
<1> DEFINE U == {u \in Spacings : Magnitude(x) < Mantissa * u}
<1>1. U \in SUBSET Nat /\ U # {}
  BY CertificateAssumption DEF Unbounded
<1>2. \E u \in U : \A v \in U : u <= v
  <2> HIDE DEF U
  <2> QED BY <1>1, SmallestNumber
<1>3. Spacing(x) \in U /\ \A v \in U : Spacing(x) <= v
  BY <1>2 DEF Spacing, Min
<1> QED BY <1>3, CertificateAssumption

\* Above the first spacing a number fills at least half of the mantissa.
LEMMA SpacingTight ==
  ASSUME Unbounded, NEW x \in Int, Spacing(x) # 1
  PROVE  \E v \in Spacings : /\ Spacing(x) = 2 * v /\ v \in Nat \ {0}
                             /\ Mantissa * v <= Magnitude(x)
<1>1. PICK v \in Spacings : Spacing(x) = 2 * v
  BY SpacingValue, CertificateAssumption
<1>2. v \in Nat \ {0} /\ Mantissa \in Nat
  BY CertificateAssumption
<1>3. ~(Magnitude(x) < Mantissa * v)
  <2>1. Magnitude(x) < Mantissa * v => 2 * v <= v
    BY <1>1, SpacingValue
  <2> QED BY <2>1, <1>2
<1>4. Magnitude(x) \in Int /\ Mantissa * v \in Int
  BY <1>2, MagnitudeValue
<1> QED BY <1>1, <1>2, <1>3, <1>4
\* Multiplying by a natural number keeps the order.
LEMMA MultipleGrows ==
  ASSUME NEW m \in Nat, NEW a \in Int, NEW b \in Int, a <= b
  PROVE  m * a <= m * b
<1>1. PICK d \in Nat : b = a + d
  <2>1. b - a \in Nat /\ b = a + (b - a)
    OBVIOUS
  <2> QED BY <2>1
<1>2. m * b = m * a + m * d /\ m * d \in Nat /\ m * a \in Int
  BY <1>1
<1> QED BY <1>2

\* A spacing that lets y lie below it although y is half a mantissa of v away
\* is larger than v.
LEMMA LargerSpacing ==
  ASSUME Unbounded, NEW y \in Int, NEW v \in Nat, Mantissa * v <= Magnitude(y)
  PROVE  v < Spacing(y)
<1>1. PICK s : s = Spacing(y)
  OBVIOUS
<1>2. s \in Nat /\ Magnitude(y) < Mantissa * s /\ Magnitude(y) \in Int /\ Mantissa \in Nat
  BY <1>1, SpacingValue, MagnitudeValue, CertificateAssumption
<1>3. s <= v => Mantissa * s <= Mantissa * v
  BY <1>2, MultipleGrows
<1>4. Mantissa * s \in Int /\ Mantissa * v \in Int
  BY <1>2
<1> QED BY <1>1, <1>2, <1>3, <1>4

\* One step up from a digit that is at most half a spacing too low is enough.
LEMMA NextUpReaches ==
  ASSUME Unbounded, NEW x \in Int, NEW q \in Int,
         2 * (x - q * Spacing(x)) <= Spacing(x)
  PROVE  NextUp(q * Spacing(x)) \in Int /\ x <= NextUp(q * Spacing(x))
<1>1. PICK u : u = Spacing(x)
  OBVIOUS
<1>2. PICK y : y = q * u
  OBVIOUS
<1>3. u \in Nat \ {0} /\ y \in Int /\ 2 * (x - y) <= u
  BY <1>1, <1>2, SpacingValue
<1>4. Spacing(y) \in Nat \ {0} /\ Spacing(y + 1) \in Nat \ {0}
  BY <1>3, SpacingValue
<1>5. NextUp(y) \in Int
  BY <1>3, <1>4 DEF NextUp
<1>6. ASSUME x <= y PROVE x <= NextUp(y)
  BY <1>3, <1>4, <1>6 DEF NextUp
<1>7. ASSUME y < x PROVE x <= NextUp(y)
  <2>1. u # 1
    BY <1>3, <1>7
  <2>2. PICK v \in Nat \ {0} : u = 2 * v /\ Mantissa * v <= Magnitude(x)
    BY <1>1, <2>1, SpacingTight
  <2>3. x - y <= v
    BY <1>3, <1>7, <2>2
  <2>4. Mantissa \in Nat /\ Mantissa * v \in Int
    BY CertificateAssumption
  <2>5. CASE y >= 0
    <3>1. PICK k \in Nat : Mantissa = 2 * k
      BY CertificateAssumption
    <3>2. Mantissa * v = u * k /\ u * k \in Int /\ y = u * q
      BY <1>2, <1>3, <2>2, <3>1
    <3>3. u * k <= x
      BY <1>7, <2>2, <2>5, <3>2, <1>3, MagnitudeValue
    <3>4. k <= q
      <4>1. q <= k - 1 => u * q <= u * (k - 1)
        BY <1>3, <3>1, MultipleGrows
      <4>2. u * (k - 1) = u * k - u
        BY <1>3, <3>1
      <4>3. ~(q <= k - 1)
        BY <1>3, <2>2, <2>3, <3>2, <3>3, <4>1, <4>2
      <4> QED BY <3>1, <4>3
    <3>5. u * k <= y
      BY <1>3, <3>1, <3>2, <3>4, MultipleGrows
    <3>6. Mantissa * v <= Magnitude(y)
      BY <1>3, <2>5, <3>2, <3>5, MagnitudeValue
    <3>7. v < Spacing(y)
      BY <1>3, <2>2, <3>6, LargerSpacing
    <3> QED BY <1>3, <1>4, <2>2, <2>3, <2>5, <3>7 DEF NextUp
  <2>6. CASE y < 0
    <3>1. x < 0
      <4>1. q < 0
        <5>1. 0 <= q => u * 0 <= u * q
          BY <1>3, MultipleGrows
        <5>2. u * q = y /\ u * 0 = 0
          BY <1>2, <1>3
        <5>3. ~(0 <= q)
          BY <1>3, <2>6, <5>1, <5>2
        <5> QED BY <5>3
      <4>2. u * q <= u * (-1)
        BY <4>1, <1>3, MultipleGrows
      <4>3. u * q = y /\ u * (-1) = -u
        BY <1>2, <1>3
      <4> QED BY <1>3, <2>2, <2>3, <4>2, <4>3
    <3>2. Magnitude(x) <= Magnitude(y + 1)
      BY <1>3, <1>7, <3>1, <2>6, MagnitudeValue
    <3>3. Magnitude(x) \in Int /\ Magnitude(y + 1) \in Int
      BY <1>3, MagnitudeValue
    <3>4. Mantissa * v <= Magnitude(y + 1)
      BY <2>2, <2>4, <3>2, <3>3
    <3>5. v < Spacing(y + 1)
      BY <1>3, <2>2, <3>4, LargerSpacing
    <3> QED BY <1>3, <1>4, <2>2, <2>3, <2>6, <3>5 DEF NextUp
  <2> QED BY <1>3, <2>5, <2>6
<1>8. x <= NextUp(y)
  BY <1>3, <1>6, <1>7
<1> QED BY <1>1, <1>2, <1>5, <1>8

\* Nearest is off by at most half a spacing.
LEMMA NearestClose ==
  ASSUME Unbounded, NEW x \in Int
  PROVE  \E q \in Int : /\ Nearest(x) = q * Spacing(x)
                        /\ 2 * (x - q * Spacing(x)) <= Spacing(x)
                        /\ 2 * (q * Spacing(x) - x) <= Spacing(x)
<1>1. PICK u : u = Spacing(x)
  OBVIOUS
<1>2. u \in Nat \ {0}
  BY <1>1, SpacingValue
<1>3. PICK d : d = x \div u
  OBVIOUS
<1>4. d \in Int /\ d * u \in Int /\ 0 <= x - d * u /\ x - d * u < u
  <2>1. x = u * (x \div u) + (x % u) /\ x % u \in 0..(u - 1)
    BY <1>2
  <2> QED BY <1>2, <1>3, <2>1
<1>5. (d + 1) * u = d * u + u
  BY <1>2, <1>4
<1>6. CASE 2 * (x - d * u) < u \/ (2 * (x - d * u) = u /\ d % 2 = 0)
  <2>1. Nearest(x) = d * u
    BY <1>1, <1>3, <1>6 DEF Nearest
  <2> QED BY <1>1, <1>2, <1>4, <1>6, <2>1
<1>7. CASE ~(2 * (x - d * u) < u \/ (2 * (x - d * u) = u /\ d % 2 = 0))
  <2>1. Nearest(x) = (d + 1) * u
    BY <1>1, <1>3, <1>7 DEF Nearest
  <2>2. 2 * (x - d * u) >= u
    BY <1>2, <1>4, <1>7
  <2>3. d + 1 \in Int /\ 2 * (x - (d + 1) * u) <= u /\ 2 * ((d + 1) * u - x) <= u
    BY <1>2, <1>4, <1>5, <2>2
  <2> QED BY <1>1, <2>1, <2>3
<1> QED BY <1>6, <1>7

\* The outward steps make up for the rounding: Down is below, Up is above.
LEMMA Outward ==
  ASSUME Unbounded, NEW x \in Int
  PROVE  /\ Down(x) \in Int /\ Up(x) \in Int
         /\ Down(x) <= x /\ x <= Up(x)
<1>1. PICK q \in Int : /\ Nearest(x) = q * Spacing(x)
                       /\ 2 * (x - q * Spacing(x)) <= Spacing(x)
                       /\ 2 * (q * Spacing(x) - x) <= Spacing(x)
  BY NearestClose
<1>2. Up(x) \in Int /\ x <= Up(x)
  BY <1>1, NextUpReaches DEF Up
<1>3. Spacing(-x) = Spacing(x)
  <2>1. Magnitude(-x) = Magnitude(x)
    BY MagnitudeValue
  <2> QED BY <2>1 DEF Spacing
<1>4. PICK u : u = Spacing(x)
  OBVIOUS
<1>5. u \in Nat \ {0} /\ (-q) * u = -(q * u) /\ q * u \in Int /\ -q \in Int /\ -x \in Int
  BY <1>4, SpacingValue
<1>6. 2 * ((-x) - (-q) * Spacing(-x)) <= Spacing(-x)
  BY <1>1, <1>3, <1>4, <1>5
<1>7. NextUp((-q) * Spacing(-x)) \in Int /\ -x <= NextUp((-q) * Spacing(-x))
  BY <1>5, <1>6, NextUpReaches
<1>8. Down(x) = -NextUp((-q) * Spacing(-x))
  BY <1>1, <1>3, <1>4, <1>5 DEF Down, NextDown
<1>9. Down(x) \in Int /\ Down(x) <= x
  BY <1>7, <1>8
<1> QED BY <1>2, <1>9
-----------------------------------------------------------------------------
(* The folds, position by position.                                        *)

InputsOK ==
  /\ costs \in [Columns -> Int]
  /\ duals \in [ToSet(Rows) -> Int]
  /\ start \in Partitions

UpperFold(g) ==
  g = [s \in SUBSET DOMAIN Order |->
         IF s = {} THEN 0
         ELSE LET k == Max(s)
              IN IF Order[k] \in start THEN Up(g[s \ {k}] + costs[Order[k]]) ELSE g[s \ {k}]]

\* The start costs at most its upper bound.
LEMMA UpperIsAbove ==
  ASSUME Unbounded, InputsOK
  PROVE  UpperBound \in Int /\ Total(costs, start) <= UpperBound
<1>1. UpperBound = (CHOOSE g : UpperFold(g))[DOMAIN Order]
  BY DEF UpperBound, FoldLeft, MapThenFoldSet, UpperFold
<1>2. PICK n \in Nat : DOMAIN Order = 1..n
  BY IncidenceAssumption DEF Columns, Order
<1>3. PICK item : item = Order
  OBVIOUS
<1>4. Weighs(costs, item, start, n)
  <2>1. \A k \in 1..n : item[k] = k /\ costs[k] \in Int
    BY <1>2, <1>3 DEF Order, InputsOK
  <2> QED BY <2>1 DEF Weighs
<1>5. ASSUME NEW k \in 1..n, NEW v \in Int
      PROVE  LET e == IF item[k] \in start THEN Up(v + costs[item[k]]) ELSE v
             IN  e \in Int /\ v + (IF item[k] \in start THEN costs[item[k]] ELSE 0) <= e
  <2>1. item[k] \in start => v + costs[item[k]] \in Int
    BY <1>4 DEF Weighs
  <2> QED BY <2>1, Outward
<1>6. 0 \in Int
  OBVIOUS
<1>7. PICK step : step = [k \in 1..n |-> [v \in Int |-> IF item[k] \in start THEN Up(v + costs[item[k]])
                                                        ELSE v]]
  OBVIOUS
<1>8. \A k \in 1..n, v \in Int : step[k][v] = IF item[k] \in start THEN Up(v + costs[item[k]])
                                              ELSE v
  BY <1>7
<1>9. PICK V : V = Int
  OBVIOUS
<1>10. StepsInto(step, 1..n, V) /\ 0 \in V
  BY <1>5, <1>6, <1>8, <1>9 DEF StepsInto
<1>11. \A s \in SUBSET (1..n) : s # {} => Max(s) \in 1..n
  BY <1>2, LastPosition
<1>12. ASSUME NEW g, FoldsLeft(g, n, V, 0, step)
       PROVE  UpperFold(g)
  <2>1. g = [s \in SUBSET (1..n) |-> g[s]] /\ g[{}] = 0
    BY <1>12 DEF FoldsLeft
  <2>2. ASSUME NEW s \in SUBSET (1..n), s # {}
        PROVE  g[s] = IF Order[Max(s)] \in start THEN Up(g[s \ {Max(s)}] + costs[Order[Max(s)]])
                      ELSE g[s \ {Max(s)}]
    <3>1. g[s \ {Max(s)}] \in Int /\ g[s] = step[Max(s)][g[s \ {Max(s)}]]
      BY <1>9, <1>12, <2>2 DEF FoldsLeft
    <3> QED BY <1>3, <1>8, <1>11, <2>2, <3>1
  <2> QED BY <1>2, <2>1, <2>2 DEF UpperFold
<1>13. ASSUME NEW g, UpperFold(g)
       PROVE  FoldsAlong(g, n, V, 0, step)
  <2>1. g[{}] = 0
    BY <1>2, <1>13 DEF UpperFold
  <2>2. ASSUME NEW s \in SUBSET (1..n), s # {}, g[s \ {Max(s)}] \in V
        PROVE  g[s] = step[Max(s)][g[s \ {Max(s)}]]
    <3>1. g[s] = IF Order[Max(s)] \in start THEN Up(g[s \ {Max(s)}] + costs[Order[Max(s)]])
                 ELSE g[s \ {Max(s)}]
      BY <1>2, <1>13, <2>2 DEF UpperFold
    <3> QED BY <1>3, <1>8, <1>9, <1>11, <2>2, <3>1
  <2> QED BY <2>1, <2>2 DEF FoldsAlong
<1>14. PICK g : UpperFold(g) /\ UpperBound = g[1..n]
  BY <1>1, <1>2, <1>10, <1>12, LeftFoldExists
<1>15. PICK p : Running(p, n, Int, 0, step) /\ p[n] = UpperBound
  <2>1. FoldsAlong(g, n, V, 0, step)
    BY <1>13, <1>14
  <2>2. \E p : Running(p, n, V, 0, step) /\ p[n] = g[1..n]
    BY <1>2, <1>10, <2>1, LeftFoldPrefixes
  <2> QED BY <1>9, <1>14, <2>2
<1>16. AddsAtLeast(step, costs, item, start, n)
  BY <1>5, <1>8 DEF AddsAtLeast
<1>17. UpperBound \in Int
  BY <1>2, <1>15 DEF Running
<1>18. 0 + Total(costs, Met(item, start, n)) <= p[n]
  BY <1>2, <1>4, <1>6, <1>15, <1>16, RunningAbove
<1>19. Met(item, start, n) = start
  <2>1. start \subseteq 1..n
    BY <1>2 DEF InputsOK, Partitions, Order
  <2>2. \A k \in 1..n : item[k] = k
    BY <1>2, <1>3 DEF Order
  <2> QED BY <2>1, <2>2 DEF Met
<1>20. Total(costs, start) \in Int
  BY <1>2, <1>4, <1>19, MetFinite, TotalType
<1> QED BY <1>15, <1>17, <1>18, <1>19, <1>20

DualFold(g) ==
  g = [s \in SUBSET DOMAIN Rows |->
         IF s = {} THEN 0
         ELSE LET k == Max(s)
              IN Down(g[s \ {k}] + duals[Rows[k]])]

\* The sum of the duals, rounded down.
LEMMA DualSumIsBelow ==
  ASSUME Unbounded, InputsOK
  PROVE  DualSum \in Int /\ DualSum <= Total(duals, ToSet(Rows))
<1>1. DualSum = (CHOOSE g : DualFold(g))[DOMAIN Rows]
  BY DEF DualSum, FoldLeft, MapThenFoldSet, DualFold
<1>2. PICK n \in Nat : DOMAIN Rows = 1..n
  BY IncidenceAssumption DEF Columns, Order
<1>3. PICK item : item = Rows
  OBVIOUS
<1>4. Weighs(duals, item, ToSet(Rows), n)
  BY <1>2, <1>3, IncidenceAssumption DEF InputsOK, Weighs, ToSet
<1>5. ASSUME NEW k \in 1..n, NEW v \in Int
      PROVE  LET e == Down(v + duals[item[k]])
             IN  e \in Int /\ e <= v + (IF item[k] \in ToSet(Rows) THEN duals[item[k]] ELSE 0)
  <2>1. item[k] \in ToSet(Rows)
    BY <1>2, <1>3 DEF ToSet
  <2>2. v + duals[item[k]] \in Int
    BY <2>1, <1>4 DEF Weighs
  <2> QED BY <2>1, <2>2, Outward
<1>6. 0 \in Int
  OBVIOUS
<1>7. PICK step : step = [k \in 1..n |-> [v \in Int |-> Down(v + duals[item[k]])]]
  OBVIOUS
<1>8. \A k \in 1..n, v \in Int : step[k][v] = Down(v + duals[item[k]])
  BY <1>7
<1>9. PICK V : V = Int
  OBVIOUS
<1>10. StepsInto(step, 1..n, V) /\ 0 \in V
  BY <1>5, <1>6, <1>8, <1>9 DEF StepsInto
<1>11. \A s \in SUBSET (1..n) : s # {} => Max(s) \in 1..n
  BY <1>2, LastPosition
<1>12. ASSUME NEW g, FoldsLeft(g, n, V, 0, step)
       PROVE  DualFold(g)
  <2>1. g = [s \in SUBSET (1..n) |-> g[s]] /\ g[{}] = 0
    BY <1>12 DEF FoldsLeft
  <2>2. ASSUME NEW s \in SUBSET (1..n), s # {}
        PROVE  g[s] = Down(g[s \ {Max(s)}] + duals[Rows[Max(s)]])
    <3>1. g[s \ {Max(s)}] \in Int /\ g[s] = step[Max(s)][g[s \ {Max(s)}]]
      BY <1>9, <1>12, <2>2 DEF FoldsLeft
    <3> QED BY <1>3, <1>8, <1>11, <2>2, <3>1
  <2> QED BY <1>2, <2>1, <2>2 DEF DualFold
<1>13. ASSUME NEW g, DualFold(g)
       PROVE  FoldsAlong(g, n, V, 0, step)
  <2>1. g[{}] = 0
    BY <1>2, <1>13 DEF DualFold
  <2>2. ASSUME NEW s \in SUBSET (1..n), s # {}, g[s \ {Max(s)}] \in V
        PROVE  g[s] = step[Max(s)][g[s \ {Max(s)}]]
    <3>1. g[s] = Down(g[s \ {Max(s)}] + duals[Rows[Max(s)]])
      BY <1>2, <1>13, <2>2 DEF DualFold
    <3> QED BY <1>3, <1>8, <1>9, <1>11, <2>2, <3>1
  <2> QED BY <2>1, <2>2 DEF FoldsAlong
<1>14. PICK g : DualFold(g) /\ DualSum = g[1..n]
  BY <1>1, <1>2, <1>10, <1>12, LeftFoldExists
<1>15. PICK p : Running(p, n, Int, 0, step) /\ p[n] = DualSum
  <2>1. FoldsAlong(g, n, V, 0, step)
    BY <1>13, <1>14
  <2>2. \E p : Running(p, n, V, 0, step) /\ p[n] = g[1..n]
    BY <1>2, <1>10, <2>1, LeftFoldPrefixes
  <2> QED BY <1>9, <1>14, <2>2
<1>16. AddsAtMost(step, duals, item, ToSet(Rows), n)
  BY <1>5, <1>8 DEF AddsAtMost
<1>17. DualSum \in Int
  BY <1>2, <1>15 DEF Running
<1>18. p[n] <= 0 + Total(duals, Met(item, ToSet(Rows), n))
  BY <1>2, <1>4, <1>6, <1>15, <1>16, RunningBelow
<1>19. Met(item, ToSet(Rows), n) = ToSet(Rows)
  BY <1>2, <1>3 DEF Met, ToSet
<1>20. Total(duals, ToSet(Rows)) \in Int
  BY <1>2, <1>4, <1>19, MetFinite, TotalType
<1> QED BY <1>15, <1>17, <1>18, <1>19, <1>20

ColumnFold(g, j) ==
  g = [s \in SUBSET DOMAIN Rows |->
         IF s = {} THEN 0
         ELSE LET k == Max(s)
              IN IF Rows[k] \in Cover[j] THEN Up(g[s \ {k}] + duals[Rows[k]]) ELSE g[s \ {k}]]

\* The duals of a column, rounded up.
LEMMA ColumnDualsAbove ==
  ASSUME Unbounded, InputsOK, NEW j \in Columns
  PROVE  ColumnDuals(j) \in Int /\ Total(duals, Cover[j]) <= ColumnDuals(j)
<1>1. ColumnDuals(j) = (CHOOSE g : ColumnFold(g, j))[DOMAIN Rows]
  BY DEF ColumnDuals, FoldLeft, MapThenFoldSet, ColumnFold
<1>2. PICK n \in Nat : DOMAIN Rows = 1..n
  BY IncidenceAssumption DEF Columns, Order
<1>3. PICK item : item = Rows
  OBVIOUS
<1>4. Weighs(duals, item, Cover[j], n)
  BY <1>2, <1>3, IncidenceAssumption DEF InputsOK, Weighs, ToSet
<1>5. ASSUME NEW k \in 1..n, NEW v \in Int
      PROVE  LET e == IF item[k] \in Cover[j] THEN Up(v + duals[item[k]]) ELSE v
             IN  e \in Int /\ v + (IF item[k] \in Cover[j] THEN duals[item[k]] ELSE 0) <= e
  <2>1. item[k] \in Cover[j] => v + duals[item[k]] \in Int
    BY <1>4 DEF Weighs
  <2> QED BY <2>1, Outward
<1>6. 0 \in Int
  OBVIOUS
<1>7. PICK step : step = [k \in 1..n |-> [v \in Int |-> IF item[k] \in Cover[j] THEN Up(v + duals[item[k]])
                                                        ELSE v]]
  OBVIOUS
<1>8. \A k \in 1..n, v \in Int : step[k][v] = IF item[k] \in Cover[j] THEN Up(v + duals[item[k]])
                                              ELSE v
  BY <1>7
<1>9. PICK V : V = Int
  OBVIOUS
<1>10. StepsInto(step, 1..n, V) /\ 0 \in V
  BY <1>5, <1>6, <1>8, <1>9 DEF StepsInto
<1>11. \A s \in SUBSET (1..n) : s # {} => Max(s) \in 1..n
  BY <1>2, LastPosition
<1>12. ASSUME NEW g, FoldsLeft(g, n, V, 0, step)
       PROVE  ColumnFold(g, j)
  <2>1. g = [s \in SUBSET (1..n) |-> g[s]] /\ g[{}] = 0
    BY <1>12 DEF FoldsLeft
  <2>2. ASSUME NEW s \in SUBSET (1..n), s # {}
        PROVE  g[s] = IF Rows[Max(s)] \in Cover[j] THEN Up(g[s \ {Max(s)}] + duals[Rows[Max(s)]])
                      ELSE g[s \ {Max(s)}]
    <3>1. g[s \ {Max(s)}] \in Int /\ g[s] = step[Max(s)][g[s \ {Max(s)}]]
      BY <1>9, <1>12, <2>2 DEF FoldsLeft
    <3> QED BY <1>3, <1>8, <1>11, <2>2, <3>1
  <2> QED BY <1>2, <2>1, <2>2 DEF ColumnFold
<1>13. ASSUME NEW g, ColumnFold(g, j)
       PROVE  FoldsAlong(g, n, V, 0, step)
  <2>1. g[{}] = 0
    BY <1>2, <1>13 DEF ColumnFold
  <2>2. ASSUME NEW s \in SUBSET (1..n), s # {}, g[s \ {Max(s)}] \in V
        PROVE  g[s] = step[Max(s)][g[s \ {Max(s)}]]
    <3>1. g[s] = IF Rows[Max(s)] \in Cover[j] THEN Up(g[s \ {Max(s)}] + duals[Rows[Max(s)]])
                 ELSE g[s \ {Max(s)}]
      BY <1>2, <1>13, <2>2 DEF ColumnFold
    <3> QED BY <1>3, <1>8, <1>9, <1>11, <2>2, <3>1
  <2> QED BY <2>1, <2>2 DEF FoldsAlong
<1>14. PICK g : ColumnFold(g, j) /\ ColumnDuals(j) = g[1..n]
  BY <1>1, <1>2, <1>10, <1>12, LeftFoldExists
<1>15. PICK p : Running(p, n, Int, 0, step) /\ p[n] = ColumnDuals(j)
  <2>1. FoldsAlong(g, n, V, 0, step)
    BY <1>13, <1>14
  <2>2. \E p : Running(p, n, V, 0, step) /\ p[n] = g[1..n]
    BY <1>2, <1>10, <2>1, LeftFoldPrefixes
  <2> QED BY <1>9, <1>14, <2>2
<1>16. AddsAtLeast(step, duals, item, Cover[j], n)
  BY <1>5, <1>8 DEF AddsAtLeast
<1>17. ColumnDuals(j) \in Int
  BY <1>2, <1>15 DEF Running
<1>18. 0 + Total(duals, Met(item, Cover[j], n)) <= p[n]
  BY <1>2, <1>4, <1>6, <1>15, <1>16, RunningAbove
<1>19. Met(item, Cover[j], n) = Cover[j]
  BY <1>2, <1>3, IncidenceAssumption DEF Met, ToSet, Columns
<1>20. Total(duals, Cover[j]) \in Int
  BY <1>2, <1>4, <1>19, MetFinite, TotalType
<1> QED BY <1>15, <1>17, <1>18, <1>19, <1>20

\* There are finitely many rows to cover.
LEMMA RowsFinite == IsFiniteSet(ToSet(Rows))
<1>1. PICK n \in Nat : DOMAIN Rows = 1..n
  BY IncidenceAssumption
<1>2. PICK D : D = 1..n
  OBVIOUS
<1>3. IsFiniteSet(D)
  BY <1>1, <1>2, FS_Interval
<1>4. PICK f : f = [i \in D |-> Rows[i]]
  OBVIOUS
<1>5. f \in Surjection(D, ToSet(Rows))
  BY <1>1, <1>2, <1>4 DEF ToSet, Surjection
<1>6. IsFiniteSet(ToSet(Rows))
  BY <1>3, <1>5, FS_Surjection
<1> QED BY <1>6

\* A column covers finitely many rows, all to be covered.
LEMMA CoverFinite ==
  ASSUME NEW j \in Columns
  PROVE  IsFiniteSet(Cover[j]) /\ Cover[j] \subseteq ToSet(Rows)
<1>1. Cover[j] \subseteq ToSet(Rows)
  BY IncidenceAssumption DEF Columns
<1> QED BY <1>1, RowsFinite, FS_Subset

\* The share of a column in the lower bound.
Share == [j \in Columns |-> Min({0, Residual(j)})]

\* Rounding leaves the residual of a column at or below its reduced cost.
LEMMA ResidualIsBelow ==
  ASSUME Unbounded, InputsOK, NEW j \in Columns
  PROVE  /\ Residual(j) \in Int
         /\ Total(duals, Cover[j]) \in Int
         /\ Residual(j) + Total(duals, Cover[j]) <= costs[j]
         /\ Share[j] = IF Residual(j) < 0 THEN Residual(j) ELSE 0
<1>1. PICK c \in Int : c = costs[j]
  BY DEF InputsOK
<1>2. PICK d \in Int : d = ColumnDuals(j)
  BY ColumnDualsAbove
<1>3. PICK t \in Int : t = Total(duals, Cover[j])
  <2>1. IsFiniteSet(Cover[j]) /\ \A i \in Cover[j] : duals[i] \in Int
    BY CoverFinite DEF InputsOK
  <2> QED BY <2>1, TotalType
<1>4. t <= d
  BY <1>2, <1>3, ColumnDualsAbove
<1>5. c - d \in Int
  OBVIOUS
<1>6. Residual(j) \in Int /\ Residual(j) <= c - d
  BY <1>1, <1>2, <1>5, Outward DEF Residual
<1>7. Min({0, Residual(j)}) = IF Residual(j) < 0 THEN Residual(j) ELSE 0
  BY <1>6 DEF Min
<1> QED BY <1>1, <1>3, <1>4, <1>6, <1>7 DEF Share

LowerFold(g) ==
  g = [s \in SUBSET DOMAIN Order |->
         IF s = {} THEN DualSum
         ELSE LET k == Max(s)
              IN Down(g[s \ {k}] + Min({0, Residual(Order[k])}))]

\* The lower bound is at most the duals and the shares of all columns.
LEMMA LowerIsBelow ==
  ASSUME Unbounded, InputsOK
  PROVE  LowerBound \in Int /\ LowerBound <= DualSum + Total(Share, Columns)
<1>1. LowerBound = (CHOOSE g : LowerFold(g))[DOMAIN Order]
  BY DEF LowerBound, FoldLeft, MapThenFoldSet, LowerFold
<1>2. PICK n \in Nat : DOMAIN Order = 1..n
  BY IncidenceAssumption DEF Columns, Order
<1>3. PICK item : item = Order
  OBVIOUS
<1>4. Weighs(Share, item, Columns, n)
  <2>1. \A k \in 1..n : item[k] = k /\ k \in Columns
    BY <1>2, <1>3 DEF Order
  <2>2. \A k \in Columns : Share[k] \in Int
    BY ResidualIsBelow
  <2> QED BY <2>1, <2>2 DEF Weighs
<1>5. ASSUME NEW k \in 1..n, NEW v \in Int
      PROVE  LET e == Down(v + Min({0, Residual(item[k])}))
             IN  e \in Int /\ e <= v + (IF item[k] \in Columns THEN Share[item[k]] ELSE 0)
  <2>1. item[k] \in Columns
    BY <1>2, <1>3 DEF Order
  <2>2. Share[item[k]] = Min({0, Residual(item[k])}) /\ Share[item[k]] \in Int
    BY <2>1, ResidualIsBelow DEF Share
  <2>3. v + Min({0, Residual(item[k])}) \in Int
    BY <2>2
  <2> QED BY <2>1, <2>2, <2>3, Outward
<1>6. DualSum \in Int
  BY DualSumIsBelow
<1>7. PICK step : step = [k \in 1..n |-> [v \in Int |-> Down(v + Min({0, Residual(item[k])}))]]
  OBVIOUS
<1>8. \A k \in 1..n, v \in Int : step[k][v] = Down(v + Min({0, Residual(item[k])}))
  BY <1>7
<1>9. PICK V : V = Int
  OBVIOUS
<1>10. StepsInto(step, 1..n, V) /\ DualSum \in V
  BY <1>5, <1>6, <1>8, <1>9 DEF StepsInto
<1>11. \A s \in SUBSET (1..n) : s # {} => Max(s) \in 1..n
  BY <1>2, LastPosition
<1>12. ASSUME NEW g, FoldsLeft(g, n, V, DualSum, step)
       PROVE  LowerFold(g)
  <2>1. g = [s \in SUBSET (1..n) |-> g[s]] /\ g[{}] = DualSum
    BY <1>12 DEF FoldsLeft
  <2>2. ASSUME NEW s \in SUBSET (1..n), s # {}
        PROVE  g[s] = Down(g[s \ {Max(s)}] + Min({0, Residual(Order[Max(s)])}))
    <3>1. g[s \ {Max(s)}] \in Int /\ g[s] = step[Max(s)][g[s \ {Max(s)}]]
      BY <1>9, <1>12, <2>2 DEF FoldsLeft
    <3> QED BY <1>3, <1>8, <1>11, <2>2, <3>1
  <2> QED BY <1>2, <2>1, <2>2 DEF LowerFold
<1>13. ASSUME NEW g, LowerFold(g)
       PROVE  FoldsAlong(g, n, V, DualSum, step)
  <2>1. g[{}] = DualSum
    BY <1>2, <1>13 DEF LowerFold
  <2>2. ASSUME NEW s \in SUBSET (1..n), s # {}, g[s \ {Max(s)}] \in V
        PROVE  g[s] = step[Max(s)][g[s \ {Max(s)}]]
    <3>1. g[s] = Down(g[s \ {Max(s)}] + Min({0, Residual(Order[Max(s)])}))
      BY <1>2, <1>13, <2>2 DEF LowerFold
    <3> QED BY <1>3, <1>8, <1>9, <1>11, <2>2, <3>1
  <2> QED BY <2>1, <2>2 DEF FoldsAlong
<1>14. PICK g : LowerFold(g) /\ LowerBound = g[1..n]
  BY <1>1, <1>2, <1>10, <1>12, LeftFoldExists
<1>15. PICK p : Running(p, n, Int, DualSum, step) /\ p[n] = LowerBound
  <2>1. FoldsAlong(g, n, V, DualSum, step)
    BY <1>13, <1>14
  <2>2. \E p : Running(p, n, V, DualSum, step) /\ p[n] = g[1..n]
    BY <1>2, <1>10, <2>1, LeftFoldPrefixes
  <2> QED BY <1>9, <1>14, <2>2
<1>16. AddsAtMost(step, Share, item, Columns, n)
  BY <1>5, <1>8 DEF AddsAtMost
<1>17. LowerBound \in Int
  BY <1>2, <1>15 DEF Running
<1>18. p[n] <= DualSum + Total(Share, Met(item, Columns, n))
  BY <1>2, <1>4, <1>6, <1>15, <1>16, RunningBelow
<1>19. Met(item, Columns, n) = Columns
  BY <1>2, <1>3 DEF Met, Order
<1>20. Total(Share, Columns) \in Int
  BY <1>2, <1>4, <1>19, MetFinite, TotalType
<1> QED BY <1>6, <1>15, <1>17, <1>18, <1>19, <1>20
-----------------------------------------------------------------------------
(* Weak duality.                                                           *)

Reach(W) == UNION {Cover[j] : j \in W}

Summable(W) ==
  /\ IsFiniteSet(W) /\ Total(Share, W) \in Int /\ Total(costs, W) \in Int
  /\ \A j \in W : Share[j] \in Int /\ costs[j] \in Int
  /\ IsFiniteSet(Reach(W)) /\ Total(duals, Reach(W)) \in Int
  /\ \A i \in Reach(W) : duals[i] \in Int

\* Every set of columns has exact sums of its costs, residuals and duals.
LEMMA SumsExist ==
  ASSUME Unbounded, InputsOK, NEW W \in SUBSET Columns
  PROVE  Summable(W)
<1>1. IsFiniteSet(Columns) /\ IsFiniteSet(ToSet(Rows))
  <2>1. PICK n \in Nat : Columns = 1..n
    BY IncidenceAssumption DEF Columns
  <2> QED BY <2>1, FS_Interval, RowsFinite
<1>2. IsFiniteSet(W) /\ \A j \in W : Share[j] \in Int /\ costs[j] \in Int
  BY <1>1, FS_Subset, ResidualIsBelow DEF InputsOK
<1>3. Reach(W) \subseteq ToSet(Rows)
  BY CoverFinite DEF Reach
<1>4. IsFiniteSet(Reach(W)) /\ \A i \in Reach(W) : duals[i] \in Int
  BY <1>1, <1>3, FS_Subset DEF InputsOK
<1>5. Total(Share, W) \in Int /\ Total(costs, W) \in Int
  BY <1>2, TotalType
<1>6. Total(duals, Reach(W)) \in Int
  BY <1>4, TotalType
<1> QED BY <1>2, <1>4, <1>5, <1>6 DEF Summable

\* Adding a column to columns for other customers adds its customers.
LEMMA ReachSplits ==
  ASSUME Unbounded, InputsOK, NEW W \in SUBSET Columns, NEW x \in W,
         \A j \in W : j # x => Cover[j] \cap Cover[x] = {}
  PROVE  Total(duals, Reach(W)) = Total(duals, Cover[x]) + Total(duals, Reach(W \ {x}))
<1>1. Cover[x] \in SUBSET Reach(W) /\ Reach(W) \ Cover[x] = Reach(W \ {x})
  BY DEF Reach
<1>2. IsFiniteSet(Reach(W)) /\ \A i \in Reach(W) : duals[i] \in Int
  BY SumsExist DEF Summable
<1>3. PICK U : U = Reach(W)
  OBVIOUS
<1>4. PICK C \in SUBSET U : C = Cover[x]
  BY <1>1, <1>3
<1>5. Total(duals, U) = Total(duals, C) + Total(duals, U \ C)
  BY <1>2, <1>3, TotalSplit
<1> QED BY <1>1, <1>3, <1>4, <1>5

\* Columns for different customers cost at least their shares and the duals of
\* their customers.
LEMMA DisjointColumns ==
  ASSUME Unbounded, InputsOK, NEW S \in SUBSET Columns,
         \A i, j \in S : i # j => Cover[i] \cap Cover[j] = {}
  PROVE  Total(Share, S) + Total(duals, Reach(S)) <= Total(costs, S)
<1> DEFINE Holds(W) == Total(Share, W) + Total(duals, Reach(W)) <= Total(costs, W)
           T == {W \in SUBSET S : ~Holds(W)}
<1> SUFFICES ASSUME T # {}
             PROVE  FALSE
  OBVIOUS
<1>1. IsFiniteSet(S) /\ T \subseteq SUBSET S
  BY SumsExist DEF Summable
<1>2. PICK W : Smallest(W, T)
  <2> HIDE DEF T
  <2> QED BY <1>1, SmallestSubset
<1>3. W \in SUBSET S /\ W \in SUBSET Columns /\ ~Holds(W)
  BY <1>2 DEF Smallest
<1>4. W # {}
  <2>1. ASSUME W = {} PROVE FALSE
    <3>1. Reach(W) = {} /\ IsFiniteSet(W)
      BY <2>1, FS_EmptySet DEF Reach
    <3>2. Total(Share, W) = 0 /\ Total(duals, Reach(W)) = 0 /\ Total(costs, W) = 0
      BY <2>1, <3>1, TotalType
    <3> QED BY <1>3, <3>2
  <2> QED BY <2>1
<1>5. PICK x \in W : TRUE
  BY <1>4
<1>6. PICK V : V = W \ {x}
  OBVIOUS
<1>7. Holds(V) /\ V \in SUBSET Columns
  BY <1>2, <1>3, <1>5, <1>6 DEF Smallest
<1>8. Summable(W) /\ Summable(V)
  BY <1>3, <1>7, SumsExist
<1>9. /\ Total(Share, W) = Share[x] + Total(Share, V)
      /\ Total(costs, W) = costs[x] + Total(costs, V)
  BY <1>5, <1>6, <1>8, TotalRemove DEF Summable
<1>10. Total(duals, Reach(W)) = Total(duals, Cover[x]) + Total(duals, Reach(V))
  BY <1>3, <1>5, <1>6, ReachSplits
<1>11. /\ Residual(x) \in Int /\ Total(duals, Cover[x]) \in Int
       /\ Residual(x) + Total(duals, Cover[x]) <= costs[x]
       /\ Share[x] = IF Residual(x) < 0 THEN Residual(x) ELSE 0
  BY <1>3, <1>5, ResidualIsBelow
<1>12. PICK r \in Int, d \in Int, c \in Int :
         r = Share[x] /\ d = Total(duals, Cover[x]) /\ c = costs[x]
  BY <1>5, <1>8, <1>11 DEF Summable
<1>13. r + d <= c
  BY <1>11, <1>12
<1>14. PICK r2 \in Int, d2 \in Int, c2 \in Int :
         r2 = Total(Share, V) /\ d2 = Total(duals, Reach(V)) /\ c2 = Total(costs, V)
  BY <1>8 DEF Summable
<1>15. r2 + d2 <= c2
  BY <1>7, <1>14
<1>16. (r + r2) + (d + d2) <= c + c2
  BY <1>13, <1>15
<1> QED BY <1>3, <1>9, <1>10, <1>12, <1>14, <1>16

\* The lower bound holds for every partition, and what it gains from a column
\* that the partition contains holds too.
LEMMA LowerBoundHolds ==
  ASSUME Unbounded, InputsOK, NEW S \in Partitions
  PROVE  /\ LowerBound \in Int
         /\ LowerBound <= Total(costs, S)
         /\ \A j \in S : LowerBound + Max({0, Residual(j)}) <= Total(costs, S)
<1>1. /\ S \in SUBSET Columns /\ Reach(S) = ToSet(Rows)
      /\ \A i, j \in S : i # j => Cover[i] \cap Cover[j] = {}
  BY DEF Partitions, Reach
<1>2. Summable(S) /\ Summable(Columns) /\ Summable(Columns \ S)
  BY <1>1, SumsExist
<1>3. PICK l \in Int, y \in Int, a \in Int, b \in Int, c \in Int, u \in Int :
        /\ l = LowerBound /\ y = DualSum /\ u = Total(duals, Reach(S))
        /\ a = Total(Share, S) /\ b = Total(Share, Columns \ S) /\ c = Total(costs, S)
  BY <1>2, LowerIsBelow, DualSumIsBelow DEF Summable
<1>4. Total(Share, Columns) = a + b
  <2>1. IsFiniteSet(Columns) /\ \A x \in Columns : Share[x] \in Int
    BY <1>2 DEF Summable
  <2>2. Total(Share, Columns) = Total(Share, S) + Total(Share, Columns \ S)
    BY <1>1, <2>1, TotalSplit
  <2> QED BY <1>3, <2>2
<1>5. b <= 0
  <2>1. \A j \in Columns \ S : Share[j] \in Int /\ Share[j] <= 0
    BY ResidualIsBelow
  <2> QED BY <1>2, <1>3, <2>1, TotalNotPositive DEF Summable
<1>6. l <= y + (a + b)
  BY <1>3, <1>4, LowerIsBelow
<1>7. y <= u
  BY <1>1, <1>3, DualSumIsBelow
<1>8. l <= a + u
  BY <1>5, <1>6, <1>7
<1>9. a + u <= c
  BY <1>1, <1>3, DisjointColumns
<1>10. ASSUME NEW j \in S
       PROVE  LowerBound + Max({0, Residual(j)}) <= Total(costs, S)
  <2>1. PICK V : V = S \ {j}
    OBVIOUS
  <2>2. Summable(V)
    BY <1>1, <2>1, SumsExist
  <2>3. Total(Share, V) + Total(duals, Reach(V)) <= Total(costs, V)
    BY <1>1, <2>1, DisjointColumns
  <2>4. /\ Total(Share, S) = Share[j] + Total(Share, V)
        /\ Total(costs, S) = costs[j] + Total(costs, V)
    BY <1>2, <2>1, TotalRemove DEF Summable
  <2>5. Total(duals, Reach(S)) = Total(duals, Cover[j]) + Total(duals, Reach(V))
    BY <1>1, <2>1, ReachSplits
  <2>6. PICK r \in Int, d \in Int, k \in Int, r2 \in Int, d2 \in Int, c2 \in Int :
          /\ r = Residual(j) /\ d = Total(duals, Cover[j]) /\ k = costs[j]
          /\ r2 = Total(Share, V) /\ d2 = Total(duals, Reach(V)) /\ c2 = Total(costs, V)
    BY <1>1, <1>2, <2>2, ResidualIsBelow DEF Summable
  <2>7. r + d <= k /\ Share[j] = IF r < 0 THEN r ELSE 0
    BY <1>1, <2>6, ResidualIsBelow
  <2>8. PICK m \in Int : m = IF r < 0 THEN 0 ELSE r
    OBVIOUS
  <2>9. Max({0, Residual(j)}) = m
    BY <2>6, <2>8 DEF Max
  <2>10. a = (r - m) + r2 /\ u = d + d2 /\ c = k + c2 /\ r2 + d2 <= c2
    BY <1>3, <2>3, <2>4, <2>5, <2>6, <2>7, <2>8
  <2>11. l + m <= c
    BY <1>8, <2>7, <2>10
  <2> QED BY <1>3, <2>9, <2>11
<1> QED BY <1>3, <1>8, <1>9, <1>10
-----------------------------------------------------------------------------
(* The certificate.                                                        *)

AcceptedGap == Min({AbsGap, Tol})

CertifiedSound(c) ==
  c.certified =>
    \A S \in Partitions : Total(costs, start) <= Total(costs, S) + AcceptedGap

FixingSound(c) ==
  \A S \in Partitions :
    Total(costs, S) <= Total(costs, start) + Tol => S \cap c.fixed = {}

\* What certify_sp_start certifies and fixes is sound for exact costs.
LEMMA CertificateSound ==
  ASSUME Unbounded, InputsOK
  PROVE  CertifiedSound(Certificate) /\ FixingSound(Certificate)
<1>1. AbsGap \in Nat /\ Tol \in Nat /\ AcceptedGap \in Int
  <2>1. AbsGap \in Nat /\ Tol \in Nat
    BY CertificateAssumption
  <2> QED BY <2>1 DEF AcceptedGap, Min
<1>2. start \in Partitions
  BY DEF InputsOK
<1>3. PICK u \in Int, l \in Int, t \in Int :
        u = UpperBound /\ l = LowerBound /\ t = Total(costs, start)
  BY <1>2, UpperIsAbove, LowerBoundHolds, SumsExist DEF Summable, Partitions
<1>4. t <= u
  BY <1>3, UpperIsAbove
<1>5. ASSUME NEW S \in Partitions
      PROVE  Total(costs, S) \in Int
  BY <1>5, SumsExist DEF Summable, Partitions
<1>6. CertifiedSound(Certificate)
  <2> SUFFICES ASSUME Certificate.certified, NEW S \in Partitions
               PROVE  t <= Total(costs, S) + AcceptedGap
    BY <1>3 DEF CertifiedSound
  <2>1. Gap <= AcceptedGap
    BY DEF Certificate, NoCertificate, AcceptedGap
  <2>2. PICK c \in Int : c = Total(costs, S) /\ l <= c
    BY <1>3, <1>5, LowerBoundHolds
  <2>3. u - l \in Int
    OBVIOUS
  <2>4. Gap \in Int /\ u - l <= Gap
    BY <1>3, <2>3, Outward DEF Gap
  <2> QED BY <1>1, <1>4, <2>1, <2>2, <2>4
<1>7. FixingSound(Certificate)
  <2> SUFFICES ASSUME NEW S \in Partitions, Total(costs, S) <= t + Tol,
                      NEW j \in S, j \in Certificate.fixed
               PROVE  FALSE
    BY <1>3 DEF FixingSound
  <2>1. j \in Fixed /\ j \in Columns
    BY DEF Certificate, NoCertificate, Fixed
  <2>2. PICK m \in Int : m = Max({0, Residual(j)})
    <3>1. Residual(j) \in Int
      BY <2>1, ResidualIsBelow
    <3> QED BY <3>1 DEF Max
  <2>3. PICK c \in Int : c = Total(costs, S) /\ l + m <= c
    BY <1>3, <1>5, <2>2, LowerBoundHolds
  <2>4. ConditionalLower(j) \in Int /\ ConditionalLower(j) <= l + m
    <3>1. l + m \in Int
      OBVIOUS
    <3> QED BY <1>3, <2>2, <3>1, Outward DEF ConditionalLower
  <2>5. Threshold \in Int /\ u + Tol <= Threshold
    <3>1. u + Tol \in Int
      BY <1>1
    <3> QED BY <1>3, <3>1, Outward DEF Threshold
  <2>6. ConditionalLower(j) > Threshold
    BY <2>1 DEF Fixed
  <2> QED BY <1>1, <1>4, <2>3, <2>4, <2>5, <2>6
<1> QED BY <1>6, <1>7

CertificateInv == InputsOK /\ CertifiedSound(certificate) /\ FixingSound(certificate)

\* The inputs stay as they were when the certificate was computed.
LEMMA CertificateInvariance ==
  ASSUME Unbounded
  PROVE  CertificateSpec => []CertificateInv
<1>1. CertificateInit => CertificateInv
  BY CertificateAssumption DEF CertificateInit, InputsOK, CertificateInv, NoCertificate, CertifiedSound, FixingSound
<1>2. CertificateInv /\ [CertificateNext]_certificateVars => CertificateInv'
  <2> SUFFICES ASSUME CertificateInv, [CertificateNext]_certificateVars
               PROVE  CertificateInv'
    OBVIOUS
  <2>1. UNCHANGED <<costs, duals, start>> /\ certificate' \in {certificate, Certificate}
    BY DEF CertificateNext, CertifyStart, certificateVars
  <2>2. /\ certificate'.certified =>
            \A S \in Partitions : Total(costs, start) <= Total(costs, S) + AcceptedGap
        /\ \A S \in Partitions :
             Total(costs, S) <= Total(costs, start) + Tol => S \cap certificate'.fixed = {}
    BY <2>1, CertificateSound DEF CertificateInv, CertifiedSound, FixingSound
  <2> QED BY <2>1, <2>2 DEF CertificateInv, CertifiedSound, FixingSound, InputsOK
<1> QED BY <1>1, <1>2, PTL DEF CertificateSpec

\* The exact cost of a set of columns is the sum of their costs.
LEMMA ExactIsTotal == \A S : ExactCost(S) = Total(costs, S)
BY DEF ExactCost, Total

\* For every set of columns, costs and duals, and for every width of the
\* mantissa: a start that certify_sp_start certifies costs no more than any
\* partition plus the accepted gap, whatever the rounding did, as long as no
\* sum overflows (which the code checks, giving no certificate).
THEOREM CertifiedStartsAreOptimal ==
  ASSUME Unbounded
  PROVE  CertificateSpec => []CertifiedOptimal
<1>1. CertificateInv => CertifiedOptimal
  BY ExactIsTotal DEF CertificateInv, CertifiedSound, CertifiedOptimal, AcceptedGap
<1> QED BY <1>1, CertificateInvariance, PTL

\* Under the same conditions the columns certify_sp_start fixes at zero are in
\* no partition within the cost tolerance of the start.
THEOREM FixingLosesNothing ==
  ASSUME Unbounded
  PROVE  CertificateSpec => []FixingKeepsGoodPartitions
<1>1. CertificateInv => FixingKeepsGoodPartitions
  BY ExactIsTotal DEF CertificateInv, FixingSound, FixingKeepsGoodPartitions
<1> QED BY <1>1, CertificateInvariance, PTL
=============================================================================
