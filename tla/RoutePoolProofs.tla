-------------------------- MODULE RoutePoolProofs --------------------------
(***************************************************************************)
(* Proofs about RoutePool for every column set, partition set, capacity,   *)
(* tolerance and identity.                                                 *)
(*                                                                         *)
(* A protected partition fits the main pool and its keys are distinct, the *)
(* main pool holds one column per key, and eviction never takes a          *)
(* protected key; so a pool that is over its capacity always holds a       *)
(* column that may be evicted.                                             *)
(***************************************************************************)
EXTENDS RoutePool, FoldTheorems

\* One column per key, on a set of columns.
Distinct(S) == \A a, b \in S : Key(a) = Key(b) => a = b

Disjoint(S, T) == \A a \in S, b \in T : Key(a) # Key(b)

\* What the loops remember while they run.
LoopState ==
  /\ Cardinality(promise) <= Capacity
  /\ Distinct(promise)
  /\ phase = "protect" => todo \subseteq promise
  /\ phase = "reprice" => todo \subseteq backup

\* The inductive invariant: distinct keys on each side and across, the
\* capacity, the protected keys and the loops' state.
IInv ==
  /\ TypeOK
  /\ Distinct(main) /\ Distinct(backup) /\ Disjoint(main, backup)
  /\ CapacityBound
  /\ ProtectedStay
  /\ LoopState

-----------------------------------------------------------------------------
(* Counting.                                                               *)

\* A set of columns with distinct keys that is larger than the protected
\* partition has a column that is not protected.
LEMMA SomeEvictable ==
  ASSUME NEW M, IsFiniteSet(M), Distinct(M),
         IsFiniteSet(promise), protected = Keys(promise),
         Cardinality(promise) < Cardinality(M)
  PROVE  Evictable(M) # {}
<1> SUFFICES ASSUME \A m \in M : Key(m) \in protected
             PROVE  FALSE
  BY DEF Evictable
<1> DEFINE f == [m \in M |-> CHOOSE p \in promise : Key(p) = Key(m)]
<1>1. \A m \in M : f[m] \in promise /\ Key(f[m]) = Key(m)
  BY DEF Keys
<1>2. f \in [M -> promise]
  BY <1>1
<1>3. PICK x, y \in M : x # y /\ f[x] = f[y]
  <2> HIDE DEF f
  <2> QED BY <1>2, FS_PigeonHole
<1>4. Key(x) = Key(y)
  BY <1>1, <1>3
<1> QED BY <1>3, <1>4 DEF Distinct

\* Removing a set of columns from a finite set does not make it larger.
LEMMA FewerColumns ==
  ASSUME NEW M, IsFiniteSet(M), NEW R
  PROVE  /\ IsFiniteSet(M \ R)
         /\ Cardinality(M \ R) <= Cardinality(M)
         /\ Cardinality(M \ R) \in Nat
         /\ Cardinality(M) \in Nat
<1>1. IsFiniteSet(M \ R)
  BY FS_Subset
<1>2. Cardinality(M \ R) <= Cardinality(M)
  BY FS_Subset
<1> QED BY <1>1, <1>2, FS_CardinalityType

\* A column with no namesake in the main pool makes it exactly one larger.
LEMMA NewColumn ==
  ASSUME NEW c, NEW M, IsFiniteSet(M), SameKey(M, c) = {}
  PROVE  /\ c \notin M
         /\ IsFiniteSet(M \cup {c})
         /\ Cardinality(M \cup {c}) = Cardinality(M) + 1
         /\ Cardinality(M) \in Nat
<1>1. c \notin M
  BY DEF SameKey
<1> QED BY <1>1, FS_AddElement, FS_CardinalityType

-----------------------------------------------------------------------------
(* put_main and put_backup.                                                *)

\* put_main keeps one column per key, adds the key of its column and loses no
\* other, and makes the main pool at most one larger.
LEMMA PutMainKeeps ==
  ASSUME NEW c \in Column, NEW b, PutMain(c, b),
         main \subseteq Column, IsFiniteSet(main), b \subseteq Column,
         Distinct(main), Distinct(b), Disjoint(main, b)
  PROVE  /\ main' \subseteq Column /\ IsFiniteSet(main') /\ backup' \subseteq Column
         /\ Distinct(main') /\ Distinct(backup') /\ Disjoint(main', backup')
         /\ Keys(main') = Keys(main) \cup {Key(c)}
         /\ Cardinality(main') \in Nat /\ Cardinality(main) \in Nat
         /\ Cardinality(main') <= Cardinality(main) + 1
         /\ SameKey(main, c) # {} => Cardinality(main') <= Cardinality(main)
<1> DEFINE rest == main \ SameKey(main, c)
<1>1. main' = rest \cup {c} /\ backup' = b \ SameKey(b, c)
  BY DEF PutMain
<1>2. /\ IsFiniteSet(rest) /\ Cardinality(rest) \in Nat
      /\ Cardinality(main) \in Nat /\ Cardinality(rest) <= Cardinality(main)
  BY FewerColumns
<1>3. /\ IsFiniteSet(rest \cup {c})
      /\ Cardinality(rest \cup {c}) = Cardinality(rest) + 1
  <2>1. c \notin rest
    BY DEF SameKey
  <2> QED BY <1>2, <2>1, FS_AddElement
<1>4. SameKey(main, c) # {} => Cardinality(rest) < Cardinality(main)
  <2> SUFFICES ASSUME NEW m \in SameKey(main, c)
               PROVE  Cardinality(rest) < Cardinality(main)
    OBVIOUS
  <2>1. m \in main /\ rest \subseteq main \ {m}
    BY DEF SameKey
  <2>2. IsFiniteSet(main \ {m}) /\ Cardinality(main \ {m}) = Cardinality(main) - 1
    BY <2>1, FS_RemoveElement
  <2>3. Cardinality(rest) <= Cardinality(main \ {m})
    BY <2>1, <2>2, FS_Subset
  <2> QED BY <1>2, <2>2, <2>3
<1>5. Keys(rest \cup {c}) = Keys(main) \cup {Key(c)}
  BY DEF Keys, SameKey
<1>6. Distinct(rest \cup {c}) /\ Distinct(backup')
  BY <1>1 DEF Distinct, SameKey
<1>7. Disjoint(rest \cup {c}, backup')
  BY <1>1 DEF Disjoint, SameKey
<1>8. main' \subseteq Column /\ backup' \subseteq Column
  BY <1>1
<1>9. /\ Cardinality(rest \cup {c}) <= Cardinality(main) + 1
      /\ SameKey(main, c) # {} => Cardinality(rest \cup {c}) <= Cardinality(main)
  <2> HIDE DEF rest
  <2> QED BY <1>2, <1>3, <1>4
<1>10. Distinct(main') /\ Distinct(backup') /\ Disjoint(main', backup')
  BY Zenon, <1>1, <1>6, <1>7
<1>11. Keys(main') = Keys(main) \cup {Key(c)}
  BY Zenon, <1>1, <1>5
<1>12. IsFiniteSet(main')
  BY Zenon, <1>1, <1>3
<1>13. Cardinality(rest \cup {c}) \in Nat
  BY <1>2, <1>3
<1>14. Cardinality(main') = Cardinality(rest \cup {c})
  BY Zenon, <1>1
<1>15. /\ Cardinality(main') \in Nat /\ Cardinality(main') <= Cardinality(main) + 1
       /\ SameKey(main, c) # {} => Cardinality(main') <= Cardinality(main)
  BY Zenon, <1>9, <1>13, <1>14
<1> QED BY Zenon, <1>2, <1>8, <1>10, <1>11, <1>12, <1>15

\* put_backup keeps one column per key and brings in no column but its own.
LEMMA WithBackupKeeps ==
  ASSUME NEW c, NEW b, Distinct(b)
  PROVE  /\ Distinct(WithBackup(b, c))
         /\ WithBackup(b, c) \subseteq b \cup {c}
         /\ b \ SameKey(b, c) \subseteq WithBackup(b, c)
<1>1. CASE \E old \in SameKey(b, c) : ~Upgrades(c, old)
  BY <1>1 DEF WithBackup
<1>2. CASE ~\E old \in SameKey(b, c) : ~Upgrades(c, old)
  <2>1. WithBackup(b, c) = (b \ SameKey(b, c)) \cup {c}
    BY <1>2 DEF WithBackup
  <2> QED BY <2>1 DEF Distinct, SameKey
<1> QED BY <1>1, <1>2

\* Taking a column out of the main pool and offering it to the backup pool
\* keeps the two pools apart.
LEMMA DemotionKeeps ==
  ASSUME NEW M, NEW b, NEW w \in M, Distinct(M), Distinct(b), Disjoint(M, b)
  PROVE  /\ Distinct(M \ {w}) /\ Distinct(AfterDemotion(b, w))
         /\ Disjoint(M \ {w}, AfterDemotion(b, w))
         /\ AfterDemotion(b, w) \subseteq b \cup {w}
         /\ b \subseteq AfterDemotion(b, w)
         /\ Keys(M) \subseteq Keys(M \ {w}) \cup {Key(w)}
<1>1. SameKey(b, w) = {}
  BY DEF SameKey, Disjoint
<1>2. /\ AfterDemotion(b, w) \subseteq b \cup {w}
      /\ b \subseteq AfterDemotion(b, w)
      /\ Distinct(AfterDemotion(b, w))
  BY <1>1, WithBackupKeeps DEF AfterDemotion
<1>3. Disjoint(M \ {w}, b \cup {w})
  BY DEF Disjoint, Distinct
<1>4. Disjoint(M \ {w}, AfterDemotion(b, w))
  BY <1>2, <1>3 DEF Disjoint
<1>5. Distinct(M \ {w}) /\ Keys(M) \subseteq Keys(M \ {w}) \cup {Key(w)}
  BY DEF Distinct, Keys
<1> QED BY <1>2, <1>4, <1>5

-----------------------------------------------------------------------------
(* admit.                                                                  *)

\* What one call of admit, started from a part of the backup pool, preserves.
LEMMA AcceptKeeps ==
  ASSUME NEW c \in Column, NEW b \in SUBSET backup, Accept(c, b),
         main \subseteq Column, IsFiniteSet(main), backup \subseteq Column,
         Distinct(main), Distinct(backup), Disjoint(main, backup),
         Cardinality(main) <= Capacity
  PROVE  /\ main' \subseteq Column /\ IsFiniteSet(main') /\ backup' \subseteq Column
         /\ Distinct(main') /\ Distinct(backup') /\ Disjoint(main', backup')
         /\ Cardinality(main') <= Capacity
         /\ Keys(main) \cap protected \subseteq Keys(main')
         /\ b \ SameKey(b, c) \subseteq backup'
         /\ update' \in [main : BOOLEAN, backup : BOOLEAN, effective : BOOLEAN]
<1>1. Distinct(b) /\ Disjoint(main, b) /\ b \subseteq Column
  BY DEF Distinct, Disjoint
<1>2. Effective(c) \in BOOLEAN
  BY DEF Effective, Improved
<1>3. Cardinality(main) \in Nat /\ Capacity \in Nat
  BY FS_CardinalityType, CapacityAssumption
<1>4. CASE RejectDominated(c, b)
  <2>1. main' = main /\ backup' = b /\ update' = Rejected
    BY <1>4 DEF RejectDominated
  <2> QED BY <1>1, <2>1 DEF Rejected
<1>5. CASE ReplaceMain(c, b)
  <2>1. PutMain(c, b) /\ SameKey(main, c) # {}
    BY <1>5 DEF ReplaceMain
  <2>2. update' \in [main : BOOLEAN, backup : BOOLEAN, effective : BOOLEAN]
    BY <1>2, <1>5 DEF ReplaceMain
  <2>3. b \ SameKey(b, c) \subseteq backup'
    BY <2>1 DEF PutMain
  <2> QED BY <1>1, <1>3, <2>1, <2>2, <2>3, PutMainKeeps
<1>6. CASE FillMain(c, b)
  <2>1. PutMain(c, b) /\ Cardinality(main) < Capacity
    BY <1>6 DEF FillMain
  <2>2. update' \in [main : BOOLEAN, backup : BOOLEAN, effective : BOOLEAN]
    BY <1>2, <1>6 DEF FillMain
  <2>3. b \ SameKey(b, c) \subseteq backup'
    BY <2>1 DEF PutMain
  <2> QED BY <1>1, <1>3, <2>1, <2>2, <2>3, PutMainKeeps
<1>7. CASE DivertToBackup(c, b)
  <2>1. /\ main' = main /\ backup' = WithBackup(b, c) /\ SameKey(main, c) = {}
        /\ update' = [main |-> FALSE, backup |-> TRUE, effective |-> FALSE]
    BY <1>7 DEF DivertToBackup, IsNewcomer
  <2>2. /\ Distinct(backup') /\ backup' \subseteq b \cup {c}
        /\ b \ SameKey(b, c) \subseteq backup'
    BY <1>1, <2>1, WithBackupKeeps
  <2>3. Disjoint(main, backup')
    BY <1>1, <2>1, <2>2 DEF Disjoint, SameKey
  <2>4. update' \in [main : BOOLEAN, backup : BOOLEAN, effective : BOOLEAN]
    BY <2>1
  <2> QED BY <1>1, <2>1, <2>2, <2>3, <2>4
<1>8. CASE AdmitAndEvict(c, b)
  <2> DEFINE M == main \cup {c}
             bb == b \ SameKey(b, c)
  <2>1. SameKey(main, c) = {}
    BY <1>8 DEF AdmitAndEvict, NeedsEviction, IsNewcomer
  <2>2. PICK w \in Evictable(M) :
          /\ main' = M \ {w}
          /\ backup' = AfterDemotion(bb, w)
          /\ update' = [main |-> w # c, backup |-> w = c /\ KeepEvicted,
                        effective |-> w # c /\ Effective(c)]
    BY <1>8 DEF AdmitAndEvict
  <2>3. w \in M /\ Key(w) \notin protected
    BY <2>2 DEF Evictable
  <2>4. Distinct(M) /\ Distinct(bb) /\ Disjoint(M, bb)
    BY <1>1, <2>1 DEF Distinct, Disjoint, SameKey
  <2>5. /\ Distinct(main') /\ Distinct(backup') /\ Disjoint(main', backup')
        /\ backup' \subseteq bb \cup {w} /\ bb \subseteq backup'
        /\ Keys(M) \subseteq Keys(main') \cup {Key(w)}
    <3> HIDE DEF M, bb
    <3>1. /\ Distinct(M \ {w}) /\ Distinct(AfterDemotion(bb, w))
          /\ Disjoint(M \ {w}, AfterDemotion(bb, w))
          /\ AfterDemotion(bb, w) \subseteq bb \cup {w}
          /\ bb \subseteq AfterDemotion(bb, w)
          /\ Keys(M) \subseteq Keys(M \ {w}) \cup {Key(w)}
      BY <2>3, <2>4, DemotionKeeps
    <3> QED BY <2>2, <3>1
  <2>6. /\ IsFiniteSet(M) /\ Cardinality(M) = Cardinality(main) + 1
    BY <2>1, NewColumn
  <2>7. IsFiniteSet(main') /\ Cardinality(main') = Cardinality(main)
    <3> HIDE DEF M, bb
    <3>1. IsFiniteSet(M \ {w}) /\ Cardinality(M \ {w}) = Cardinality(M) - 1
      BY <2>3, <2>6, FS_RemoveElement
    <3> QED BY <1>3, <2>2, <2>6, <3>1
  <2>8. Keys(main) \cap protected \subseteq Keys(main')
    BY <2>3, <2>5 DEF Keys
  <2>9. update' \in [main : BOOLEAN, backup : BOOLEAN, effective : BOOLEAN]
    <3>1. (w = c /\ KeepEvicted) \in BOOLEAN /\ (w # c /\ Effective(c)) \in BOOLEAN
      OBVIOUS
    <3> QED BY <2>2, <3>1
  <2> QED BY <1>1, <2>2, <2>3, <2>5, <2>7, <2>8, <2>9
<1> QED BY <1>4, <1>5, <1>6, <1>7, <1>8 DEF Accept

-----------------------------------------------------------------------------
(* The inductive invariant.                                                *)

LEMMA InitIInv == Init => IInv
<1> SUFFICES ASSUME Init PROVE IInv
  OBVIOUS
<1>1. IsFiniteSet({}) /\ Cardinality({}) = 0
  BY FS_EmptySet
<1>2. Keys({}) = {}
  BY DEF Keys
<1>3. /\ main = {} /\ backup = {} /\ protected = {} /\ promise = {}
      /\ todo = {} /\ phase = "idle" /\ dualsValid = FALSE
      /\ update = [main |-> FALSE, backup |-> FALSE, effective |-> FALSE]
  BY DEF Init, Rejected
<1>4. TypeOK
  BY <1>1, <1>2, <1>3 DEF TypeOK
<1>5. Distinct(main) /\ Distinct(backup) /\ Disjoint(main, backup)
  BY <1>3 DEF Distinct, Disjoint
<1>6. CapacityBound /\ ProtectedStay /\ LoopState
  BY <1>1, <1>3, CapacityAssumption DEF CapacityBound, ProtectedStay, LoopState, Distinct
<1> QED BY <1>4, <1>5, <1>6 DEF IInv

\* admit, called from outside.
LEMMA AdmitIInv == ASSUME IInv, NEW c \in Column, AdmitColumn(c) PROVE IInv'
<1> USE DEF IInv
<1>1. Accept(c, backup)
  BY DEF AdmitColumn
<1>2. /\ phase = "idle"
      /\ UNCHANGED <<protected, promise, duals, dualsValid, phase, todo>>
  BY DEF AdmitColumn
<1>3. Cardinality(main) <= Capacity
  BY <1>2 DEF CapacityBound
<1>4. /\ main' \subseteq Column /\ IsFiniteSet(main') /\ backup' \subseteq Column
      /\ Distinct(main') /\ Distinct(backup') /\ Disjoint(main', backup')
      /\ Cardinality(main') <= Capacity
      /\ Keys(main) \cap protected \subseteq Keys(main')
      /\ update' \in [main : BOOLEAN, backup : BOOLEAN, effective : BOOLEAN]
  BY <1>1, <1>3, AcceptKeeps DEF TypeOK
<1>5. TypeOK'
  BY <1>2, <1>4 DEF TypeOK, Keys
<1>6. (Distinct(main) /\ Distinct(backup) /\ Disjoint(main, backup))'
  BY <1>4 DEF Distinct, Disjoint
<1>7. CapacityBound'
  BY <1>2, <1>4 DEF CapacityBound
<1>8. ProtectedStay'
  BY <1>2, <1>4 DEF ProtectedStay
<1>9. LoopState'
  BY <1>2 DEF LoopState, Distinct
<1> QED BY <1>5, <1>6, <1>7, <1>8, <1>9

\* admit, called by reprice_backup for its best remaining candidate.
LEMMA RepriceIInv == IInv /\ RepriceCandidate => IInv'
<1> SUFFICES ASSUME IInv, RepriceCandidate PROVE IInv'
  OBVIOUS
<1> USE DEF IInv
<1>1. PICK c \in todo :
        /\ Accept(c, backup \ SameKey(backup, c))
        /\ todo' = todo \ {c}
  BY DEF RepriceCandidate
<1>2. /\ phase = "reprice"
      /\ UNCHANGED <<protected, promise, duals, dualsValid, phase>>
  BY DEF RepriceCandidate
<1> DEFINE b == backup \ SameKey(backup, c)
<1>3. /\ c \in Column /\ c \in backup /\ todo \subseteq backup
      /\ b \in SUBSET backup /\ Cardinality(main) <= Capacity
  BY <1>2 DEF TypeOK, LoopState, CapacityBound
<1>4. /\ main' \subseteq Column /\ IsFiniteSet(main') /\ backup' \subseteq Column
      /\ Distinct(main') /\ Distinct(backup') /\ Disjoint(main', backup')
      /\ Cardinality(main') <= Capacity
      /\ Keys(main) \cap protected \subseteq Keys(main')
      /\ b \ SameKey(b, c) \subseteq backup'
      /\ update' \in [main : BOOLEAN, backup : BOOLEAN, effective : BOOLEAN]
  BY <1>1, <1>3, AcceptKeeps DEF TypeOK
<1>5. todo' \subseteq backup'
  <2>1. todo \ {c} \subseteq b \ SameKey(b, c)
    BY <1>3 DEF SameKey, Distinct
  <2> QED BY <1>1, <1>4, <2>1
<1>6. TypeOK'
  BY <1>1, <1>2, <1>3, <1>4 DEF TypeOK, Keys
<1>7. (Distinct(main) /\ Distinct(backup) /\ Disjoint(main, backup))'
  BY <1>4 DEF Distinct, Disjoint
<1>8. CapacityBound'
  BY <1>2, <1>4 DEF CapacityBound
<1>9. ProtectedStay'
  BY <1>2, <1>4 DEF ProtectedStay
<1>10. LoopState'
  BY <1>2, <1>5 DEF LoopState, Distinct
<1> QED BY <1>6, <1>7, <1>8, <1>9, <1>10

\* protect_partition puts one plan of the partition into the main pool.
LEMMA ProtectPlanIInv == IInv /\ ProtectPlan => IInv'
<1> SUFFICES ASSUME IInv, ProtectPlan PROVE IInv'
  OBVIOUS
<1> USE DEF IInv
<1>1. /\ phase = "protect"
      /\ UNCHANGED <<protected, promise, duals, dualsValid, phase>>
  BY DEF ProtectPlan
<1>2. PICK c \in todo :
        /\ todo' = todo \ {c}
        /\ IF \E old \in SameKey(main, c) : Dominates(old, c)
             THEN /\ update' = Rejected
                  /\ UNCHANGED contents
             ELSE /\ PutMain(c, backup)
                  /\ update' = [main |-> TRUE, backup |-> FALSE,
                                effective |-> Effective(c)]
  BY DEF ProtectPlan
<1>3. c \in Column /\ c \in promise /\ todo \subseteq promise
  BY <1>1 DEF TypeOK, LoopState
<1>4. /\ main' \subseteq Column /\ IsFiniteSet(main') /\ backup' \subseteq Column
      /\ Distinct(main') /\ Distinct(backup') /\ Disjoint(main', backup')
      /\ Keys(main') = Keys(main) \cup {Key(c)}
      /\ Cardinality(main') \in Nat /\ Cardinality(main) \in Nat
      /\ Cardinality(main') <= Cardinality(main) + 1
      /\ update' \in [main : BOOLEAN, backup : BOOLEAN, effective : BOOLEAN]
  <2>1. CASE \E old \in SameKey(main, c) : Dominates(old, c)
    <3>1. main' = main /\ backup' = backup /\ update' = Rejected
      BY <1>2, <2>1 DEF contents
    <3>2. Key(c) \in Keys(main)
      BY <2>1 DEF SameKey, Keys
    <3>3. Cardinality(main) \in Nat
      BY FS_CardinalityType DEF TypeOK
    <3> QED BY <3>1, <3>2, <3>3 DEF TypeOK, Rejected
  <2>2. CASE ~\E old \in SameKey(main, c) : Dominates(old, c)
    <3>1. PutMain(c, backup)
      BY <1>2, <2>2
    <3>2. update' \in [main : BOOLEAN, backup : BOOLEAN, effective : BOOLEAN]
      <4>1. Effective(c) \in BOOLEAN
        BY DEF Effective, Improved
      <4>2. update' = [main |-> TRUE, backup |-> FALSE, effective |-> Effective(c)]
        BY <1>2, <2>2
      <4> QED BY <4>1, <4>2
    <3> QED BY <1>3, <3>1, <3>2, PutMainKeeps DEF TypeOK
  <2> QED BY <2>1, <2>2
<1>5. Cardinality(promise \ todo') = Cardinality(promise \ todo) + 1
  <2>1. IsFiniteSet(promise \ todo)
    BY FewerColumns DEF TypeOK
  <2>2. promise \ todo' = (promise \ todo) \cup {c}
    BY <1>2, <1>3
  <2> QED BY <2>1, <2>2, FS_AddElement
<1>6. CapacityBound'
  <2>1. Cardinality(main) <= Capacity + Cardinality(promise \ todo)
    BY <1>1 DEF CapacityBound
  <2>2. Cardinality(promise \ todo) \in Nat
    BY FewerColumns DEF TypeOK
  <2> QED BY <1>1, <1>4, <1>5, <2>1, <2>2, CapacityAssumption DEF CapacityBound
<1>7. TypeOK'
  BY <1>1, <1>2, <1>4 DEF TypeOK, Keys
<1>8. (Distinct(main) /\ Distinct(backup) /\ Disjoint(main, backup))'
  BY <1>4 DEF Distinct, Disjoint
<1>9. ProtectedStay'
  BY <1>1, <1>2, <1>4 DEF ProtectedStay, Keys
<1>10. LoopState'
  BY <1>1, <1>2 DEF LoopState, Distinct
<1> QED BY <1>6, <1>7, <1>8, <1>9, <1>10

\* protect_partition evicts until the main pool fits again.
LEMMA DemoteExcessIInv == IInv /\ DemoteExcess => IInv'
<1> SUFFICES ASSUME IInv, DemoteExcess PROVE IInv'
  OBVIOUS
<1> USE DEF IInv
<1>1. /\ phase = "protect" /\ todo = {} /\ update' = Rejected
      /\ UNCHANGED <<protected, promise, duals, dualsValid, phase, todo>>
  BY DEF DemoteExcess
<1>2. PICK w \in Evictable(main) :
        main' = main \ {w} /\ backup' = AfterDemotion(backup, w)
  BY DEF DemoteExcess
<1>3. w \in main /\ Key(w) \notin protected
  BY DEF Evictable
<1>4. /\ Distinct(main') /\ Distinct(backup') /\ Disjoint(main', backup')
      /\ backup' \subseteq backup \cup {w}
      /\ Keys(main) \subseteq Keys(main') \cup {Key(w)}
  BY <1>2, <1>3, DemotionKeeps
<1>5. IsFiniteSet(main') /\ Cardinality(main') = Cardinality(main) - 1
  BY <1>2, <1>3, FS_RemoveElement DEF TypeOK
<1>6. TypeOK'
  BY <1>1, <1>2, <1>3, <1>4, <1>5 DEF TypeOK, Keys, Rejected
<1>7. (Distinct(main) /\ Distinct(backup) /\ Disjoint(main, backup))'
  BY <1>4 DEF Distinct, Disjoint
<1>8. CapacityBound'
  <2>1. Cardinality(main) \in Nat
    BY FS_CardinalityType DEF TypeOK
  <2>2. Cardinality(promise \ todo) \in Nat
    BY FewerColumns DEF TypeOK
  <2> QED BY <1>1, <1>5, <2>1, <2>2, CapacityAssumption DEF CapacityBound
<1>9. ProtectedStay'
  BY <1>1, <1>3, <1>4 DEF ProtectedStay
<1>10. LoopState'
  BY <1>1 DEF LoopState, Distinct
<1> QED BY <1>6, <1>7, <1>8, <1>9, <1>10

\* The steps that only start or end a loop, or install duals.
LEMMA ControlIInv ==
  ASSUME IInv,
         \/ \E d \in Duals : UpdateDuals(d)
         \/ \E S \in Partition : BeginProtect(S)
         \/ BeginReprice \/ EndReprice \/ EndProtect
  PROVE  IInv'
<1> USE DEF IInv
<1>1. main' = main /\ backup' = backup
  BY DEF UpdateDuals, BeginReprice, EndReprice, BeginProtect, EndProtect, contents
<1>2. (Distinct(main) /\ Distinct(backup) /\ Disjoint(main, backup))'
  BY <1>1 DEF Distinct, Disjoint
<1>3. CASE \E d \in Duals : UpdateDuals(d)
  BY <1>1, <1>2, <1>3
     DEF UpdateDuals, TypeOK, CapacityBound, ProtectedStay, LoopState, Keys, Distinct
<1>4. CASE BeginReprice
  BY <1>1, <1>2, <1>4
     DEF BeginReprice, TypeOK, CapacityBound, ProtectedStay, LoopState, Keys, Distinct
<1>5. CASE EndReprice
  BY <1>1, <1>2, <1>5
     DEF EndReprice, TypeOK, CapacityBound, ProtectedStay, LoopState, Keys, Distinct
<1>6. CASE \E S \in Partition : BeginProtect(S)
  <2>1. PICK S \in Partition :
          /\ Cardinality(S) <= Capacity
          /\ \A c, d \in S : Key(c) = Key(d) => c = d
          /\ protected' = Keys(S) /\ todo' = S /\ promise' = S
    BY <1>6 DEF BeginProtect, Fits
  <2>2. S \subseteq Column /\ IsFiniteSet(S)
    BY PartitionAssumption
  <2>3. /\ phase = "idle" /\ phase' = "protect"
        /\ UNCHANGED <<dualsValid, update>>
    BY <1>6 DEF BeginProtect
  <2>4. TypeOK'
    BY <1>1, <2>1, <2>2, <2>3 DEF TypeOK, Keys
  <2>5. promise' \ todo' = {} /\ Cardinality(promise' \ todo') = 0
    BY <2>1, FS_EmptySet
  <2>6. CapacityBound'
    BY <1>1, <2>3, <2>5, CapacityAssumption DEF CapacityBound
  <2>7. ProtectedStay'
    BY <2>1, <2>3 DEF ProtectedStay
  <2>8. LoopState'
    BY <2>1, <2>3 DEF LoopState, Distinct
  <2> QED BY <1>2, <2>4, <2>6, <2>7, <2>8
<1>7. CASE EndProtect
  BY <1>1, <1>2, <1>7
     DEF EndProtect, TypeOK, CapacityBound, ProtectedStay, LoopState, Keys, Distinct
<1> QED BY <1>3, <1>4, <1>5, <1>6, <1>7

\* Stuttering keeps the invariant.
LEMMA StutterIInv == IInv /\ UNCHANGED vars => IInv'
BY DEF vars, IInv, TypeOK, Distinct, Disjoint, CapacityBound, ProtectedStay,
       LoopState, Keys

\* The inductive invariant holds of every behaviour of the pool.
THEOREM Invariance == Spec => []IInv
<1>1. IInv /\ [Next]_vars => IInv'
  BY AdmitIInv, RepriceIInv, ProtectPlanIInv, DemoteExcessIInv, ControlIInv,
     StutterIInv DEF Next, LoopStep
<1> QED BY InitIInv, <1>1, PTL DEF Spec

-----------------------------------------------------------------------------
(* The properties of the pool.                                             *)

\* Every variable stays in its type, the work lists included.
THEOREM TypeCorrectness == Spec => []TypeOK
<1>1. IInv => TypeOK
  BY DEF IInv
<1> QED BY <1>1, Invariance, PTL

\* A customer sequence has at most one column in the two pools together.
THEOREM KeyUniqueness == Spec => []OneColumnPerKey
<1>1. IInv => OneColumnPerKey
  BY DEF IInv, OneColumnPerKey, Distinct, Disjoint
<1> QED BY <1>1, Invariance, PTL

\* The main pool exceeds its capacity only inside protect_partition.
THEOREM CapacityHolds == Spec => []CapacityBound
<1>1. IInv => CapacityBound
  BY DEF IInv
<1> QED BY <1>1, Invariance, PTL

\* The protected partition stays representable in the main pool.
THEOREM ProtectionHolds == Spec => []ProtectedStay
<1>1. IInv => ProtectedStay
  BY DEF IInv
<1> QED BY <1>1, Invariance, PTL

\* worst_main never runs out of columns to evict.
THEOREM EvictionNeverFails == Spec => []EvictionPossible
<1>1. ASSUME IInv, NEW c, NEW b, NeedsEviction(c, b), Distinct(main)
      PROVE  Evictable(main \cup {c}) # {}
  <2>1. SameKey(main, c) = {} /\ Cardinality(main) >= Capacity
    BY <1>1 DEF NeedsEviction, IsNewcomer
  <2>2. /\ IsFiniteSet(main) /\ IsFiniteSet(promise)
        /\ protected = Keys(promise) /\ Cardinality(promise) <= Capacity
    BY <1>1 DEF IInv, TypeOK, LoopState
  <2>3. /\ IsFiniteSet(main \cup {c})
        /\ Cardinality(main \cup {c}) = Cardinality(main) + 1
        /\ Cardinality(main) \in Nat /\ Cardinality(promise) \in Nat
    BY <2>1, <2>2, NewColumn, FS_CardinalityType
  <2>4. Distinct(main \cup {c})
    BY <1>1, <2>1 DEF Distinct, SameKey
  <2>5. Cardinality(promise) < Cardinality(main \cup {c})
    BY <2>1, <2>2, <2>3, CapacityAssumption
  <2> QED BY <2>2, <2>3, <2>4, <2>5, SomeEvictable
<1>2. ASSUME IInv, Cardinality(main) > Capacity
      PROVE  Evictable(main) # {}
  <2>1. /\ IsFiniteSet(main) /\ IsFiniteSet(promise) /\ Distinct(main)
        /\ protected = Keys(promise) /\ Cardinality(promise) <= Capacity
    BY <1>2 DEF IInv, TypeOK, LoopState
  <2>2. Cardinality(main) \in Nat /\ Cardinality(promise) \in Nat
    BY <2>1, FS_CardinalityType
  <2> QED BY <1>2, <2>1, <2>2, SomeEvictable, CapacityAssumption
<1>3. IInv => EvictionPossible
  BY <1>1, <1>2 DEF EvictionPossible, IInv
<1> QED BY <1>3, Invariance, PTL

-----------------------------------------------------------------------------
(* The price of a protected plan's stand-in.                               *)

WithinDrift(m, p) ==
  \/ m.cost <= p.cost + Tol
  \/ m.exact /\ m.cost <= p.cost + 2 * Tol

\* A column that replaces a stand-in is a stand-in within the same drift.
LEMMA ReplacementWithinDrift ==
  ASSUME NEW p \in Column, NEW old \in Column, NEW new \in Column,
         WithinDrift(old, p), ~Dominates(old, new)
  PROVE  WithinDrift(new, p)
<1>1. /\ p.cost \in Int /\ old.cost \in Int /\ new.cost \in Int /\ Tol \in Nat
  BY ColumnAssumption, ToleranceAssumption
<1>2. CASE new.cost < old.cost - Tol
  BY <1>1, <1>2 DEF WithinDrift
<1>3. CASE ~(new.cost < old.cost - Tol)
  <2>1. new.cost - old.cost \in -Tol..Tol
    BY <1>1, <1>3 DEF Dominates
  <2>2. ~old.exact /\ new.exact
    BY <2>1 DEF Dominates
  <2> QED BY <1>1, <2>1, <2>2 DEF WithinDrift
<1> QED BY <1>2, <1>3

\* A main column that makes protect_partition skip a plan is within drift.
LEMMA DominatingWithinDrift ==
  ASSUME NEW p \in Column, NEW old \in Column, Dominates(old, p)
  PROVE  WithinDrift(old, p)
<1>1. p.cost \in Int /\ old.cost \in Int /\ Tol \in Nat
  BY ColumnAssumption, ToleranceAssumption
<1> QED BY <1>1 DEF Dominates, WithinDrift

\* A column admit adds to the main pool has no dominating namesake there.
LEMMA AcceptAddsOnlyBetter ==
  ASSUME NEW c, NEW b, Accept(c, b)
  PROVE  \A m \in main' : \/ m \in main
                          \/ m = c /\ \E old \in SameKey(main, c) : ~Dominates(old, c)
                          \/ m = c /\ SameKey(main, c) = {}
<1>1. CASE RejectDominated(c, b) \/ DivertToBackup(c, b)
  BY <1>1 DEF RejectDominated, DivertToBackup
<1>2. CASE ReplaceMain(c, b)
  BY <1>2 DEF ReplaceMain, PutMain
<1>3. CASE FillMain(c, b)
  BY <1>3 DEF FillMain, IsNewcomer, PutMain
<1>4. CASE AdmitAndEvict(c, b)
  BY <1>4 DEF AdmitAndEvict, NeedsEviction, IsNewcomer
<1> QED BY <1>1, <1>2, <1>3, <1>4 DEF Accept

CheapStandIns == \A p \in promise \ todo : \A m \in main : Key(m) = Key(p) => WithinDrift(m, p)

\* admit keeps every stand-in within drift when no plan is still to be visited.
LEMMA AcceptKeepsCheap ==
  ASSUME IInv, NEW c \in Column, NEW b, Accept(c, b), phase # "protect",
         NEW p \in promise, \A m \in main : Key(m) = Key(p) => WithinDrift(m, p),
         NEW n \in main', Key(n) = Key(p)
  PROVE  WithinDrift(n, p)
<1>1. promise \subseteq Column /\ main \subseteq Column
  BY DEF IInv, TypeOK
<1>2. PICK old \in main : Key(old) = Key(p)
  BY DEF IInv, TypeOK, ProtectedStay, Keys
<1>3. WithinDrift(old, p)
  BY <1>2
<1>4. CASE n \in main
  BY <1>4
<1>5. CASE n = c /\ \E o \in SameKey(main, c) : ~Dominates(o, c)
  <2>1. PICK o \in SameKey(main, c) : ~Dominates(o, c)
    BY <1>5
  <2>2. o \in main /\ Key(o) = Key(p)
    BY <1>5, <2>1 DEF SameKey
  <2> QED BY <1>1, <1>5, <2>1, <2>2, ReplacementWithinDrift
<1>6. CASE n = c /\ SameKey(main, c) = {}
  BY <1>2, <1>6 DEF SameKey
<1> QED BY <1>4, <1>5, <1>6, AcceptAddsOnlyBetter

\* The column that stands for a protected plan never drifts further than two
\* tolerances above the plan's cost, however many columns are admitted.
THEOREM ProtectedPriceBound == Spec => []ProtectedStayCheap
<1>1. Init => CheapStandIns
  BY DEF Init, CheapStandIns
<1>2. IInv /\ CheapStandIns /\ [Next]_vars => CheapStandIns'
  <2> SUFFICES ASSUME IInv, CheapStandIns, [Next]_vars
               PROVE  CheapStandIns'
    OBVIOUS
  <2>1. CASE \E c \in Column : AdmitColumn(c)
    <3>1. PICK c \in Column : Accept(c, backup)
      BY <2>1 DEF AdmitColumn
    <3>2. phase = "idle" /\ todo = {} /\ promise' = promise /\ todo' = todo
      BY <2>1 DEF AdmitColumn, IInv, TypeOK
    <3> QED BY <3>1, <3>2, AcceptKeepsCheap DEF CheapStandIns
  <2>2. CASE RepriceCandidate
    <3>1. PICK c \in todo : Accept(c, backup \ SameKey(backup, c))
      BY <2>2 DEF RepriceCandidate
    <3>2. phase = "reprice" /\ promise' = promise /\ c \in Column
      BY <2>2 DEF RepriceCandidate, IInv, TypeOK
    <3>3. ASSUME NEW p \in promise, NEW m \in main, Key(m) = Key(p), p \in todo
          PROVE  FALSE
      BY <3>2, <3>3 DEF IInv, LoopState, Disjoint
    <3>4. \A p \in promise : \A m \in main : Key(m) = Key(p) => WithinDrift(m, p)
      BY <3>3 DEF CheapStandIns
    <3> QED BY <3>1, <3>2, <3>4, AcceptKeepsCheap DEF CheapStandIns
  <2>3. CASE ProtectPlan
    <3>1. PICK c \in todo :
            /\ todo' = todo \ {c}
            /\ \/ main' = main /\ \E old \in SameKey(main, c) : Dominates(old, c)
               \/ PutMain(c, backup)
      BY <2>3 DEF ProtectPlan, contents
    <3>2. /\ promise' = promise /\ phase = "protect" /\ todo \subseteq promise
          /\ promise \subseteq Column /\ main \subseteq Column
          /\ Distinct(promise) /\ Distinct(main)
      BY <2>3 DEF ProtectPlan, IInv, TypeOK, LoopState
    <3> SUFFICES ASSUME NEW p \in promise \ (todo \ {c}), NEW m \in main',
                        Key(m) = Key(p)
                 PROVE  WithinDrift(m, p)
      BY <3>1, <3>2 DEF CheapStandIns
    <3>3. CASE p # c
      <4>1. Key(p) # Key(c) /\ p \notin todo
        BY <3>2, <3>3 DEF Distinct
      <4>2. m \in main
        BY <3>1, <4>1 DEF PutMain
      <4> QED BY <4>1, <4>2 DEF CheapStandIns
    <3>4. CASE p = c /\ main' = main
                     /\ \E old \in SameKey(main, c) : Dominates(old, c)
      <4>1. Dominates(m, c)
        BY <3>2, <3>4 DEF SameKey, Distinct
      <4> QED BY <3>2, <3>4, <4>1, DominatingWithinDrift
    <3>5. CASE p = c /\ PutMain(c, backup)
      <4>1. m = c
        BY <3>5 DEF PutMain, SameKey
      <4>2. c.cost \in Int /\ Tol \in Nat
        BY <3>2, ColumnAssumption, ToleranceAssumption
      <4> QED BY <3>5, <4>1, <4>2 DEF WithinDrift
    <3> QED BY <3>1, <3>3, <3>4, <3>5
  <2>4. CASE DemoteExcess
    BY <2>4 DEF DemoteExcess, CheapStandIns
  <2>5. CASE BeginReprice
    BY <2>5 DEF BeginReprice, CheapStandIns, contents, IInv, TypeOK
  <2>6. CASE \E S \in Partition : BeginProtect(S)
    BY <2>6 DEF BeginProtect, CheapStandIns
  <2>7. CASE (\E d \in Duals : UpdateDuals(d)) \/ EndReprice \/ EndProtect \/ UNCHANGED vars
    BY <2>7 DEF UpdateDuals, EndReprice, EndProtect, vars, contents, CheapStandIns
  <2> QED BY <2>1, <2>2, <2>3, <2>4, <2>5, <2>6, <2>7 DEF Next, LoopStep
<1>3. IInv /\ CheapStandIns => ProtectedStayCheap
  <2> SUFFICES ASSUME IInv, CheapStandIns, NEW p \in promise \ todo,
                      NEW m \in main, Key(m) = Key(p)
               PROVE  m.cost <= p.cost + 2 * Tol
    BY DEF ProtectedStayCheap
  <2>1. WithinDrift(m, p)
    BY DEF CheapStandIns
  <2>2. m.cost \in Int /\ p.cost \in Int /\ Tol \in Nat
    BY ColumnAssumption, ToleranceAssumption DEF IInv, TypeOK
  <2> QED BY <2>1, <2>2 DEF WithinDrift
<1> QED BY <1>1, <1>2, <1>3, Invariance, PTL DEF Spec

-----------------------------------------------------------------------------
(* Admission and repricing forget nothing.                                 *)

\* What NothingForgotten asks of the column that comes after another.
Succeeds(new, old) ==
  /\ Key(new) = Key(old)
  /\ \/ new = old
     \/ new.cost < old.cost - Tol
     \/ new.cost <= old.cost + Tol /\ new.exact /\ ~old.exact

\* A column that is not dominated by its namesake succeeds it, and so does one
\* that upgrades it.
LEMMA SuccessorByCost ==
  ASSUME NEW old \in Column, NEW new \in Column, Key(new) = Key(old),
         ~Dominates(old, new) \/ Upgrades(new, old)
  PROVE  Succeeds(new, old)
<1>1. old.cost \in Int /\ new.cost \in Int /\ Tol \in Nat
  BY ColumnAssumption, ToleranceAssumption
<1>2. CASE new.cost < old.cost - Tol
  BY <1>2 DEF Succeeds
<1>3. CASE ~(new.cost < old.cost - Tol)
  <2>1. new.cost - old.cost \in -Tol..Tol /\ new.exact /\ ~old.exact
    BY <1>1, <1>3 DEF Dominates, Upgrades
  <2> QED BY <1>1, <2>1 DEF Succeeds
<1> QED BY <1>2, <1>3

\* A column offered to a backup pool without a namesake is taken, and the
\* others stay.
LEMMA DemotionRemembers ==
  ASSUME KeepEvicted, NEW b, NEW w, SameKey(b, w) = {}
  PROVE  w \in AfterDemotion(b, w) /\ b \subseteq AfterDemotion(b, w)
BY DEF AfterDemotion, WithBackup

\* admit, started from the backup pool b, leaves a successor of every column
\* of the main pool and of b, and of its own column if that has no namesake.
LEMMA AcceptRemembers ==
  ASSUME IInv, KeepEvicted, NEW c \in Column, NEW b \in SUBSET backup,
         Accept(c, b),
         NEW old \in main \cup b \cup {c},
         old \in main \cup b \/ (SameKey(main, c) = {} /\ SameKey(b, c) = {})
  PROVE  \E new \in main' \cup backup' : Succeeds(new, old)
<1>1. /\ main \subseteq Column /\ backup \subseteq Column
      /\ Distinct(main) /\ Disjoint(main, b) /\ old \in Column
  BY DEF IInv, TypeOK, Disjoint
<1>2. ASSUME old \in main' \cup backup'
      PROVE  \E new \in main' \cup backup' : Succeeds(new, old)
  BY <1>2 DEF Succeeds
<1>3. ASSUME c \in main' \cup backup', old \in SameKey(main, c) \cup SameKey(b, c),
             ~Dominates(old, c) \/ Upgrades(c, old)
      PROVE  \E new \in main' \cup backup' : Succeeds(new, old)
  <2>1. Key(c) = Key(old)
    BY <1>3 DEF SameKey
  <2> QED BY <1>1, <1>3, <2>1, SuccessorByCost
<1>4. CASE RejectDominated(c, b)
  <2>1. main' = main /\ backup' = b
    BY <1>4 DEF RejectDominated
  <2>2. old \in main \cup b
    BY <1>4 DEF RejectDominated
  <2> QED BY <1>2, <2>1, <2>2
<1>5. CASE ReplaceMain(c, b)
  <2>1. PICK m \in SameKey(main, c) : ~Dominates(m, c)
    BY <1>5 DEF ReplaceMain
  <2>2. main' = (main \ SameKey(main, c)) \cup {c} /\ backup' = b \ SameKey(b, c)
    BY <1>5 DEF ReplaceMain, PutMain
  <2>3. SameKey(b, c) = {} /\ SameKey(main, c) = {m}
    BY <1>1, <2>1 DEF SameKey, Disjoint, Distinct
  <2> QED BY <1>2, <1>3, <2>1, <2>2, <2>3
<1>6. CASE FillMain(c, b)
  <2>1. /\ SameKey(main, c) = {} /\ \A o \in SameKey(b, c) : ~Dominates(o, c)
        /\ main' = (main \ SameKey(main, c)) \cup {c} /\ backup' = b \ SameKey(b, c)
    BY <1>6 DEF FillMain, IsNewcomer, PutMain
  <2> QED BY <1>2, <1>3, <2>1
<1>7. CASE DivertToBackup(c, b)
  <2>1. main' = main /\ backup' = WithBackup(b, c)
    BY <1>7 DEF DivertToBackup
  <2>2. CASE \E o \in SameKey(b, c) : ~Upgrades(c, o)
    <3>1. backup' = b /\ old \in main \cup b
      BY <2>1, <2>2 DEF WithBackup
    <3> QED BY <1>2, <2>1, <3>1
  <2>3. CASE ~\E o \in SameKey(b, c) : ~Upgrades(c, o)
    <3>1. backup' = (b \ SameKey(b, c)) \cup {c}
      BY <2>1, <2>3 DEF WithBackup
    <3> QED BY <1>2, <1>3, <2>1, <2>3, <3>1
  <2> QED BY <2>2, <2>3
<1>8. CASE AdmitAndEvict(c, b)
  <2> DEFINE bb == b \ SameKey(b, c)
  <2>1. SameKey(main, c) = {} /\ \A o \in SameKey(b, c) : ~Dominates(o, c)
    BY <1>8 DEF AdmitAndEvict, NeedsEviction, IsNewcomer
  <2>2. PICK w \in main \cup {c} :
          main' = (main \cup {c}) \ {w} /\ backup' = AfterDemotion(bb, w)
    BY <1>8 DEF AdmitAndEvict, Evictable
  <2>3. SameKey(bb, w) = {}
    BY <1>1, <2>2 DEF SameKey, Disjoint
  <2>4. w \in backup' /\ bb \subseteq backup'
    <3> HIDE DEF bb
    <3> QED BY <2>2, <2>3, DemotionRemembers
  <2>5. main \cup {c} \subseteq main' \cup backup'
    BY <2>2, <2>4
  <2> QED BY <1>2, <1>3, <2>1, <2>4, <2>5
<1> QED BY <1>4, <1>5, <1>6, <1>7, <1>8 DEF Accept

\* With keep_evicted_in_backup, admission and repricing never lose the route
\* of a key: a column of the key remains, no dearer than the old one unless it
\* is exact and within the tolerance.
THEOREM NothingIsForgotten == Spec => NothingForgotten
<1> DEFINE Step == phase # "protect" /\ KeepEvicted =>
                     \A old \in main \cup backup :
                       \E new \in main' \cup backup' : Succeeds(new, old)
<1>1. IInv /\ [Next]_vars => [Step]_contents
  <2> SUFFICES ASSUME IInv, Next, phase # "protect", KeepEvicted,
                      contents' # contents,
                      NEW old \in main \cup backup
               PROVE  \E new \in main' \cup backup' : Succeeds(new, old)
    BY DEF vars, contents
  <2>1. CASE \E c \in Column : AdmitColumn(c)
    <3>1. PICK c \in Column : Accept(c, backup)
      BY <2>1 DEF AdmitColumn
    <3> QED BY <3>1, AcceptRemembers
  <2>2. CASE RepriceCandidate
    <3>1. PICK c \in todo : Accept(c, backup \ SameKey(backup, c))
      BY <2>2 DEF RepriceCandidate
    <3> DEFINE b == backup \ SameKey(backup, c)
    <3>2. c \in backup /\ c \in Column
      BY <2>2 DEF RepriceCandidate, IInv, LoopState, TypeOK
    <3>3. /\ SameKey(main, c) = {} /\ SameKey(b, c) = {}
          /\ backup \subseteq b \cup {c}
      BY <3>2 DEF SameKey, IInv, Disjoint, Distinct
    <3>4. b \in SUBSET backup /\ old \in main \cup b \cup {c}
      BY <3>3
    <3> HIDE DEF b
    <3>5. Accept(c, b)
      BY <3>1 DEF b
    <3> QED BY <3>2, <3>3, <3>4, <3>5, AcceptRemembers
  <2>3. CASE \/ \E d \in Duals : UpdateDuals(d)
             \/ \E S \in Partition : BeginProtect(S)
             \/ BeginReprice \/ EndReprice
    BY <2>3 DEF UpdateDuals, BeginProtect, BeginReprice, EndReprice, contents
  <2>4. CASE ProtectPlan \/ DemoteExcess \/ EndProtect
    BY <2>4 DEF ProtectPlan, DemoteExcess, EndProtect
  <2> QED BY <2>1, <2>2, <2>3, <2>4 DEF Next, LoopStep
<1>2. [Step]_contents =>
        [phase # "protect" /\ KeepEvicted =>
           \A old \in main \cup backup :
             \E new \in main' \cup backup' :
               /\ Key(new) = Key(old)
               /\ \/ new = old
                  \/ new.cost < old.cost - Tol
                  \/ new.cost <= old.cost + Tol /\ new.exact /\ ~old.exact]_contents
  BY DEF Succeeds
<1> QED BY <1>1, <1>2, Invariance, PTL DEF Spec, NothingForgotten

-----------------------------------------------------------------------------
(* A full main pool stays full.                                            *)

\* put_main replaces at most the one namesake of its column.
LEMMA PutMainNoSmaller ==
  ASSUME NEW c, NEW b, PutMain(c, b), IsFiniteSet(main), Distinct(main)
  PROVE  Cardinality(main') >= Cardinality(main)
<1>1. main' = (main \ SameKey(main, c)) \cup {c}
  BY DEF PutMain
<1>2. CASE SameKey(main, c) = {}
  <2>1. main' = main \cup {c}
    BY <1>1, <1>2
  <2> QED BY <1>2, <2>1, NewColumn
<1>3. ASSUME NEW m \in SameKey(main, c)
      PROVE  Cardinality(main') >= Cardinality(main)
  <2>1. SameKey(main, c) = {m} /\ m \in main
    BY <1>3 DEF SameKey, Distinct
  <2>2. IsFiniteSet(main \ {m}) /\ Cardinality(main \ {m}) = Cardinality(main) - 1
    BY <2>1, FS_RemoveElement
  <2>3. main' = (main \ {m}) \cup {c} /\ c \notin main \ {m}
    BY <1>1, <2>1 DEF SameKey
  <2>4. Cardinality(main') = Cardinality(main \ {m}) + 1
    BY <2>2, <2>3, FS_AddElement
  <2> QED BY <2>2, <2>4, FS_CardinalityType
<1> QED BY <1>2, <1>3

\* admit never leaves the main pool smaller than it was.
LEMMA AcceptNoSmaller ==
  ASSUME NEW c, NEW b, Accept(c, b), IsFiniteSet(main), Distinct(main)
  PROVE  Cardinality(main') >= Cardinality(main)
<1>1. Cardinality(main) \in Nat
  BY FS_CardinalityType
<1>2. CASE RejectDominated(c, b) \/ DivertToBackup(c, b)
  BY <1>1, <1>2 DEF RejectDominated, DivertToBackup
<1>3. CASE ReplaceMain(c, b) \/ FillMain(c, b)
  BY <1>3, PutMainNoSmaller DEF ReplaceMain, FillMain
<1>4. CASE AdmitAndEvict(c, b)
  <2>1. SameKey(main, c) = {}
    BY <1>4 DEF AdmitAndEvict, NeedsEviction, IsNewcomer
  <2>2. PICK w \in main \cup {c} : main' = (main \cup {c}) \ {w}
    BY <1>4 DEF AdmitAndEvict, Evictable
  <2>3. /\ IsFiniteSet(main \cup {c})
        /\ Cardinality(main \cup {c}) = Cardinality(main) + 1
    BY <2>1, NewColumn
  <2>4. Cardinality((main \cup {c}) \ {w}) = Cardinality(main \cup {c}) - 1
    BY <2>2, <2>3, FS_RemoveElement
  <2> QED BY <1>1, <2>2, <2>3, <2>4
<1> QED BY <1>2, <1>3, <1>4 DEF Accept

\* Once full, the main pool is full for good: the adaptive trigger may rely on
\* it, as the model of the set-partitioning schedule does.
THEOREM FullForGood == Spec => StaysFull
<1>1. ASSUME IInv, [Next]_vars, Cardinality(main) >= Capacity
      PROVE  Cardinality(main') >= Capacity
  <2>1. /\ IsFiniteSet(main) /\ Distinct(main)
        /\ Cardinality(main) \in Nat /\ Capacity \in Nat
    BY <1>1, FS_CardinalityType, CapacityAssumption DEF IInv, TypeOK
  <2>2. ASSUME Cardinality(main') >= Cardinality(main), IsFiniteSet(main')
        PROVE  Cardinality(main') >= Capacity
    BY <1>1, <2>1, <2>2, FS_CardinalityType
  <2>3. IsFiniteSet(main')
    <3>1. IInv'
      BY <1>1, AdmitIInv, RepriceIInv, ProtectPlanIInv, DemoteExcessIInv,
         ControlIInv, StutterIInv DEF Next, LoopStep
    <3> QED BY <3>1 DEF IInv, TypeOK
  <2>4. CASE \/ \E c \in Column : AdmitColumn(c)
             \/ RepriceCandidate
    BY <2>1, <2>2, <2>3, <2>4, AcceptNoSmaller DEF AdmitColumn, RepriceCandidate
  <2>5. CASE ProtectPlan
    BY <1>1, <2>1, <2>2, <2>3, <2>5, PutMainNoSmaller DEF ProtectPlan, contents
  <2>6. CASE DemoteExcess
    <3>1. PICK w \in main : main' = main \ {w}
      BY <2>6 DEF DemoteExcess, Evictable
    <3>2. Cardinality(main') = Cardinality(main) - 1 /\ Cardinality(main) > Capacity
      BY <2>1, <2>6, <3>1, FS_RemoveElement DEF DemoteExcess
    <3> QED BY <2>1, <3>2
  <2>7. CASE \/ \E d \in Duals : UpdateDuals(d)
             \/ \E S \in Partition : BeginProtect(S)
             \/ BeginReprice \/ EndReprice \/ EndProtect \/ UNCHANGED vars
    BY <1>1, <2>7
       DEF UpdateDuals, BeginProtect, BeginReprice, EndReprice, EndProtect, vars, contents
  <2> QED BY <1>1, <2>4, <2>5, <2>6, <2>7 DEF Next, LoopStep
<1>2. IInv /\ [Next]_vars =>
        [Cardinality(main) >= Capacity => Cardinality(main') >= Capacity]_main
  BY <1>1
<1> QED BY <1>2, Invariance, PTL DEF Spec, StaysFull

-----------------------------------------------------------------------------
(* The coverage index is exact: it is the bag of the <<customer set, cost>> *)
(* of the main pool's columns after every step, of the loops too.           *)

EntryOf(c) == <<Cover(c), c.cost>>

Members(M, e) == {m \in M : EntryOf(m) = e}

\* The index of a set of columns.
IsIndexOf(index, M) ==
  /\ IsFiniteSet(M)
  /\ IsABag(index)
  /\ \A e : Copies(index, e) = Cardinality(Members(M, e))
-----------------------------------------------------------------------------
(* One copy more, one copy less.                                           *)

LEMMA AddCopy ==
  ASSUME NEW B, IsABag(B), NEW x
  PROVE  /\ IsABag(B (+) SetToBag({x}))
         /\ \A e : Copies(B (+) SetToBag({x}), e) = Copies(B, e) + (IF e = x THEN 1 ELSE 0)
<1> DEFINE S == B (+) SetToBag({x})
<1>1. \A e \in DOMAIN B : B[e] \in Nat /\ B[e] > 0
  BY DEF IsABag
<1>2. S = [e \in DOMAIN B \cup {x} |-> (IF e \in DOMAIN B THEN B[e] ELSE 0)
                                         + (IF e \in {x} THEN 1 ELSE 0)]
  BY DEF SetToBag, (+)
<1>3. IsABag(S)
  <2>1. \A e \in DOMAIN S : S[e] \in {n \in Nat : n > 0}
    BY <1>1, <1>2
  <2>2. S = [e \in DOMAIN S |-> S[e]]
    BY <1>2
  <2> HIDE DEF S
  <2> QED BY <2>1, <2>2 DEF IsABag
<1>4. ASSUME NEW e PROVE Copies(S, e) = Copies(B, e) + (IF e = x THEN 1 ELSE 0)
  <2> HIDE DEF S
  <2>1. DOMAIN S = DOMAIN B \cup {x}
    BY <1>2
  <2>2. CASE e \in DOMAIN B \/ e = x
    BY <1>1, <1>2, <2>1, <2>2 DEF Copies, BagIn, BagToSet
  <2>3. CASE e \notin DOMAIN B /\ e # x
    BY <2>1, <2>3 DEF Copies, BagIn, BagToSet
  <2> QED BY <2>2, <2>3
<1> QED BY <1>3, <1>4

\* Taking one copy of an entry out of a bag takes out that copy only.
LEMMA RemoveCopy ==
  ASSUME NEW B, IsABag(B), NEW x \in DOMAIN B
  PROVE  /\ IsABag(B (-) SetToBag({x}))
         /\ \A e : Copies(B (-) SetToBag({x}), e) = Copies(B, e) - (IF e = x THEN 1 ELSE 0)
<1> DEFINE D == B (-) SetToBag({x})
           L == [e \in DOMAIN B |-> IF e \in {x} THEN B[e] - 1 ELSE B[e]]
<1>1. \A e \in DOMAIN B : B[e] \in Nat /\ B[e] > 0
  BY DEF IsABag
<1>2. D = [e \in {d \in DOMAIN L : L[d] > 0} |-> L[e]]
  BY DEF SetToBag, (-)
<1>3. DOMAIN L = DOMAIN B /\ \A e \in DOMAIN B : L[e] = IF e = x THEN B[e] - 1 ELSE B[e]
  OBVIOUS
<1>4. \A e \in DOMAIN B : L[e] \in Nat
  BY <1>1, <1>3
<1> HIDE DEF D, L
<1>5. DOMAIN D = {d \in DOMAIN B : L[d] > 0} /\ \A e \in DOMAIN D : D[e] = L[e]
  BY <1>2, <1>3
<1>6. IsABag(D)
  <2>1. \A e \in DOMAIN D : D[e] \in {n \in Nat : n > 0}
    BY <1>4, <1>5
  <2>2. D = [e \in DOMAIN D |-> D[e]]
    BY <1>2, <1>5
  <2> QED BY <2>1, <2>2 DEF IsABag
<1>7. ASSUME NEW e PROVE Copies(D, e) = Copies(B, e) - (IF e = x THEN 1 ELSE 0)
  <2>1. CASE e \in DOMAIN B /\ L[e] > 0
    BY <1>1, <1>3, <1>5, <2>1 DEF Copies, BagIn, BagToSet
  <2>2. CASE e \in DOMAIN B /\ ~(L[e] > 0)
    <3>1. L[e] = 0 /\ e \notin DOMAIN D
      BY <1>4, <1>5, <2>2
    <3>2. e = x /\ B[e] = 1
      BY <1>1, <1>3, <2>2, <3>1
    <3> QED BY <2>2, <3>1, <3>2 DEF Copies, BagIn, BagToSet
  <2>3. CASE e \notin DOMAIN B
    BY <1>5, <2>3 DEF Copies, BagIn, BagToSet
  <2> QED BY <2>1, <2>2, <2>3
<1> QED BY <1>6, <1>7 DEF D

\* Nothing added to a bag, or taken from it, leaves it as it is.
LEMMA NoCopy ==
  ASSUME NEW B, IsABag(B)
  PROVE  B (+) EmptyBag = B /\ B (-) EmptyBag = B
<1>1. B = [e \in DOMAIN B |-> B[e]] /\ \A e \in DOMAIN B : B[e] \in Nat /\ B[e] > 0
  BY DEF IsABag
<1>2. B (+) EmptyBag = [e \in DOMAIN B |-> B[e] + 0]
  <2>1. EmptyBag = [e \in {} |-> 1]
    BY DEF EmptyBag, SetToBag
  <2>2. DOMAIN EmptyBag = {}
    BY <2>1
  <2> QED BY <2>2 DEF (+)
<1>3. B (-) EmptyBag = [e \in {d \in DOMAIN B : B[d] > 0} |-> B[e]]
  BY DEF EmptyBag, SetToBag, (-)
<1> QED BY <1>1, <1>2, <1>3
-----------------------------------------------------------------------------
(* One column more, one column less.                                       *)

LEMMA EmptyIsIndexed == IsIndexOf(EmptyBag, {})
<1>1. DOMAIN EmptyBag = {} /\ IsABag(EmptyBag)
  BY DEF EmptyBag, SetToBag, IsABag
<1>2. ASSUME NEW e PROVE Copies(EmptyBag, e) = Cardinality(Members({}, e))
  <2>1. Copies(EmptyBag, e) = 0
    BY <1>1 DEF Copies, BagIn, BagToSet
  <2>2. Members({}, e) = {}
    BY DEF Members
  <2> QED BY <2>1, <2>2, FS_EmptySet
<1> QED BY <1>1, <1>2, FS_EmptySet DEF IsIndexOf

\* The index follows a column that enters the main pool.
LEMMA IndexAdds ==
  ASSUME NEW B, NEW M, IsIndexOf(B, M), NEW c, c \notin M
  PROVE  IsIndexOf(B (+) CoverageEntry(c), M \cup {c})
<1> DEFINE S == B (+) CoverageEntry(c)
<1>1. /\ IsABag(S)
      /\ \A e : Copies(S, e) = Copies(B, e) + (IF e = EntryOf(c) THEN 1 ELSE 0)
  BY AddCopy DEF IsIndexOf, CoverageEntry, EntryOf
<1>2. ASSUME NEW e PROVE Copies(S, e) = Cardinality(Members(M \cup {c}, e))
  <2>1. IsFiniteSet(Members(M, e)) /\ Cardinality(Members(M, e)) \in Nat
    BY FS_Subset, FS_CardinalityType DEF Members, IsIndexOf
  <2>2. Copies(B, e) = Cardinality(Members(M, e))
    BY DEF IsIndexOf
  <2>3. CASE e = EntryOf(c)
    <3>1. Members(M \cup {c}, e) = Members(M, e) \cup {c} /\ c \notin Members(M, e)
      BY <2>3 DEF Members
    <3>2. Cardinality(Members(M \cup {c}, e)) = Cardinality(Members(M, e)) + 1
      BY <2>1, <3>1, FS_AddElement
    <3> QED BY <1>1, <2>2, <2>3, <3>2
  <2>4. CASE e # EntryOf(c)
    <3>1. Members(M \cup {c}, e) = Members(M, e)
      BY <2>4 DEF Members
    <3> QED BY <1>1, <2>1, <2>2, <2>4, <3>1
  <2> QED BY <2>3, <2>4
<1>3. IsFiniteSet(M \cup {c})
  BY FS_AddElement DEF IsIndexOf
<1> QED BY <1>1, <1>2, <1>3 DEF IsIndexOf

\* The index follows a column that leaves the main pool.
LEMMA IndexRemoves ==
  ASSUME NEW B, NEW M, IsIndexOf(B, M), NEW c \in M
  PROVE  IsIndexOf(B (-) CoverageEntry(c), M \ {c})
<1> DEFINE D == B (-) CoverageEntry(c)
<1>1. EntryOf(c) \in DOMAIN B
  <2> DEFINE mine == Members(M, EntryOf(c))
  <2>1. IsFiniteSet(mine) /\ c \in mine
    BY FS_Subset DEF Members, IsIndexOf
  <2>2. Cardinality(mine) # 0
    BY <2>1, FS_EmptySet
  <2>3. Copies(B, EntryOf(c)) = Cardinality(mine)
    BY DEF IsIndexOf
  <2> HIDE DEF mine
  <2> QED BY <2>2, <2>3 DEF Copies, BagIn, BagToSet
<1>2. /\ IsABag(D)
      /\ \A e : Copies(D, e) = Copies(B, e) - (IF e = EntryOf(c) THEN 1 ELSE 0)
  BY <1>1, RemoveCopy DEF IsIndexOf, CoverageEntry, EntryOf
<1>3. ASSUME NEW e PROVE Copies(D, e) = Cardinality(Members(M \ {c}, e))
  <2>1. IsFiniteSet(Members(M, e)) /\ Cardinality(Members(M, e)) \in Nat
    BY FS_Subset, FS_CardinalityType DEF Members, IsIndexOf
  <2>2. Copies(B, e) = Cardinality(Members(M, e))
    BY DEF IsIndexOf
  <2>3. CASE e = EntryOf(c)
    <3>1. Members(M \ {c}, e) = Members(M, e) \ {c} /\ c \in Members(M, e)
      BY <2>3 DEF Members
    <3>2. Cardinality(Members(M \ {c}, e)) = Cardinality(Members(M, e)) - 1
      BY <2>1, <3>1, FS_RemoveElement
    <3> QED BY <1>2, <2>2, <2>3, <3>2
  <2>4. CASE e # EntryOf(c)
    <3>1. Members(M \ {c}, e) = Members(M, e)
      BY <2>4 DEF Members
    <3> QED BY <1>2, <2>1, <2>2, <2>4, <3>1
  <2> QED BY <2>3, <2>4
<1>4. IsFiniteSet(M \ {c})
  BY FS_RemoveElement DEF IsIndexOf
<1> QED BY <1>2, <1>3, <1>4 DEF IsIndexOf
-----------------------------------------------------------------------------
(* The functions of the pool.                                              *)

\* put_main takes the replaced column's cost out and its own in.
LEMMA PutMainIndexes ==
  ASSUME NEW c, NEW b, PutMain(c, b), Distinct(main), IsIndexOf(coverageCosts, main)
  PROVE  IsIndexOf(coverageCosts', main')
<1> DEFINE same == SameKey(main, c)
           rest == main \ same
<1>1. /\ main' = rest \cup {c}
      /\ coverageCosts' = (coverageCosts (-) Entries(same)) (+) CoverageEntry(c)
  BY DEF PutMain, IndexAfter
<1>2. c \notin rest
  BY DEF SameKey
<1>3. IsIndexOf(coverageCosts (-) Entries(same), rest)
  <2>1. CASE same = {}
    <3>1. Entries(same) = EmptyBag /\ rest = main
      BY <2>1 DEF Entries
    <3> QED BY <3>1, NoCopy DEF IsIndexOf
  <2>2. CASE same # {}
    <3> DEFINE old == CHOOSE m \in same : TRUE
    <3>1. old \in same
      BY <2>2
    <3>2. same = {old} /\ old \in main
      BY <3>1 DEF SameKey, Distinct
    <3>3. Entries(same) = CoverageEntry(old)
      BY <2>2 DEF Entries
    <3>4. rest = main \ {old}
      BY <3>2
    <3> HIDE DEF old
    <3> QED BY <3>2, <3>3, <3>4, IndexRemoves
  <2> QED BY <2>1, <2>2
<1> HIDE DEF same, rest
<1> QED BY <1>1, <1>2, <1>3, IndexAdds

\* However a column is accepted, the index follows the main pool.
LEMMA AcceptIndexes ==
  ASSUME NEW c, NEW b, Accept(c, b), Distinct(main), IsIndexOf(coverageCosts, main)
  PROVE  IsIndexOf(coverageCosts', main')
<1>1. CASE RejectDominated(c, b) \/ DivertToBackup(c, b)
  BY <1>1 DEF RejectDominated, DivertToBackup
<1>2. CASE ReplaceMain(c, b) \/ FillMain(c, b)
  BY <1>2, PutMainIndexes DEF ReplaceMain, FillMain
<1>3. CASE AdmitAndEvict(c, b)
  <2>1. PICK w \in main \cup {c} :
          /\ main' = (main \cup {c}) \ {w}
          /\ coverageCosts' = IndexAfter(CoverageEntry(c), EmptyBag) (-) CoverageEntry(w)
    BY <1>3 DEF AdmitAndEvict, Evictable
  <2>2. c \notin main
    BY <1>3 DEF AdmitAndEvict, NeedsEviction, IsNewcomer, SameKey
  <2>3. IndexAfter(CoverageEntry(c), EmptyBag) = coverageCosts (+) CoverageEntry(c)
    BY NoCopy DEF IndexAfter, IsIndexOf
  <2>4. IsIndexOf(coverageCosts (+) CoverageEntry(c), main \cup {c})
    BY <2>2, IndexAdds
  <2> QED BY <2>1, <2>3, <2>4, IndexRemoves
<1> QED BY <1>1, <1>2, <1>3 DEF Accept

\* Every step, of the loops too, keeps the index that of the main pool.
LEMMA StepIndexes ==
  ASSUME IInv, [Next]_vars, IsIndexOf(coverageCosts, main)
  PROVE  IsIndexOf(coverageCosts', main')
<1>1. Distinct(main)
  BY DEF IInv
<1>2. CASE \E c \in Column : AdmitColumn(c)
  BY <1>1, <1>2, AcceptIndexes DEF AdmitColumn
<1>3. CASE RepriceCandidate
  BY <1>1, <1>3, AcceptIndexes DEF RepriceCandidate
<1>4. CASE ProtectPlan
  <2>1. PICK c : PutMain(c, backup) \/ UNCHANGED contents
    BY <1>4 DEF ProtectPlan
  <2> QED BY <1>1, <2>1, PutMainIndexes DEF contents
<1>5. CASE DemoteExcess
  <2>1. PICK w \in main : /\ main' = main \ {w}
                          /\ coverageCosts' = IndexAfter(EmptyBag, CoverageEntry(w))
    BY <1>5 DEF DemoteExcess, Evictable
  <2>2. IsIndexOf(coverageCosts (-) CoverageEntry(w), main \ {w})
    BY IndexRemoves
  <2> QED BY <2>1, <2>2, NoCopy DEF IndexAfter, IsIndexOf
<1>6. CASE UNCHANGED contents
  BY <1>6 DEF contents
<1>7. UNCHANGED vars => UNCHANGED contents
  BY DEF vars, contents
<1> QED BY <1>2, <1>3, <1>4, <1>5, <1>6, <1>7
  DEF Next, LoopStep, UpdateDuals, BeginReprice, EndReprice, BeginProtect, EndProtect
-----------------------------------------------------------------------------
\* coverage_costs_ is the bag of the main pool's costs per customer set, so
\* index_main_erase finds what it erases.
THEOREM IndexIsExact == Spec => []IndexExact
<1>1. Init => IsIndexOf(coverageCosts, main)
  BY EmptyIsIndexed DEF Init
<1>2. IInv /\ IsIndexOf(coverageCosts, main) /\ [Next]_vars => IsIndexOf(coverageCosts, main)'
  <2>1. IInv /\ IsIndexOf(coverageCosts, main) /\ [Next]_vars => IsIndexOf(coverageCosts', main')
    BY StepIndexes
  <2> QED BY <2>1 DEF IsIndexOf, Members, Copies, BagIn, BagToSet
<1>3. IsIndexOf(coverageCosts, main) => IndexExact
  <2> SUFFICES ASSUME IsIndexOf(coverageCosts, main), NEW cover, NEW cost
               PROVE  Copies(coverageCosts, <<cover, cost>>) =
                        Cardinality({m \in main : Cover(m) = cover /\ m.cost = cost})
    BY DEF IndexExact
  <2>1. Members(main, <<cover, cost>>) = {m \in main : Cover(m) = cover /\ m.cost = cost}
    BY DEF Members, EntryOf
  <2> QED BY <2>1 DEF IsIndexOf
<1> QED BY Invariance, <1>1, <1>2, <1>3, PTL DEF Spec

-----------------------------------------------------------------------------
(* The order of columns, and what eviction and repricing leave behind.     *)

\* The duals of every customer a column serves are numbers.
DualsTyped == \A c \in Column : \A i \in Cover(c) : duals[i] \in Int

\* The duals are integers, one for each customer.
LEMMA DualsStayTyped == Spec => []DualsTyped
<1>1. Init => DualsTyped
  BY DEF Init, DualsTyped
<1>2. DualsTyped /\ [Next]_vars => DualsTyped'
  <2> SUFFICES ASSUME DualsTyped, [Next]_vars
               PROVE  DualsTyped'
    OBVIOUS
  <2>1. CASE \E d \in Duals : UpdateDuals(d)
    BY <2>1, DualsAssumption DEF UpdateDuals, DualsTyped
  <2>2. CASE duals' = duals
    BY <2>2 DEF DualsTyped
  <2> QED BY <2>1, <2>2
       DEF Next, LoopStep, AdmitColumn, BeginReprice, RepriceCandidate, EndReprice,
           BeginProtect, ProtectPlan, DemoteExcess, EndProtect, vars
<1> QED BY <1>1, <1>2, PTL DEF Spec

\* The reduced cost of a column is its cost less the sum of its duals.
LEMMA ReducedCostIsTotal == \A c : ReducedCost(c) = c.cost - Total(duals, Cover(c))
BY DEF ReducedCost, Total

\* The reduced cost of a column is an integer.
LEMMA ReducedCostType ==
  ASSUME DualsTyped
  PROVE  \A c \in Column : ReducedCost(c) \in Int
<1> SUFFICES ASSUME NEW c \in Column
             PROVE  ReducedCost(c) \in Int
  OBVIOUS
<1>1. IsFiniteSet(Cover(c)) /\ c.cost \in Int
  BY ColumnAssumption
<1>2. Total(duals, Cover(c)) \in Int
  BY <1>1, TotalType DEF DualsTyped
<1> QED BY <1>1, <1>2, ReducedCostIsTotal

\* A step that leaves the duals alone leaves every reduced cost alone.
LEMMA ReducedCostStays ==
  ASSUME duals' = duals
  PROVE  \A c : ReducedCost(c)' = ReducedCost(c)
<1>1. (\A c : ReducedCost(c) = c.cost - Total(duals, Cover(c)))'
  BY ReducedCostIsTotal, PTL
<1> QED BY <1>1, ReducedCostIsTotal

\* Of two columns with different keys one ranks before the other, and ranks
\* can be chained.
LEMMA RankIsTotal ==
  ASSUME DualsTyped, NEW a \in Column, NEW b \in Column, Key(a) # Key(b),
         ~RankLess(a, b)
  PROVE  RankLess(b, a)
<1>1. /\ ReducedCost(a) \in Int /\ ReducedCost(b) \in Int
      /\ a.cost \in Int /\ b.cost \in Int /\ a.rank \in Nat /\ b.rank \in Nat
  BY ReducedCostType, ColumnAssumption
<1>2. a.rank # b.rank
  BY RankAssumption DEF Key, Cover
<1> QED BY <1>1, <1>2 DEF RankLess

\* The order of worst_main is transitive: reduced cost, then cost, then key.
LEMMA RankIsTransitive ==
  ASSUME DualsTyped, NEW a \in Column, NEW b \in Column, NEW c \in Column,
         RankLess(a, b), RankLess(b, c)
  PROVE  RankLess(a, c)
<1>1. \A x \in {a, b, c} : ReducedCost(x) \in Int /\ x.cost \in Int /\ x.rank \in Nat
  BY ReducedCostType, ColumnAssumption
<1> QED BY <1>1 DEF RankLess

\* What worst_main took out ranks behind everything evictable that is left.
LEMMA WorstRanksLast ==
  ASSUME DualsTyped, NEW M, M \subseteq Column, Distinct(M),
         NEW w \in Evictable(M), IsWorst(w, M),
         NEW m \in M \ {w}, Key(m) \notin protected
  PROVE  RankLess(m, w)
<1>1. m \in Evictable(M) /\ w \in M /\ Key(m) # Key(w)
  BY DEF Evictable, Distinct
<1>2. ~RankLess(w, m)
  BY <1>1 DEF IsWorst
<1> QED BY <1>1, <1>2, RankIsTotal

\* A key that admit takes out of the main pool is the worst evictable one.
LEMMA AcceptEvictsWorst ==
  ASSUME DualsTyped, NEW c \in Column, NEW b, Accept(c, b),
         main \subseteq Column, Distinct(main),
         NEW m \in main, Key(m) \notin Keys(main')
  PROVE  /\ Key(m) \notin protected
         /\ \A r \in main' : Key(r) \notin protected => RankLess(r, m)
<1>1. CASE RejectDominated(c, b) \/ DivertToBackup(c, b)
  BY <1>1 DEF RejectDominated, DivertToBackup, Keys
<1>2. CASE ReplaceMain(c, b) \/ FillMain(c, b)
  BY <1>2 DEF ReplaceMain, FillMain, PutMain, SameKey, Keys
<1>3. CASE AdmitAndEvict(c, b)
  <2>1. SameKey(main, c) = {}
    BY <1>3 DEF AdmitAndEvict, NeedsEviction, IsNewcomer
  <2>2. PICK w \in Evictable(main \cup {c}) :
          IsWorst(w, main \cup {c}) /\ main' = (main \cup {c}) \ {w}
    BY <1>3 DEF AdmitAndEvict
  <2>3. m = w
    BY <2>2 DEF Keys
  <2>4. Distinct(main \cup {c}) /\ main \cup {c} \subseteq Column
    BY <2>1 DEF Distinct, SameKey
  <2>5. \A r \in main' : Key(r) \notin protected => RankLess(r, w)
    BY <2>2, <2>4, WorstRanksLast
  <2> QED BY <2>2, <2>3, <2>5 DEF Evictable
<1> QED BY <1>1, <1>2, <1>3 DEF Accept

\* A key leaves the main pool only as the worst evictable column there: by
\* admission, by repricing and by protect_partition alike.
THEOREM OnlyTheWorstLeaves == Spec => EvictsWorst
<1>1. ASSUME IInv, DualsTyped, [Next]_vars, contents' # contents,
             NEW m \in main, Key(m) \notin Keys(main')
      PROVE  /\ Key(m) \notin protected
             /\ \A r \in main' : Key(r) \notin protected => RankLess(r, m)
  <2>1. main \subseteq Column /\ Distinct(main)
    BY <1>1 DEF IInv, TypeOK
  <2>2. CASE (\E c \in Column : AdmitColumn(c)) \/ RepriceCandidate
    <3>1. PICK c \in Column : \E b : Accept(c, b)
      BY <1>1, <2>2 DEF AdmitColumn, RepriceCandidate, IInv, TypeOK
    <3>2. PICK b : Accept(c, b)
      BY <3>1
    <3> QED BY <1>1, <2>1, <3>2, AcceptEvictsWorst
  <2>3. CASE ProtectPlan
    BY <1>1, <2>3 DEF ProtectPlan, PutMain, SameKey, Keys, contents
  <2>4. CASE DemoteExcess
    <3>1. PICK w \in Evictable(main) : IsWorst(w, main) /\ main' = main \ {w}
      BY <2>4 DEF DemoteExcess
    <3>2. m = w
      BY <1>1, <3>1 DEF Keys
    <3>3. \A r \in main' : Key(r) \notin protected => RankLess(r, w)
      BY <1>1, <2>1, <3>1, WorstRanksLast
    <3> QED BY <3>1, <3>2, <3>3 DEF Evictable
  <2>5. CASE \/ \E d \in Duals : UpdateDuals(d)
             \/ \E S \in Partition : BeginProtect(S)
             \/ BeginReprice \/ EndReprice \/ EndProtect \/ UNCHANGED vars
    BY <1>1, <2>5
       DEF UpdateDuals, BeginProtect, BeginReprice, EndReprice, EndProtect, vars, contents
  <2> QED BY <1>1, <2>2, <2>3, <2>4, <2>5 DEF Next, LoopStep
<1>2. IInv /\ DualsTyped /\ [Next]_vars =>
        [\A m \in main : Key(m) \notin Keys(main') =>
           /\ Key(m) \notin protected
           /\ \A r \in main' : Key(r) \notin protected => RankLess(r, m)]_contents
  BY <1>1
<1> QED BY <1>2, Invariance, DualsStayTyped, PTL DEF Spec, EvictsWorst

\* While a repricing pass runs, every candidate it has visited and left in the
\* backup pool ranks behind a full main pool.
Outranked(b, M) ==
  Cardinality(M) = Capacity /\ \A m \in Evictable(M) : RankLess(m, b)

RepriceState ==
  phase = "reprice" =>
    /\ dualsValid
    /\ \A c \in todo : ReducedCost(c) < -Tol
    /\ \A b \in backup \ todo : ReducedCost(b) < -Tol => Outranked(b, main)

\* One candidate of the pass keeps what the visited ones have.
LEMMA CandidateKeepsOutranked ==
  ASSUME IInv, DualsTyped, RepriceState, RepriceCandidate,
         NEW b \in backup' \ todo', ReducedCost(b) < -Tol
  PROVE  Outranked(b, main')
<1>1. PICK c \in todo : /\ Accept(c, backup \ SameKey(backup, c))
                        /\ todo' = todo \ {c}
  BY DEF RepriceCandidate
<1>2. /\ phase = "reprice" /\ dualsValid /\ protected' = protected
      /\ ReducedCost(c) < -Tol
  BY DEF RepriceCandidate, RepriceState
<1>3. /\ main \subseteq Column /\ backup \subseteq Column /\ todo \subseteq backup
      /\ IsFiniteSet(main) /\ Distinct(main) /\ Distinct(backup)
      /\ Disjoint(main, backup) /\ Cardinality(main) <= Capacity
  BY <1>2 DEF IInv, TypeOK, LoopState, CapacityBound
<1>4. Cardinality(main) \in Nat /\ Capacity \in Nat /\ Tol \in Nat /\ ReducedCost(c) \in Int
  BY <1>3, FS_CardinalityType, CapacityAssumption, ToleranceAssumption, ReducedCostType
<1> DEFINE rest == backup \ SameKey(backup, c)
<1>5. rest = backup \ {c} /\ SameKey(main, c) = {} /\ SameKey(rest, c) = {}
  BY <1>3 DEF SameKey, Distinct, Disjoint
<1>6. \A x \in rest \ todo' : ReducedCost(x) < -Tol => Outranked(x, main)
  BY <1>1, <1>2, <1>5 DEF RepriceState
<1> HIDE DEF rest
<1>7. CASE RejectDominated(c, rest)
  BY <1>6, <1>7 DEF RejectDominated
<1>8. CASE ReplaceMain(c, rest)
  BY <1>5, <1>8 DEF ReplaceMain
<1>9. CASE FillMain(c, rest)
  <2>1. Cardinality(main) < Capacity /\ b \in rest
    BY <1>9 DEF FillMain, PutMain
  <2> QED BY <1>4, <1>6, <2>1 DEF Outranked
<1>10. CASE DivertToBackup(c, rest)
  BY <1>2, <1>4, <1>10 DEF DivertToBackup, IsUnpromising
<1>11. CASE AdmitAndEvict(c, rest)
  <2>1. PICK w \in Evictable(main \cup {c}) :
          /\ IsWorst(w, main \cup {c})
          /\ main' = (main \cup {c}) \ {w}
          /\ backup' = AfterDemotion(rest \ SameKey(rest, c), w)
    BY <1>11 DEF AdmitAndEvict
  <2>2. /\ Distinct(main \cup {c}) /\ main \cup {c} \subseteq Column
        /\ w \in main \cup {c} /\ c \in Column
    BY <1>1, <1>3, <1>5, <2>1 DEF Distinct, SameKey, Evictable
  <2>3. Cardinality(main') = Capacity
    <3>1. Cardinality(main) = Capacity
      BY <1>3, <1>4, <1>11 DEF AdmitAndEvict, NeedsEviction
    <3>2. /\ IsFiniteSet(main \cup {c})
          /\ Cardinality(main \cup {c}) = Cardinality(main) + 1
      BY <1>3, <1>5, NewColumn
    <3>3. Cardinality((main \cup {c}) \ {w}) = Cardinality(main \cup {c}) - 1
      BY <2>2, <3>2, FS_RemoveElement
    <3> QED BY <1>4, <2>1, <3>1, <3>2, <3>3
  <2>4. \A m \in Evictable(main') : RankLess(m, w)
    BY <2>1, <2>2, WorstRanksLast DEF Evictable
  <2>5. b = w \/ b \in rest
    <3>1. AfterDemotion(rest \ SameKey(rest, c), w) \subseteq rest \cup {w}
      BY DEF AfterDemotion, WithBackup
    <3> QED BY <2>1, <3>1
  <2>6. CASE b = w
    BY <2>3, <2>4, <2>6 DEF Outranked
  <2>7. CASE b \in rest /\ w \in main
    <3>1. b \in Column /\ RankLess(w, b)
      BY <1>3, <1>5, <1>6, <2>1, <2>7 DEF Outranked, Evictable
    <3>2. \A m \in Evictable(main') : m \in Column
      BY <2>1, <2>2 DEF Evictable
    <3> QED BY <2>2, <2>3, <2>4, <3>1, <3>2, RankIsTransitive DEF Outranked
  <2>8. CASE b \in rest /\ w = c
    <3>1. main' = main
      BY <1>5, <2>1, <2>8 DEF SameKey
    <3> QED BY <1>6, <2>8, <3>1
  <2> QED BY <2>2, <2>5, <2>6, <2>7, <2>8
<1> QED BY <1>1, <1>7, <1>8, <1>9, <1>10, <1>11 DEF Accept, rest

\* A repricing pass ends with the best evictable columns in the main pool:
\* what stays in the backup pool with a negative reduced cost ranks behind all
\* of a full main pool.
THEOREM RepricingSelectsTheBest == Spec => []RepriceSelectsBest
<1>1. Init => RepriceState
  BY DEF Init, RepriceState
<1>2. IInv /\ DualsTyped /\ RepriceState /\ [Next]_vars => RepriceState'
  <2> SUFFICES ASSUME IInv, DualsTyped, RepriceState, [Next]_vars, phase' = "reprice"
               PROVE  RepriceState'
    BY DEF RepriceState
  <2>1. CASE BeginReprice
    <3>1. /\ duals' = duals /\ dualsValid' /\ backup' = backup
          /\ todo' = {b \in backup : ReducedCost(b) < -Tol}
      BY <2>1 DEF BeginReprice, contents
    <3> QED BY <3>1, ReducedCostStays DEF RepriceState
  <2>2. CASE RepriceCandidate
    <3>1. /\ duals' = duals /\ dualsValid' = dualsValid /\ phase = "reprice"
          /\ todo' \subseteq todo /\ protected' = protected
      BY <2>2 DEF RepriceCandidate
    <3>2. \A c : ReducedCost(c)' = ReducedCost(c)
      BY <3>1, ReducedCostStays
    <3>3. \A b : Outranked(b, main') => Outranked(b, main)'
      BY <3>1, <3>2 DEF Outranked, Evictable, RankLess
    <3>4. \A c \in todo' : ReducedCost(c)' < -Tol
      BY <3>1, <3>2 DEF RepriceState
    <3>5. \A b \in backup' \ todo' : ReducedCost(b)' < -Tol => Outranked(b, main)'
      BY <2>2, <3>2, <3>3, CandidateKeepsOutranked
    <3> QED BY <3>1, <3>4, <3>5 DEF RepriceState
  <2>3. CASE UNCHANGED vars
    <3>1. duals' = duals /\ UNCHANGED <<main, backup, protected, todo, phase, dualsValid>>
      BY <2>3 DEF vars
    <3>2. \A c : ReducedCost(c)' = ReducedCost(c)
      BY <3>1, ReducedCostStays
    <3> QED BY <3>1, <3>2 DEF RepriceState, Outranked, Evictable, RankLess
  <2>4. CASE \/ \E c \in Column : AdmitColumn(c)
             \/ \E d \in Duals : UpdateDuals(d)
             \/ \E S \in Partition : BeginProtect(S)
             \/ EndReprice \/ ProtectPlan \/ DemoteExcess \/ EndProtect
    BY <2>4 DEF AdmitColumn, UpdateDuals, BeginProtect, EndReprice, ProtectPlan,
                DemoteExcess, EndProtect
  <2> QED BY <2>1, <2>2, <2>3, <2>4 DEF Next, LoopStep
<1>3. RepriceState => RepriceSelectsBest
  BY DEF RepriceState, RepriceSelectsBest, Outranked
<1> QED BY <1>1, <1>2, <1>3, Invariance, DualsStayTyped, PTL DEF Spec

=============================================================================
