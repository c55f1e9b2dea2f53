--------------------------- MODULE InsertionChoice ---------------------------
(***************************************************************************)
(* The choice of the next insertion in construction and repair             *)
(* (search.cpp): greedy and 2-regret over candidates whose true cost (the  *)
(* cost with completed station paths) is only computed on demand.  A queue *)
(* of lower bounds tells when the remaining candidates cannot win, and a   *)
(* customer is given up when its regret cannot win.                        *)
(***************************************************************************)
EXTENDS Integers, Sequences, FiniteSets, FiniteSetsExt, SequencesExt, LexOrder

CONSTANTS
  Boards,      \* for every unassigned customer its moves [direct, bound, delta]
  Tolerance,   \* kCostTolerance
  Safety,      \* kLinkedBoundSafety: how far a bound may be too high
  Unrivalled   \* the regret of a customer with one move: infinity

ASSUME ChoiceAssumption ==
  /\ Tolerance \in Nat /\ Safety \in Nat /\ Unrivalled \in Int
  /\ \A b \in Boards :
       /\ b # << >> /\ b \in Seq(Seq([direct : Int, bound : Int, delta : Int \ {Unrivalled}]))
       /\ \A c \in DOMAIN b : b[c] # << >>

\* What boards must satisfy (linked_insertion_lower_bound and kLinkedBoundSafety).
ASSUME BoundsAreSafe ==
  \A b \in Boards : \A c \in DOMAIN b : \A i \in DOMAIN b[c] : b[c][i].bound <= b[c][i].delta + Safety

None == [regret |-> -1, move |-> <<0, 0>>]

VARIABLES
  board, order,  \* the question: moves, and the customers as they are listed
  twoRegret,     \* 2-regret, else greedy
  turn,          \* the customer being ranked (2-regret)
  evaluated,     \* its moves whose delta is known (greedy: of all customers)
  completed,     \* moves that still hold their completed plan
  winner         \* the best ranking so far, as [regret, move]

choiceVars == <<board, order, twoRegret, turn, evaluated, completed, winner>>
-----------------------------------------------------------------------------
(* A move is a pair <<customer, place>>; places count routes and positions. *)

Entry(m) == board[m[1]][m[2]]

DeltaKey(m) == <<Entry(m).delta, m[1], m[2]>>
DirectKey(m) == <<Entry(m).direct, m[1], m[2]>>
BoundKey(m) == <<Entry(m).bound, m[1], m[2]>>

MovesOf(c) == {c} \X DOMAIN board[c]

Best(S) == Least(S, DeltaKey)

\* The delta of the second of the best two moves.
Second(S) == IF Cardinality(S) = 1 THEN Unrivalled ELSE Entry(Best(S \ {Best(S)})).delta

BestTwoDirect(S) ==
  LET first == Least(S, DirectKey)
  IN {first} \cup (IF S = {first} THEN {} ELSE {Least(S \ {first}, DirectKey)})

DirectRanking(c) ==
  LET S == MovesOf(c)
      first == Least(S, DirectKey)
  IN [move |-> first,
      regret |-> IF S = {first} THEN Unrivalled
                 ELSE Entry(Least(S \ {first}, DirectKey)).direct - Entry(first).direct]

\* regret_better, with the key that settles regrets within the tolerance.
RegretBetter(candidate, incumbent, Key(_)) ==
  \/ candidate.regret > incumbent.regret + Tolerance
  \/ /\ candidate.regret - incumbent.regret \in -Tolerance .. Tolerance
     /\ LexLess(Key(candidate.move), Key(incumbent.move))

\* The customer that would win without completed paths.  Moves do not know
\* their delta yet: it is the direct one.
DirectWinner ==
  LET step(acc, c) == IF acc = 0 \/ RegretBetter(DirectRanking(c), DirectRanking(acc), DirectKey)
                      THEN c ELSE acc
  IN FoldLeft(step, 0, order)

Candidates == IF twoRegret THEN MovesOf(order[turn]) ELSE UNION {MovesOf(c) : c \in DOMAIN board}

\* What is evaluated before the queue of bounds is asked.
FirstLook(S) == IF twoRegret THEN BestTwoDirect(S) ELSE {Least(S, DirectKey)}

ChoiceInit ==
  /\ board \in Boards
  /\ order \in {o \in [DOMAIN board -> DOMAIN board] : IsInjective(o)}
  /\ twoRegret \in BOOLEAN
  /\ turn = 1
  /\ evaluated = FirstLook(Candidates)
  /\ completed = {Best(evaluated)}
  /\ winner = None

Choosing == turn <= Len(order)

\* The move with the least bound among those not evaluated.
Waiting == Candidates \ evaluated
Popped == Least(Waiting, BoundKey)

Threshold == IF twoRegret THEN Second(evaluated) ELSE Entry(Best(evaluated)).delta

\* Mutant: bounds are trusted to the last digit.
ExhaustedAtThreshold == Waiting # {} => Entry(Popped).bound >= Threshold

Exhausted == Waiting # {} => Entry(Popped).bound > Threshold + Safety

\* The regret that is still possible cannot win any more.  The customer that
\* wins without completed paths is always ranked completely.
Hopeless ==
  /\ twoRegret /\ winner # None /\ order[turn] # DirectWinner
  /\ Cardinality(evaluated) > 1 /\ winner.regret # Unrivalled
  /\ LET bestPossible == Min({Entry(Best(evaluated)).delta, Entry(Popped).bound - Safety})
     IN winner.regret > Max({0, Second(evaluated) - bestPossible}) + Tolerance

\* evaluate_and_rank: the loser of the comparison drops its plan.
EvaluateMove ==
  /\ Choosing /\ ~Exhausted /\ ~Hopeless
  /\ evaluated' = evaluated \cup {Popped}
  /\ completed' = IF LexLess(DeltaKey(Popped), DeltaKey(Best(evaluated)))
                  THEN (completed \ {Best(evaluated)}) \cup {Popped} ELSE completed
  /\ UNCHANGED <<board, order, twoRegret, turn, winner>>

NextCustomer(best) ==
  /\ winner' = best
  /\ turn' = turn + 1
  /\ IF turn < Len(order)
     THEN LET next == FirstLook(MovesOf(order[turn + 1]))
          IN /\ evaluated' = next
             /\ completed' = {Best(next)} \cup (IF best = None THEN {} ELSE {best.move})
     ELSE evaluated' = {} /\ completed' = {best.move} \cap completed
  /\ UNCHANGED <<board, order, twoRegret>>

GiveUp ==
  /\ Choosing /\ ~Exhausted /\ Hopeless
  /\ NextCustomer(winner)

RankCustomer ==
  /\ Choosing /\ Exhausted /\ twoRegret
  /\ LET ranked == [move |-> Best(evaluated),
                    regret |-> IF Second(evaluated) = Unrivalled THEN Unrivalled
                               ELSE Second(evaluated) - Entry(Best(evaluated)).delta]
     IN NextCustomer(IF winner = None \/ RegretBetter(ranked, winner, DeltaKey)
                     THEN ranked ELSE winner)

ChooseGreedy ==
  /\ Choosing /\ Exhausted /\ ~twoRegret
  /\ winner' = [move |-> Best(evaluated), regret |-> 0]
  /\ turn' = Len(order) + 1
  /\ UNCHANGED <<board, order, twoRegret, evaluated, completed>>

ChoiceNext == EvaluateMove \/ GiveUp \/ RankCustomer \/ ChooseGreedy

ChoiceSpec == ChoiceInit /\ [][ChoiceNext]_choiceVars
-----------------------------------------------------------------------------
\* The ranking of a customer all of whose moves are evaluated.
FullRanking(c) ==
  LET S == MovesOf(c)
  IN [move |-> Best(S),
      regret |-> IF Cardinality(S) = 1 THEN Unrivalled ELSE Second(S) - Entry(Best(S)).delta]

\* The winner so far against the next customer, completely ranked.
Prefer(acc, c) ==
  IF acc = None \/ RegretBetter(FullRanking(c), acc, DeltaKey) THEN FullRanking(c) ELSE acc

\* Bounds and pruned customers never change the choice: it is the one made
\* when every move of every customer is evaluated, tolerance included, for
\* bounds that are wrong by as much as the code accepts.
ChoiceIsExhaustive ==
  ~Choosing =>
    IF twoRegret
    THEN winner = FoldLeft(Prefer, None, order)
    ELSE winner.move = Best(UNION {MovesOf(c) : c \in DOMAIN board})

=============================================================================
