----------------------------- MODULE DescentMC ------------------------------
(***************************************************************************)
(* The control of the descent and the memory of its passes on small        *)
(* instances, one of them at work in each behaviour.                       *)
(*                                                                         *)
(* The descent: four solutions, two of the same cost, one of which has one *)
(* more route and gap; every choice of which moves and which paths lead    *)
(* where.                                                                  *)
(***************************************************************************)
EXTENDS Vnd, MoveMemory, TLC

Node(cost, routes, gaps, move, path) ==
  [cost |-> cost, routes |-> routes, gaps |-> gaps, move |-> move, path |-> path]

MCGraphs ==
  {<<Node(3, 1, 2, <<a, b, NoCandidate>>, <<p, q>>),
     Node(2, 2, 3, <<c, NoCandidate, d>>, <<{}, r, {4}>>),
     Node(2, 1, 2, <<NoCandidate, e, NoCandidate>>, <<r, {1}>>),
     Node(1, 2, 3, <<NoCandidate, NoCandidate, f>>, <<{1}, {}, {2, 3}>>)>> :
       a \in {NoCandidate, 2}, b \in {NoCandidate, 3}, p \in {{}, {2, 3}}, q \in {{1}, {3}},
       c \in {NoCandidate, 3}, d \in {NoCandidate, 4}, r \in {{}, {4}}, e \in {2, 4}, f \in {NoCandidate, 2}}
-----------------------------------------------------------------------------
(* The memory: four customers and a station; a route is scored by what it  *)
(* drives and how far it comes without a full battery at every station.    *)

X == 0 :> 0 @@ 1 :> 3 @@ 2 :> 5 @@ 3 :> -3 @@ 4 :> -4 @@ 8 :> 2
Y == 0 :> 0 @@ 1 :> 1 @@ 2 :> -1 @@ 3 :> 2 @@ 4 :> -2 @@ 8 :> -2

Abs(i) == IF i < 0 THEN -i ELSE i

MCDist == [p \in Nodes \X Nodes |-> Abs(X[p[1]] - X[p[2]]) + Abs(Y[p[1]] - Y[p[2]])]
MCService == [c \in Customers |-> 0]
MCCurve == 8 :> << [time |-> 0, energy |-> 0], [time |-> 4, energy |-> 12] >>

MCScore(visits) ==
  LET path == Closed(visits)
      step(acc, k) ==
        LET leg == MCDist[path[k - 1], path[k]]
            level == Larger(0, acc.level - leg)
        IN [raw |-> acc.raw + leg, shortfall |-> acc.shortfall + Larger(0, leg - acc.level),
            level |-> IF path[k] \in Stations THEN Capacity ELSE level]
      end == Folded(step, [raw |-> 0, shortfall |-> 0, level |-> Capacity],
                    [i \in 1 .. Len(path) - 1 |-> i + 1])
  IN [raw |-> end.raw, shortfall |-> end.shortfall, excess |-> Larger(0, end.raw - MaxDuration)]

Routes(list) == [i \in DOMAIN list |-> Plan(list[i])]

MCStarts == {Routes(<< <<1, 8, 3, 2>>, <<4>> >>)}
MCPaths == {<< >>, <<8>>}
-----------------------------------------------------------------------------
DescentOver ==
  /\ graph = CHOOSE g \in Graphs : TRUE
  /\ profile = "adaptive" /\ kappa = 0 /\ pc = "done" /\ current = 1
  /\ budget = 0 /\ held = FALSE /\ drawn = {} /\ phase = "none" /\ allowance = 0
  /\ active = {} /\ late = FALSE

MemoryOver ==
  /\ mode = "cooperative" /\ timed = FALSE /\ solution = << >> /\ lambda = Idle
  /\ stamp = [lambda |-> Idle, routes |-> 0] /\ calls = MaxCalls /\ passes = MaxPasses
  /\ memory = Empty /\ versions = Empty /\ nextVersion = 1 /\ tables = Empty

MCInit == (DescentInit /\ MemoryOver) \/ (Init /\ DescentOver)

MCNext ==
  \/ DescentNext /\ UNCHANGED vars
  \/ Next /\ UNCHANGED descentVars

MCSpec ==
  /\ MCInit /\ [][MCNext]_<<vars, descentVars>>
  /\ WF_<<vars, descentVars>>(Advance /\ UNCHANGED vars)
=============================================================================
