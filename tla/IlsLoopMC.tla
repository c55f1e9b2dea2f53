----------------------------- MODULE IlsLoopMC -----------------------------
(***************************************************************************)
(* Small instances of IlsLoop: one infeasible work state and feasible ones *)
(* at costs one tolerance apart or more; the policies of the command line. *)
(***************************************************************************)
EXTENDS IlsLoop

State(id, feasible, cost) == [id |-> id, feasible |-> feasible, cost |-> cost]

MCSolution ==
  {State(1, FALSE, 3), State(2, TRUE, 9), State(3, TRUE, 8), State(4, TRUE, 5)}

Policy(record, cooperative, target) ==
  [record |-> record, cooperative |-> cooperative, target |-> target]

MCPolicies == {Policy(TRUE, TRUE, None), Policy(TRUE, FALSE, None), Policy(FALSE, FALSE, 5)}
=============================================================================
