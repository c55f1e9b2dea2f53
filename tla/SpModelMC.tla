----------------------------- MODULE SpModelMC ------------------------------
(***************************************************************************)
(* Four partitions, of which two are within the tolerance of each other,   *)
(* and a call for every combination of limits that the solver's            *)
(* configuration can make: paper calls without limits, and calls with a    *)
(* deadline, a time limit, a rounded target or a stall limit.              *)
(***************************************************************************)
EXTENDS SpModel

MCOptions ==
  [deadline : {None}, limit : {None}, target : {None}, stall : {None},
   progress : BOOLEAN, certificate : {TRUE}]
  \cup [deadline : {None, 3, 4}, limit : {None, 2}, target : {None, 4},
        stall : {None, 1, 2}, progress : {FALSE}, certificate : {FALSE}]
=============================================================================
