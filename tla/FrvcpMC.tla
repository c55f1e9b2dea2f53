------------------------------- MODULE FrvcpMC ------------------------------
(***************************************************************************)
(* Three customers and three stations on a grid: one route loses its best  *)
(* plan to the dominance rule, one needs no charge, and the optimum of the *)
(* third meets the lower bound.                                            *)
(***************************************************************************)
EXTENDS Frvcp, TLC

Place == 0 :> <<5, 0>> @@ 1 :> <<1, 1>> @@ 2 :> <<4, 3>> @@ 3 :> <<3, 4>> @@ 7 :> <<5, 0>> @@ 8 :> <<2, 3>> @@ 9 :> <<3, 3>>

Apart(x, y) == Larger(x - y, y - x)

MCDist == [p \in Nodes \X Nodes |->
             Apart(Place[p[1]][1], Place[p[2]][1]) + Apart(Place[p[1]][2], Place[p[2]][2])]

MCService == 1 :> 2 @@ 2 :> 2 @@ 3 :> 2

MCCurve == [s \in Stations |-> <<[time |-> 0, energy |-> 0], [time |-> 5, energy |-> 5],
                                 [time |-> 14, energy |-> 8]>>]

MCOffered == {<<8, 1, 8>>, <<1, 8, 7>>, <<2, 9>>, <<3, 8>>}
=============================================================================
