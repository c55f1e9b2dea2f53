------------------------- MODULE DualCertificateMC --------------------------
(***************************************************************************)
(* Two customers, their single routes, a dear detour and a route for both; *)
(* doubles of three significant bits, so that sums above 8 are rounded.    *)
(***************************************************************************)
EXTENDS DualCertificate

MCCover == <<{1}, {2}, {1}, {1, 2}>>
MCRows == <<1, 2>>
MCDualValue == {-3, 4, 7, 12}
=============================================================================
