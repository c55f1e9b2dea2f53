--------------------------- MODULE CatalogStoreMC ---------------------------
(***************************************************************************)
(* Three pairs of anchors for CatalogStore.  With room for six in memory   *)
(* some two catalogues fit and others do not, so recency decides how many  *)
(* leave; with room for three the largest is never kept.                   *)
(***************************************************************************)
EXTENDS CatalogStore

CONSTANTS ab, ba, ac

MCKey == {ab, ba, ac}
MCBytes == (ab :> 2) @@ (ba :> 3) @@ (ac :> 4)
MCBlock == (ab :> <<2, 1>>) @@ (ba :> <<1>>) @@ (ac :> <<1>>)
=============================================================================
