---------------------------- MODULE MCCatalogRows ----------------------------
(* CatalogRows for TLC: a listing's requests one after the other, and two at  *)
(* once over fewer revisions.                                                 *)
EXTENDS CatalogRows

MCHistories == {[atOnce |-> 1, made |-> 3], [atOnce |-> 2, made |-> 2]}
=============================================================================
