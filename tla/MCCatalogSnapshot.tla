--------------------------- MODULE MCCatalogSnapshot ---------------------------
(* Instances of CatalogSnapshot for TLC: pages of one product each, so that *)
(* two products take two pages.                                            *)
EXTENDS CatalogSnapshot

=============================================================================
