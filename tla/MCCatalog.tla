----------------------------- MODULE MCCatalog -----------------------------
(* Instances of Catalog for TLC.                                            *)
EXTENDS Catalog

OneCategory == {{}, {"sarees"}}
=============================================================================
