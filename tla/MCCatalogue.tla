----------------------------- MODULE MCCatalogue -----------------------------
(* Model-checking instances of Catalogue. *)
EXTENDS Catalogue, TLC

CatalogueSymmetry == Permutations(ProductIds) \cup Permutations(Names)
=============================================================================
