---------------------------- MODULE MCCatalogRuns ----------------------------
(***************************************************************************)
(* An instance of CatalogRuns.  Requests, Runs, pages and importers are    *)
(* interchangeable.                                                        *)
(***************************************************************************)
EXTENDS CatalogRuns, TLC

Symmetry ==
  Permutations(Requests) \cup Permutations(RunIds) \cup Permutations(Pages) \cup Permutations(Importers)

=============================================================================
