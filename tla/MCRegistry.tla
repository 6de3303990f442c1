----------------------------- MODULE MCRegistry -----------------------------
(***************************************************************************)
(* Small instances of Registry.                                            *)
(***************************************************************************)
EXTENDS CatalogRefinement, TLC

CONSTANTS shop, depot, first, second, items, orders

MCName == {shop, depot}
MCSession == {first, second}
MCTable == {items}

\* The REPL: one session, and a second table to save.
MCRepl == {first}

MCTables == {items, orders}

Symmetry == Permutations(MCSession)

=============================================================================
