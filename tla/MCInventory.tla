------------------------------ MODULE MCInventory ------------------------------
(***************************************************************************)
(* A small instance of Inventory.                                          *)
(***************************************************************************)
EXTENDS Inventory, TLC

\* Every provider may list every source.
MCCatalogShared == [c \in Config |-> Source]

\* The only source has its external id for itself.
MCExternalId == [s \in Source |-> 7]

\* Configurations, sources and parts play the same role.
MCSymmetry == Permutations(Config) \cup Permutations(Source) \cup Permutations(Part)
===============================================================================
