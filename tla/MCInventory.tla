---------------------------- MODULE MCInventory ----------------------------
(* Inventory with symmetric ids, names and ports. *)
EXTENDS Inventory, TLC

Symmetry ==
    Permutations(Nodes) \cup Permutations(Backends) \cup Permutations(Mappings)
        \cup Permutations(Names) \cup Permutations(Ports)
        \cup Permutations(Handlers)
=============================================================================
