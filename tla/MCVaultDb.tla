------------------------------ MODULE MCVaultDb ------------------------------
(* Instances of VaultDb for TLC.                                           *)
EXTENDS VaultDb, TLC

Ask(kind, node, child) == [kind |-> kind, node |-> node, child |-> child]

\* Whether a request can be met depends on the others.
Requests ==
    {Ask("create", 0, 0), Ask("update", 2, 0), Ask("delete", 2, 0),
     Ask("addRef", 1, 2), Ask("removeRef", 1, 2)}

Creations == {Ask("create", 0, 0)}

TwoNodes == {1, 2}

Symmetry == Permutations(Call)
=============================================================================
