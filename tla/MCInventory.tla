----------------------------- MODULE MCInventory -----------------------------
(***************************************************************************)
(* An instance of Inventory for TLC: one device with one port, another     *)
(* with two, two links and two hosts.                                      *)
(***************************************************************************)
EXTENDS InventoryHistory, TLC

CONSTANTS d1, d2, p1, p2, p3, x1, l1, l2, h1, h2

\* Device d1 has one port, d2 two.
MCDeviceOf == (p1 :> d1) @@ (p2 :> d2) @@ (p3 :> d2)

Interchangeable == Permutations(Links) \cup Permutations(Hosts) \cup Permutations({p2, p3})
==============================================================================
