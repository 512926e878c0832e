------------------------- MODULE MCStandLifecycle -------------------------
(* Two stands of a template with two VMs, or one of a VM and a network.    *)
EXTENDS StandLifecycle, TLC

Symmetry ==
  Permutations(Stands) \union Permutations(Workers) \union Permutations(VMs)
    \union Permutations(Vmids) \union Permutations(Names)
=============================================================================
