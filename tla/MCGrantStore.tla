---------------------------- MODULE MCGrantStore ----------------------------
(***************************************************************************)
(* Small instances of GrantStore: interchangeable clients and handlers.    *)
(***************************************************************************)
EXTENDS GrantStore, TLC

OneMethodSet == {Methods}

NoneOrSoon == {NoExpiry, 1}

Symmetry == Permutations(Clients) \cup Permutations(Procs)
=============================================================================
