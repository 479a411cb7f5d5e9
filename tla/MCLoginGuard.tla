---------------------------- MODULE MCLoginGuard ----------------------------
(* LoginGuard on a small instance.  Attempts in flight are interchangeable. *)
EXTENDS LoginGuard, TLC

InFlight == Permutations(Attempts)
=============================================================================
