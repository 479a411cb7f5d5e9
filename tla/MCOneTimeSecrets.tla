-------------------------- MODULE MCOneTimeSecrets --------------------------
(* OneTimeSecrets on a small instance.  Requests in flight are interchangeable. *)
EXTENDS OneTimeSecrets, TLC

InFlight == Permutations(Procs) \cup Permutations(Workers)
=============================================================================
