------------------------------ MODULE OneTime -------------------------------
(***************************************************************************)
(* What "one-time" promises of an access token or a bunker secret: it is    *)
(* accepted at most once, whoever presents it and however often.           *)
(***************************************************************************)
EXTENDS Naturals

CONSTANT Items

VARIABLE taken   \* how often each was accepted

Init == taken = [i \in Items |-> 0]

Take(i) == taken[i] = 0 /\ taken' = [taken EXCEPT ![i] = 1]

Next == \E i \in Items : Take(i)

Spec == Init /\ [][Next]_taken
=============================================================================
