--------------------------- MODULE MCRequestAuth ----------------------------
(* RequestAuth on a small instance.  Requests do not interact except through *)
(* their client's grant, which the rest of the system may make, displace     *)
(* (to the client, a revocation) or delete at any time: one request with two *)
(* handlers on two replicas shows the races.                                 *)
EXTENDS RequestAuth, TLC

CONSTANTS r1, c1, connect, sign, a, b, d1, d2

TwoMethods == {connect, sign}
ConnectOnly == r1 :> connect
OneRequest == r1 :> c1
MCMethodSets == {{sign}}
=============================================================================
