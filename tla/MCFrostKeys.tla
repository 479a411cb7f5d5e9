---------------------------- MODULE MCFrostKeys -----------------------------
(***************************************************************************)
(* FrostKeys over a group of five elements, with a stand-in for the hash   *)
(* that depends on everything that is hashed.                              *)
(***************************************************************************)
EXTENDS FrostKeys, TLC

MCHash(in) ==
  IF in[1] = "binding"
  THEN (1 + in[2] + in[5] * (in[3] + FoldFunction(+, 0, [i \in DOMAIN in[4] |-> i * in[4][i][1] + in[4][i][2]]))) % Order
  ELSE (3 * in[2] + in[3] + in[4]) % Order

MCSignerNonces == {<<1, 3>>, <<4, 2>>}
MCUserNonces == {<<2, 1>>, <<3, 4>>}

\* Secrets whose element has even y, and odd y.
MCPolynomials == {<<2, 3>>, <<4, 1>>}
MCNoncePairs == {<<1, 3>>, <<4, 2>>}

MCInvitations == {<<"a", "b", "c">>}

Symmetry == Permutations(Calls)
=============================================================================
