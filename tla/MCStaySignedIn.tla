--------------------------- MODULE MCStaySignedIn ---------------------------
EXTENDS StaySignedIn

Of(b, m, ms, ks, n) ==
  [backend |-> b, method |-> m, modes |-> ms, kinds |-> ks, faults |-> n]

\* Every backend, wrapping, choice and way to sign out, in the combinations
\* that interact.
MCDeployments ==
  {Of("sql", "pbk", {"sealer"}, {"logout", "password"}, 1),
   Of("sql", "pbk", {"split"}, {"seals"}, 1),
   Of("redis", "pbk", {"sealer"}, {"sessions"}, 1),
   Of("sql", "vault", {"session"}, {"session"}, 1),
   Of("redis", "vault", {"session"}, {"logout"}, 0)}
=============================================================================
