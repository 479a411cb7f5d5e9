---------------------------- MODULE Bip340Frost ----------------------------
(***************************************************************************)
(* The arithmetic of FROST as internal/frost computes it, over the         *)
(* integers modulo a small prime.  A group element is written as its       *)
(* discrete logarithm, so that a scalar times the base point is the scalar *)
(* itself; of an element and its negation one has even y, and x-only       *)
(* encodings keep neither the sign nor the parity.  Hashes are a           *)
(* parameter: all that matters is that both sides compute the same one.    *)
(***************************************************************************)
EXTENDS Integers, Functions

CONSTANTS
  Order,      \* the prime order of the group
  Hash(_)     \* SHA-256 of what is hashed, reduced to a scalar

ASSUME OrderAssumption == Order \in Nat /\ Order > 2 /\ \A d \in 2..(Order - 1) : Order % d # 0

Scalars == 0..(Order - 1)
Elements == Scalars
NonZero == 1..(Order - 1)

Add(a, b) == (a + b) % Order
Multiply(a, b) == (a * b) % Order
Negate(a) == (Order - a) % Order
Subtract(a, b) == Add(a, Negate(b))
Invert(a) == CHOOSE b \in NonZero : Multiply(a, b) = 1

SumOf(f) == FoldFunction(Add, 0, f)
ProductOf(f) == FoldFunction(Multiply, 1, f)

-----------------------------------------------------------------------------
(* Encodings.                                                              *)

\* Compressed encodings start with 0x02 when y is even.
EvenY(e) == e \in 1..((Order - 1) \div 2)

\* xOnlyPubkey; an x-only key is named by its even-y element, which is also
\* what "02" followed by it decodes to.
XOnly(e) == IF EvenY(e) THEN e ELSE Negate(e)

-----------------------------------------------------------------------------
(* Polynomials.                                                            *)

\* The power of x after n turns of evaluatePolynomial's loop.
xPower(x, n) == ProductOf([turn \in 1..n |-> x])

\* evaluatePolynomial: coefficients from the constant term up.
evaluatePolynomial(coeffs, x) ==
  SumOf([k \in DOMAIN coeffs |-> Multiply(coeffs[k], xPower(x, k - 1))])

\* verifyShareAgainstCommitment.
verifyShareAgainstCommitment(y, x, commits) == y = evaluatePolynomial(commits, x)

\* lambda_i: the product over the others of x_j / (x_j - x_i).
LagrangeCoefficient(i, ids) ==
  Multiply(ProductOf([j \in ids \ {i} |-> j]),
           Invert(ProductOf([j \in ids \ {i} |-> Subtract(j, i)])))

-----------------------------------------------------------------------------
(* Signing.  C maps each participant to its commitments <<D, E>>.          *)

ComputeBindingFactors(P, msg, C) ==
  [i \in DOMAIN C |-> Hash(<<"binding", XOnly(P), msg, C, i>>)]

AggregateNonceCommitment(C, rho) ==
  SumOf([i \in DOMAIN C |-> Add(C[i][1], Multiply(C[i][2], rho[i]))])

ComputeBIP340Challenge(r, P, msg) == Hash(<<"challenge", r, XOnly(P), msg>>)

\* What is hashed to sign msg with the commitments of Cs is reduced to a scalar.
ReducedHashes(msg, Cs) ==
  \A P \in Elements :
    /\ \A C \in Cs : \A i \in DOMAIN C : Hash(<<"binding", P, msg, C, i>>) \in Scalars
    /\ \A r \in Scalars : Hash(<<"challenge", r, P, msg>>) \in Scalars

\* PrepareSignable, without the coefficient.
PrepareSignable(P, msg, C) ==
  LET rho == ComputeBindingFactors(P, msg, C)
      R == AggregateNonceCommitment(C, rho)
  IN  [rho |-> rho, R |-> XOnly(R), REvenY |-> EvenY(R),
       c |-> ComputeBIP340Challenge(XOnly(R), P, msg), PubkeyEvenY |-> EvenY(P)]

\* Mutant: the nonces keep their sign when the sum of the commitments has odd y.
SignedNonces(sig, nonces, i) == Add(nonces[1], Multiply(sig.rho[i], nonces[2]))

\* Both terms of a partial signature change sign with the element they open.
NonceTerm(sig, nonces, i) ==
  LET k == Add(nonces[1], Multiply(sig.rho[i], nonces[2]))
  IN  IF sig.REvenY THEN k ELSE Negate(k)

ShareTerm(sig, s, lambda) ==
  LET k == Multiply(Multiply(lambda, s), sig.c)
  IN  IF sig.PubkeyEvenY THEN k ELSE Negate(k)

ComputePartialSignature(sig, nonces, i, s, lambda) ==
  Add(NonceTerm(sig, nonces, i), ShareTerm(sig, s, lambda))

\* The same equation over the public values.
verifyPartialSignature(sig, z, C, i, lambda, V) ==
  z = Add(NonceTerm(sig, C[i], i), ShareTerm(sig, V, lambda))

\* AggregatePartialSignatures and EncodeBIP340Signature.
AggregateFullSignature(sig, Z) == <<sig.R, SumOf(Z)>>

\* VerifyBIP340, and so btcec's schnorr: the equation over x-only values.
VerifyBIP340(s, msg, P) ==
  s[2] = Add(s[1], Multiply(ComputeBIP340Challenge(s[1], P, msg), XOnly(P)))
=============================================================================
