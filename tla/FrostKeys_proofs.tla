-------------------------- MODULE FrostKeys_proofs --------------------------
(***************************************************************************)
(* Safety of FrostKeys for every group, every threshold, every number of   *)
(* calls, accounts, ids and instances: what the shares of a key sign, the  *)
(* nonces of a session, the owners of shares and the commitments of a key  *)
(* generation.  The arithmetic comes first: the field, sums and products   *)
(* over finite sets, interpolation, and the signature equation.            *)
(***************************************************************************)
EXTENDS FrostKeys, FiniteSetTheorems, WellFoundedInduction, TLAPS

-----------------------------------------------------------------------------
(* The field.                                                              *)

\* The order is a number above two.
LEMMA OrderNat == Order \in Nat /\ Order > 2
BY OrderAssumption

\* A multiple of n that is less than n away from zero is zero.
LEMMA SmallMultiple ==
  ASSUME NEW n \in Nat, NEW d \in Int, -n < n * d, n * d < n
  PROVE  d = 0
<1>1. CASE d >= 1
  <2>1. n * d >= n
    BY <1>1
  <2> QED BY <2>1
<1>2. CASE d <= -1
  <2>1. n * d <= -n
    BY <1>2
  <2> QED BY <2>1
<1> QED BY <1>1, <1>2

\* Division with remainder.
LEMMA Division ==
  ASSUME NEW n \in Nat, n > 0, NEW x \in Int
  PROVE  (x % n) \in 0..(n - 1) /\ (x \div n) \in Int /\ x = n * (x \div n) + (x % n)
OBVIOUS

\* The remainder is what is left below the divisor.
LEMMA Remainder ==
  ASSUME NEW n \in Nat, n > 0, NEW q \in Int, NEW r \in 0..(n - 1)
  PROVE  (n * q + r) % n = r
<1> DEFINE x == n * q + r
           p == x \div n
           s == x % n
<1>0. x \in Int
  OBVIOUS
<1>1. s \in 0..(n - 1) /\ p \in Int /\ x = n * p + s
  BY <1>0, Division
<1>2. n * q + r = n * p + s
  BY <1>1
<1> HIDE DEF p, s, x
<1>3. n * (q - p) = n * q - n * p
  BY <1>1
<1>4. n * (q - p) = s - r
  BY <1>1, <1>2, <1>3
<1>5. q - p = 0
  BY <1>1, <1>4, SmallMultiple
<1>6. s = r
  BY <1>1, <1>2, <1>5
<1> QED BY <1>6 DEF s, x

\* Multiples of the order do not change the remainder.
LEMMA Shifted ==
  ASSUME NEW x \in Int, NEW q \in Int
  PROVE  (x + Order * q) % Order = x % Order
<1> DEFINE r == x % Order
           p == x \div Order
<1>1. r \in 0..(Order - 1) /\ p \in Int /\ x = Order * p + r
  BY OrderNat, Division
<1>2. x + Order * q = Order * (p + q) + r
  <2> HIDE DEF r, p
  <2>1. Order * (p + q) = Order * p + Order * q
    BY <1>1, OrderNat
  <2>2. Order * q \in Int /\ Order * p \in Int
    BY <1>1, OrderNat
  <2> QED BY <1>1, <2>1, <2>2
<1>3. (Order * (p + q) + r) % Order = r
  BY <1>1, OrderNat, Remainder
<1> QED BY <1>2, <1>3

\* The operations of the field stay in it.
LEMMA Typed ==
  ASSUME NEW x \in Scalars, NEW y \in Scalars
  PROVE  Add(x, y) \in Scalars /\ Multiply(x, y) \in Scalars /\ Negate(x) \in Scalars /\ Subtract(x, y) \in Scalars
BY OrderNat DEF Scalars, Add, Multiply, Negate, Subtract

\* An operand may be reduced first.
LEMMA ReduceSum ==
  ASSUME NEW x \in Int, NEW y \in Int
  PROVE  ((x % Order) + y) % Order = (x + y) % Order
<1> DEFINE r == x % Order
           p == x \div Order
<1>1. r \in 0..(Order - 1) /\ p \in Int /\ x = Order * p + r
  BY OrderNat, Division
<1>2. r + y \in Int /\ (r + y + Order * p) % Order = (r + y) % Order
  BY <1>1, Shifted
<1>3. r + y + Order * p = x + y
  <2> HIDE DEF r, p
  <2> QED BY <1>1, OrderNat
<1> QED BY <1>2, <1>3

\* A factor may be reduced first.
LEMMA ReduceProduct ==
  ASSUME NEW x \in Int, NEW y \in Int
  PROVE  ((x % Order) * y) % Order = (x * y) % Order
<1> DEFINE r == x % Order
           p == x \div Order
<1>1. r \in 0..(Order - 1) /\ p \in Int /\ x = Order * p + r
  BY OrderNat, Division
<1>2. r * y \in Int /\ p * y \in Int /\ (r * y + Order * (p * y)) % Order = (r * y) % Order
  BY <1>1, Shifted
<1>3. r * y + Order * (p * y) = x * y
  <2> HIDE DEF r, p
  <2>1. (Order * p + r) * y = Order * (p * y) + r * y
    BY <1>1, OrderNat
  <2> QED BY <1>1, <2>1, OrderNat
<1> QED BY <1>2, <1>3

\* The laws of a ring.
LEMMA AddLaws ==
  ASSUME NEW x \in Scalars, NEW y \in Scalars, NEW z \in Scalars
  PROVE  /\ Add(x, y) = Add(y, x) /\ Add(Add(x, y), z) = Add(x, Add(y, z))
         /\ Add(x, 0) = x /\ Add(0, x) = x /\ Add(x, Negate(x)) = 0
<1>0. x \in Int /\ y \in Int /\ z \in Int /\ x + y \in Int /\ y + z \in Int /\ Order \in Int /\ Order > 0
      /\ x >= 0 /\ x < Order
  BY OrderNat DEF Scalars
<1>1. Add(x, y) = Add(y, x)
  BY <1>0 DEF Add
<1>2. Add(Add(x, y), z) = (x + y + z) % Order
  BY <1>0, ReduceSum DEF Add
<1>3. Add(Add(y, z), x) = (y + z + x) % Order
  BY <1>0, ReduceSum DEF Add
<1>4. Add(x, Add(y, z)) = Add(Add(y, z), x)
  BY <1>0, Typed DEF Add, Scalars
<1>5. Add(x, 0) = x /\ Add(0, x) = x
  BY <1>0 DEF Add
<1>6. Add(x, Negate(x)) = (Order - x + x) % Order
  <2>1. Order - x \in Int
    BY <1>0
  <2>2. ((Order - x) % Order) \in Int
    BY <1>0
  <2>3. (((Order - x) % Order) + x) % Order = (Order - x + x) % Order
    BY <1>0, <2>1, ReduceSum
  <2> QED BY <1>0, <2>2, <2>3 DEF Add, Negate
<1>7. Add(x, Negate(x)) = 0
  BY <1>0, <1>6
<1> QED BY <1>1, <1>2, <1>3, <1>4, <1>5, <1>7, <1>0

\* The laws of multiplication.
LEMMA MultiplyLaws ==
  ASSUME NEW x \in Scalars, NEW y \in Scalars, NEW z \in Scalars
  PROVE  /\ Multiply(x, y) = Multiply(y, x) /\ Multiply(Multiply(x, y), z) = Multiply(x, Multiply(y, z))
         /\ Multiply(x, 1) = x /\ Multiply(1, x) = x /\ Multiply(x, 0) = 0 /\ Multiply(0, x) = 0
<1>0. x \in Int /\ y \in Int /\ z \in Int /\ x * y \in Int /\ y * z \in Int /\ Order \in Int /\ Order > 0
      /\ x >= 0 /\ x < Order
  BY OrderNat DEF Scalars
<1>1. x * y = y * x /\ x * 1 = x /\ 1 * x = x /\ x * 0 = 0 /\ 0 * x = 0
  BY <1>0
<1>2. Multiply(x, y) = Multiply(y, x)
  BY <1>1 DEF Multiply
<1>3. Multiply(Multiply(x, y), z) = ((x * y) * z) % Order
  BY <1>0, ReduceProduct DEF Multiply
<1>4. Multiply(Multiply(y, z), x) = ((y * z) * x) % Order
  BY <1>0, ReduceProduct DEF Multiply
<1>5. (x * y) * z = (y * z) * x
  BY <1>0
<1>6. Multiply(y, z) \in Scalars /\ Multiply(y, z) \in Int
  BY <1>0, Typed DEF Scalars
<1>7. Multiply(x, Multiply(y, z)) = Multiply(Multiply(y, z), x)
  <2> DEFINE w == Multiply(y, z)
  <2>1. w \in Int
    BY <1>6
  <2> HIDE DEF w
  <2>2. x * w = w * x
    BY <1>0, <2>1
  <2>3. Multiply(x, w) = Multiply(w, x)
    BY <2>2 DEF Multiply
  <2> QED BY <2>3 DEF w
<1>8. x % Order = x /\ 0 % Order = 0
  BY <1>0
<1> QED BY <1>1, <1>2, <1>3, <1>4, <1>5, <1>7, <1>8 DEF Multiply

\* Multiplication distributes over addition.
LEMMA Distribute ==
  ASSUME NEW x \in Scalars, NEW y \in Scalars, NEW z \in Scalars
  PROVE  Multiply(x, Add(y, z)) = Add(Multiply(x, y), Multiply(x, z))
<1>0. x \in Int /\ y \in Int /\ z \in Int /\ y + z \in Int /\ Order \in Int /\ Order > 0
  BY OrderNat DEF Scalars
<1>1. x * y \in Int /\ x * z \in Int /\ x * (y + z) = x * y + x * z /\ x * (y + z) = (y + z) * x
  BY <1>0
<1>2. ((x * y) % Order) \in Int /\ ((x * z) % Order) \in Int /\ ((y + z) % Order) \in Int
  BY <1>0, <1>1
<1>3. (((x * y) % Order) + ((x * z) % Order)) % Order = (x * y + x * z) % Order
  <2> DEFINE v == x * y
             w == x * z
  <2>1. v \in Int /\ w \in Int /\ (v % Order) \in Int /\ (w % Order) \in Int
    BY <1>1, <1>2
  <2> HIDE DEF v, w
  <2>2. ((v % Order) + (w % Order)) % Order = (v + (w % Order)) % Order
    BY <2>1, ReduceSum
  <2>3. ((w % Order) + v) % Order = (w + v) % Order
    BY <2>1, ReduceSum
  <2>4. ((v % Order) + (w % Order)) % Order = (v + w) % Order
    BY <2>1, <2>2, <2>3
  <2> QED BY <2>4 DEF v, w
<1>4. (((y + z) % Order) * x) % Order = ((y + z) * x) % Order
  BY <1>0, ReduceProduct
<1>5. x * ((y + z) % Order) = ((y + z) % Order) * x
  <2> DEFINE w == (y + z) % Order
  <2> HIDE DEF w
  <2>1. w \in Int
    BY <1>2 DEF w
  <2>2. x * w = w * x
    BY <1>0, <2>1
  <2> QED BY <2>2 DEF w
<1> QED BY <1>1, <1>3, <1>4, <1>5 DEF Add, Multiply

-----------------------------------------------------------------------------
(* Induction, as the absence of a least counterexample.                    *)

\* A set of natural numbers has a least element.
LEMMA LeastOf ==
  ASSUME NEW S, S \subseteq Nat, S # {}
  PROVE  \E x \in S : \A y \in S : x <= y
<1> DEFINE R == OpToRel(<, Nat)
<1>1. IsWellFoundedOn(R, Nat)
  BY NatLessThanWellFounded, Zenon
<1>2. ASSUME NEW i \in Nat, NEW j \in Nat, i < j PROVE <<i, j>> \in R
  BY <1>2 DEF OpToRel
<1> HIDE DEF R
<1>3. \E x \in S : \A y \in S : ~(<<y, x>> \in R)
  BY <1>1, WFMin, Zenon
<1>4. PICK x \in S : \A y \in S : ~(<<y, x>> \in R)
  BY <1>3, Zenon
<1>5. ASSUME NEW y \in S PROVE x <= y
  <2>1. x \in Nat /\ y \in Nat
    OBVIOUS
  <2>2. ~(y < x)
    BY <1>2, <1>4, <2>1, Zenon
  <2> QED
    BY <2>1, <2>2
<1> QED
  BY <1>5, Zenon

\* Induction over the natural numbers.
LEMMA EveryNat ==
  ASSUME NEW S, 0 \in S, \A n \in Nat : n \in S => n + 1 \in S
  PROVE  Nat \subseteq S
<1> SUFFICES ASSUME Nat \ S # {} PROVE FALSE
  OBVIOUS
<1>1. PICK x \in Nat \ S : \A y \in Nat \ S : x <= y
  BY LeastOf
<1>2. x # 0
  BY <1>1
<1>3. x - 1 \in Nat /\ x - 1 \in S
  BY <1>1, <1>2
<1> QED
  BY <1>1, <1>3

-----------------------------------------------------------------------------
(* Inverses: the order is prime.                                           *)

\* Every nonzero scalar has an inverse: the least multiple of it that is not
\* zero divides the order, which is prime.
LEMMA HasInverse ==
  ASSUME NEW a \in NonZero
  PROVE  Invert(a) \in NonZero /\ Multiply(a, Invert(a)) = 1
<1> DEFINE M == {d \in NonZero : \E b \in Int : (a * b) % Order = d}
<1>0. Order \in Int /\ Order > 2 /\ a \in Int /\ a >= 1 /\ a < Order
  BY OrderNat DEF NonZero
<1>1. a \in M
  <2>1. a * 1 = a /\ a % Order = a
    BY <1>0
  <2> QED BY <2>1
<1>2. PICK d \in M : \A y \in M : d <= y
  <2>1. NonZero \subseteq Nat
    BY <1>0 DEF NonZero
  <2>2. M \subseteq NonZero
    OBVIOUS
  <2> HIDE DEF M
  <2> QED BY <1>1, <2>1, <2>2, LeastOf
<1>3. PICK b \in Int : (a * b) % Order = d
  OBVIOUS
<1>4. d \in Nat /\ d > 0 /\ d < Order
  BY <1>0 DEF NonZero
<1> DEFINE q == Order \div d
           r == Order % d
<1>5. r \in 0..(d - 1) /\ q \in Int /\ Order = d * q + r
  BY <1>0, <1>4, Division
<1>6. r = 0
  <2> SUFFICES ASSUME r # 0 PROVE FALSE
    OBVIOUS
  <2> HIDE DEF q, r
  <2> DEFINE p == a * b
             k == p \div Order
  <2>1. p \in Int /\ k \in Int /\ p = Order * k + d
    BY <1>0, <1>3, OrderNat, Division
  <2> HIDE DEF k
  <2>2. b * (-q) \in Int /\ a * (b * (-q)) = p * (-q)
    BY <1>0, <1>5
  <2> HIDE DEF p
  <2>3. p * (-q) = Order * (k * (-q)) - d * q
    <3>1. (Order * k + d) * (-q) = Order * (k * (-q)) - d * q
      BY <1>0, <1>4, <1>5, <2>1
    <3> QED BY <2>1, <3>1
  <2>4. d * q = Order - r
    BY <1>0, <1>4, <1>5
  <2>5. k * (-q) \in Int
    BY <1>5, <2>1
  <2>6. p * (-q) = Order * (k * (-q) - 1) + r
    <3> DEFINE w == k * (-q)
    <3>1. w \in Int /\ p * (-q) = Order * w - (Order - r)
      BY <2>3, <2>4, <2>5
    <3> HIDE DEF w
    <3>2. Order * (w - 1) = Order * w - Order
      BY <1>0, <3>1
    <3>3. Order * w \in Int
      BY <1>0, <3>1
    <3>4. p * (-q) = Order * (w - 1) + r
      BY <1>0, <1>4, <1>5, <3>1, <3>2, <3>3
    <3> QED BY <3>4 DEF w
  <2>7. r \in 0..(Order - 1) /\ r \in NonZero
    BY <1>0, <1>4, <1>5 DEF NonZero
  <2>8. k * (-q) - 1 \in Int
    BY <2>5
  <2>9. (a * (b * (-q))) % Order = r
    <3> DEFINE w == k * (-q) - 1
    <3>1. (Order * w + r) % Order = r
      <4> HIDE DEF w
      <4>1. w \in Int
        BY <2>8 DEF w
      <4> QED BY <2>7, <4>1, OrderNat, Remainder
    <3> QED BY <2>2, <2>6, <3>1
  <2>10. r \in M
    <3> DEFINE w == b * (-q)
    <3>1. w \in Int /\ (a * w) % Order = r
      BY <2>2, <2>9
    <3> HIDE DEF w
    <3> QED BY <2>7, <3>1
  <2>11. ~(d <= r)
    BY <1>4, <1>5
  <2> HIDE DEF M
  <2> QED BY <1>2, <2>10, <2>11
<1>7. d = 1
  BY <1>4, <1>6, <1>0, OrderAssumption
<1>8. (b % Order) \in 0..(Order - 1) /\ (b % Order) \in Int
  BY OrderNat, Division
<1> DEFINE c == b % Order
<1>9. (c * a) % Order = 1
  <2>1. (c * a) % Order = (b * a) % Order
    BY <1>0, ReduceProduct
  <2>2. b * a = a * b
    BY <1>0
  <2> QED BY <1>3, <1>7, <2>1, <2>2
<1> HIDE DEF c
<1>10. c \in 0..(Order - 1) /\ c \in Int
  BY <1>8 DEF c
<1>11. c # 0
  <2>1. 0 * a = 0 /\ 0 % Order = 0
    BY <1>0
  <2> QED BY <1>9, <2>1
<1>12. c \in NonZero /\ Multiply(a, c) = 1
  <2>1. a * c = c * a
    BY <1>0, <1>10
  <2> QED BY <1>9, <1>10, <1>11, <2>1 DEF NonZero, Multiply
<1> QED BY <1>12 DEF Invert

\* A factor that is not zero cancels.
LEMMA Cancel ==
  ASSUME NEW a \in NonZero, NEW x \in Scalars, NEW y \in Scalars, Multiply(a, x) = Multiply(a, y)
  PROVE  x = y
<1> DEFINE b == Invert(a)
<1>1. a \in Scalars /\ b \in Scalars /\ Multiply(a, b) = 1
  BY HasInverse DEF NonZero, Scalars
<1> HIDE DEF b
<1>2. Multiply(b, Multiply(a, x)) = x
  BY <1>1, MultiplyLaws
<1>3. Multiply(b, Multiply(a, y)) = y
  BY <1>1, MultiplyLaws
<1> QED BY <1>2, <1>3

\* There are no divisors of zero.
LEMMA ProductNonZero ==
  ASSUME NEW a \in NonZero, NEW b \in NonZero
  PROVE  Multiply(a, b) \in NonZero
<1>1. a \in Scalars /\ b \in Scalars /\ 0 \in Scalars /\ b # 0
  BY OrderNat DEF NonZero, Scalars
<1>2. Multiply(a, 0) = 0
  BY <1>1, MultiplyLaws
<1>3. Multiply(a, b) # 0
  BY <1>1, <1>2, Cancel
<1> QED BY <1>1, <1>3, Typed DEF NonZero, Scalars

\* Of two inverses there is one.
LEMMA InverseIs ==
  ASSUME NEW a \in NonZero, NEW b \in Scalars, Multiply(a, b) = 1
  PROVE  Invert(a) = b
BY HasInverse, Cancel DEF NonZero, Scalars

\* Differences.
LEMMA SubtractLaws ==
  ASSUME NEW x \in Scalars, NEW y \in Scalars, NEW z \in Scalars
  PROVE  /\ Add(Subtract(x, y), y) = x
         /\ Subtract(x, y) = 0 => x = y
         /\ x # y => Subtract(x, y) \in NonZero
         /\ Subtract(x, x) = 0
         /\ Add(x, y) = Add(x, z) => y = z
         /\ Multiply(z, Subtract(x, y)) = Subtract(Multiply(z, x), Multiply(z, y))
<1>0. /\ 0 \in Scalars /\ Negate(x) \in Scalars /\ Negate(y) \in Scalars /\ Negate(Multiply(z, y)) \in Scalars
      /\ Multiply(z, x) \in Scalars /\ Multiply(z, y) \in Scalars /\ Multiply(z, Negate(y)) \in Scalars
  <2>1. 0 \in Scalars
    BY OrderNat DEF Scalars
  <2>2. Negate(x) \in Scalars /\ Negate(y) \in Scalars /\ Multiply(z, x) \in Scalars /\ Multiply(z, y) \in Scalars
    BY Typed
  <2>3. Negate(Multiply(z, y)) \in Scalars /\ Multiply(z, Negate(y)) \in Scalars
    BY <2>2, Typed
  <2> QED BY <2>1, <2>2, <2>3
<1>1. Subtract(x, y) \in Scalars
  BY Typed
<1>2. Add(Negate(y), y) = 0 /\ Add(Negate(x), x) = 0
  BY <1>0, AddLaws
<1>3. Add(Subtract(x, y), y) = x
  <2>1. Add(Add(x, Negate(y)), y) = Add(x, Add(Negate(y), y))
    BY <1>0, AddLaws
  <2> QED BY <1>2, <2>1, AddLaws DEF Subtract
<1>4. Subtract(x, y) = 0 => x = y
  BY <1>3, AddLaws
<1>5. Subtract(x, x) = 0
  BY AddLaws DEF Subtract
<1>6. Add(x, y) = Add(x, z) => y = z
  <2>1. Add(Negate(x), Add(x, y)) = y
    <3>1. Add(Add(Negate(x), x), y) = Add(Negate(x), Add(x, y))
      BY <1>0, AddLaws
    <3> QED BY <1>2, <3>1, AddLaws
  <2>2. Add(Negate(x), Add(x, z)) = z
    <3>1. Add(Add(Negate(x), x), z) = Add(Negate(x), Add(x, z))
      BY <1>0, AddLaws
    <3> QED BY <1>2, <3>1, AddLaws
  <2> QED BY <2>1, <2>2
<1>7. Add(Multiply(z, y), Multiply(z, Negate(y))) = 0
  BY <1>0, Distribute, AddLaws, MultiplyLaws
<1>8. Multiply(z, Negate(y)) = Negate(Multiply(z, y))
  <2> DEFINE u == Multiply(z, y)
             v == Multiply(z, Negate(y))
  <2>1. u \in Scalars /\ v \in Scalars /\ Negate(u) \in Scalars /\ Add(u, v) = 0
    BY <1>0, <1>7
  <2> HIDE DEF u, v
  <2>2. Add(Negate(u), Add(u, v)) = v
    <3>1. Add(Add(Negate(u), u), v) = Add(Negate(u), Add(u, v))
      BY <2>1, AddLaws
    <3> QED BY <2>1, <3>1, AddLaws
  <2>3. Negate(u) = v
    BY <2>1, <2>2, AddLaws
  <2> QED BY <2>3 DEF u, v
<1>9. Multiply(z, Subtract(x, y)) = Subtract(Multiply(z, x), Multiply(z, y))
  BY <1>0, <1>8, Distribute DEF Subtract
<1> QED BY <1>1, <1>3, <1>4, <1>5, <1>6, <1>9 DEF NonZero, Scalars
-----------------------------------------------------------------------------
(* Sums and products over a finite set.                                    *)

\* The folds of the model: a sum or a product.
Combine(what, x, y) == IF what = "sum" THEN Add(x, y) ELSE Multiply(x, y)
Neutral(what) == IF what = "sum" THEN 0 ELSE 1
Some(s) == CHOOSE x \in s : TRUE

Folded(what, A, s, g) == IF s = {} THEN Neutral(what) ELSE Combine(what, A[Some(s)], g[s \ {Some(s)}])
IsFold(what, A, D, g) == g = [s \in SUBSET D |-> Folded(what, A, s, g)]

\* Induction over the subsets of a finite set.
LEMMA EveryPart ==
  ASSUME NEW D, IsFiniteSet(D), NEW F,
         \A s \in SUBSET D : (\A x \in s : s \ {x} \in F) => s \in F
  PROVE  \A s \in SUBSET D : s \in F
<1> SUFFICES ASSUME NEW bad \in SUBSET D, bad \notin F PROVE FALSE
  OBVIOUS
<1> DEFINE M == {k \in Nat : \E s \in SUBSET D : s \notin F /\ Cardinality(s) = k}
<1>1. Cardinality(bad) \in M
  BY FS_Subset, FS_CardinalityType
<1>2. PICK k \in M : \A y \in M : k <= y
  BY <1>1, LeastOf
<1>3. PICK s \in SUBSET D : s \notin F /\ Cardinality(s) = k
  OBVIOUS
<1>4. PICK x \in s : s \ {x} \notin F
  BY <1>3
<1> DEFINE t == s \ {x}
<1>5. t \in SUBSET D /\ t \notin F
  BY <1>4
<1>6. IsFiniteSet(s)
  BY <1>3, FS_Subset
<1>7. Cardinality(t) = k - 1 /\ k - 1 \in Nat
  <2>1. Cardinality(s) \in Nat /\ Cardinality(t) \in Nat /\ Cardinality(t) = Cardinality(s) - 1
    BY <1>4, <1>6, FS_RemoveElement, FS_CardinalityType
  <2> QED BY <1>3, <2>1
<1>8. k - 1 \in M
  BY <1>5, <1>7
<1> QED
  BY <1>2, <1>8

\* The recursion has a solution, by the sizes of the subsets.
LEMMA FoldExists ==
  ASSUME NEW what, NEW A, NEW D, IsFiniteSet(D)
  PROVE  \E g : IsFold(what, A, D, g)
<1> DEFINE Upto(k) == {s \in SUBSET D : Cardinality(s) <= k}
           Solves(k, g) == g = [s \in Upto(k) |-> Folded(what, A, s, g)]
           S == {k \in Nat : \E g : Solves(k, g)}
<1>0. \A s \in SUBSET D : /\ IsFiniteSet(s) /\ Cardinality(s) \in Nat /\ (Cardinality(s) = 0 <=> s = {})
                          /\ s # {} => /\ Some(s) \in s /\ s \ {Some(s)} \in SUBSET D
                                       /\ Cardinality(s \ {Some(s)}) = Cardinality(s) - 1
  <2> SUFFICES ASSUME NEW s \in SUBSET D
               PROVE  /\ IsFiniteSet(s) /\ Cardinality(s) \in Nat /\ (Cardinality(s) = 0 <=> s = {})
                      /\ s # {} => /\ Some(s) \in s /\ s \ {Some(s)} \in SUBSET D
                                   /\ Cardinality(s \ {Some(s)}) = Cardinality(s) - 1
    OBVIOUS
  <2>1. IsFiniteSet(s) /\ Cardinality(s) \in Nat /\ (Cardinality(s) = 0 <=> s = {})
    BY FS_Subset, FS_CardinalityType, FS_EmptySet
  <2>2. s # {} => Some(s) \in s
    BY DEF Some
  <2>3. s # {} => Cardinality(s \ {Some(s)}) = Cardinality(s) - 1
    BY <2>1, <2>2, FS_RemoveElement
  <2> QED BY <2>1, <2>2, <2>3
<1>1. 0 \in S
  <2> DEFINE h == [s \in Upto(0) |-> Neutral(what)]
  <2>1. ASSUME NEW s \in Upto(0) PROVE s = {}
    <3>1. s \in SUBSET D /\ Cardinality(s) <= 0
      OBVIOUS
    <3>2. Cardinality(s) \in Nat
      BY <1>0, <3>1
    <3>3. Cardinality(s) = 0
      BY <3>1, <3>2
    <3> QED BY <1>0, <3>1, <3>3
  <2>2. Solves(0, h)
    BY <2>1 DEF Folded
  <2> HIDE DEF Solves, h
  <2> QED BY <2>2
<1>2. ASSUME NEW k \in Nat, k \in S PROVE k + 1 \in S
  <2>1. PICK g : Solves(k, g)
    BY <1>2
  <2> DEFINE h == [s \in Upto(k + 1) |-> Folded(what, A, s, g)]
  <2>2. \A s \in Upto(k) : h[s] = g[s]
    <3>1. ASSUME NEW s \in Upto(k) PROVE s \in Upto(k + 1)
      <4>1. s \in SUBSET D /\ Cardinality(s) <= k
        OBVIOUS
      <4>2. Cardinality(s) \in Nat
        BY <1>0, <4>1
      <4>3. Cardinality(s) <= k + 1
        BY <4>1, <4>2
      <4> QED BY <4>1, <4>3
    <3>2. \A s \in Upto(k) : g[s] = Folded(what, A, s, g)
      BY <2>1
    <3> QED BY <3>1, <3>2
  <2>3. ASSUME NEW s \in Upto(k + 1), s # {} PROVE s \ {Some(s)} \in Upto(k)
    <3>1. s \in SUBSET D /\ Cardinality(s) <= k + 1
      OBVIOUS
    <3>2. Cardinality(s) \in Nat /\ s \ {Some(s)} \in SUBSET D /\ Cardinality(s \ {Some(s)}) = Cardinality(s) - 1
      BY <1>0, <2>3, <3>1
    <3>3. Cardinality(s \ {Some(s)}) <= k
      BY <3>1, <3>2
    <3> QED BY <3>2, <3>3
  <2>4. \A s \in Upto(k + 1) : Folded(what, A, s, g) = Folded(what, A, s, h)
    BY <2>2, <2>3 DEF Folded
  <2>5. Solves(k + 1, h)
    BY <2>4
  <2> HIDE DEF Solves, h
  <2> QED BY <2>5
<1>3. Cardinality(D) \in S
  <2> HIDE DEF S
  <2>1. Nat \subseteq S
    BY <1>1, <1>2, EveryNat
  <2> QED BY <1>0, <2>1
<1>4. PICK g : Solves(Cardinality(D), g)
  BY <1>3
<1>5. Upto(Cardinality(D)) = SUBSET D
  <2>1. \A s \in SUBSET D : Cardinality(s) <= Cardinality(D)
    BY FS_Subset
  <2> QED BY <2>1
<1> QED BY <1>4, <1>5 DEF IsFold

\* Two folds agree where their values do.
LEMMA FoldSame ==
  ASSUME NEW what, NEW A, NEW D, IsFiniteSet(D), NEW g, IsFold(what, A, D, g),
         NEW B, NEW E, NEW h, IsFold(what, B, E, h), E \subseteq D,
         \A x \in E : A[x] = B[x]
  PROVE  g[E] = h[E]
<1> DEFINE F == {s \in SUBSET E : g[s] = h[s]}
<1>1. IsFiniteSet(E)
  BY FS_Subset
<1>2. ASSUME NEW s \in SUBSET E, \A x \in s : s \ {x} \in F PROVE s \in F
  <2>1. g[s] = Folded(what, A, s, g) /\ h[s] = Folded(what, B, s, h)
    BY DEF IsFold
  <2>2. CASE s = {}
    BY <2>1, <2>2 DEF Folded
  <2>3. CASE s # {}
    <3>1. Some(s) \in s
      BY <2>3 DEF Some
    <3>2. A[Some(s)] = B[Some(s)] /\ g[s \ {Some(s)}] = h[s \ {Some(s)}]
      BY <1>2, <3>1
    <3> QED BY <2>1, <2>3, <3>2 DEF Folded
  <2> QED BY <2>2, <2>3
<1>3. E \in F
  <2> HIDE DEF F
  <2> QED BY <1>1, <1>2, EveryPart
<1> QED BY <1>3

\* Both operations stay in the field,
LEMMA CombineTypes ==
  ASSUME NEW what
  PROVE  Neutral(what) \in Scalars /\ \A x, y \in Scalars : Combine(what, x, y) \in Scalars
<1>1. 0 \in Scalars /\ 1 \in Scalars
  BY OrderNat DEF Scalars
<1> QED BY <1>1, Typed DEF Combine, Neutral

\* and their operands may be taken in any order.
LEMMA CombineLaws ==
  ASSUME NEW what, NEW x \in Scalars, NEW y \in Scalars, NEW z \in Scalars
  PROVE  Combine(what, x, Combine(what, y, z)) = Combine(what, y, Combine(what, x, z))
<1>2. Add(x, Add(y, z)) = Add(y, Add(x, z))
  BY AddLaws
<1>3. Multiply(x, Multiply(y, z)) = Multiply(y, Multiply(x, z))
  BY MultiplyLaws
<1> QED BY <1>2, <1>3 DEF Combine

\* Any element may come first.
LEMMA FoldAny ==
  ASSUME NEW what, NEW D, IsFiniteSet(D), NEW A \in [D -> Scalars], NEW g, IsFold(what, A, D, g)
  PROVE  g[D] \in Scalars /\ \A i \in D : g[D] = Combine(what, A[i], g[D \ {i}])
<1>0. \A s \in SUBSET D : g[s] \in Scalars
  <2> DEFINE F == {s \in SUBSET D : g[s] \in Scalars}
  <2>1. ASSUME NEW s \in SUBSET D, \A x \in s : s \ {x} \in F PROVE s \in F
    <3>1. g[s] = Folded(what, A, s, g)
      BY DEF IsFold
    <3>2. CASE s = {}
      BY <3>1, <3>2, CombineTypes DEF Folded
    <3>3. CASE s # {}
      <4>1. Some(s) \in s
        BY <3>3 DEF Some
      <4> DEFINE u == A[Some(s)]
                 v == g[s \ {Some(s)}]
      <4>2. u \in Scalars /\ v \in Scalars
        <5>1. Some(s) \in D /\ s \ {Some(s)} \in F
          BY <2>1, <4>1
        <5> QED BY <5>1
      <4>3. g[s] = Combine(what, u, v)
        BY <3>1, <3>3 DEF Folded
      <4> HIDE DEF u, v
      <4>4. Combine(what, u, v) \in Scalars
        BY <4>2, CombineTypes
      <4>5. g[s] \in Scalars
        BY <4>3, <4>4
      <4> QED BY <4>5
    <3> QED BY <3>2, <3>3
  <2>2. \A s \in SUBSET D : s \in F
    <3> HIDE DEF F
    <3> QED BY <2>1, EveryPart
  <2> QED BY <2>2
<1> DEFINE F == {s \in SUBSET D : \A i \in s : g[s] = Combine(what, A[i], g[s \ {i}])}
<1>1. ASSUME NEW s \in SUBSET D, \A x \in s : s \ {x} \in F PROVE s \in F
  <2>0. g[s] = Folded(what, A, s, g)
    BY DEF IsFold
  <2>1. CASE s = {}
    <3>1. \A i \in s : FALSE
      BY <2>1
    <3> QED BY <3>1
  <2>2. CASE s # {}
    <3> DEFINE c == Some(s)
    <3>1. c \in s
      BY <2>2 DEF Some
    <3>2. g[s] = Combine(what, A[c], g[s \ {c}])
      BY <2>0, <2>2 DEF Folded
    <3> HIDE DEF c
    <3>4. ASSUME NEW i \in s, i # c PROVE g[s] = Combine(what, A[i], g[s \ {i}])
      <4> DEFINE w == g[(s \ {c}) \ {i}]
      <4>1. (s \ {c}) \ {i} = (s \ {i}) \ {c}
        OBVIOUS
      <4>2. g[s \ {c}] = Combine(what, A[i], w)
        BY <1>1, <3>1, <3>4
      <4>3. g[s \ {i}] = Combine(what, A[c], w)
        BY <1>1, <3>1, <3>4, <4>1
      <4>4. w \in Scalars
        BY <1>0
      <4>5. A[c] \in Scalars /\ A[i] \in Scalars
        BY <3>1
      <4> DEFINE u == A[c]
                 v == A[i]
      <4>6. g[s] = Combine(what, u, Combine(what, v, w))
        BY <3>2, <4>2
      <4>7. g[s \ {i}] = Combine(what, u, w)
        BY <4>3
      <4> HIDE DEF u, v, w
      <4>8. Combine(what, u, Combine(what, v, w)) = Combine(what, v, Combine(what, u, w))
        BY <4>4, <4>5, CombineLaws DEF u, v
      <4> QED BY <4>6, <4>7, <4>8 DEF v
    <3>5. \A i \in s : g[s] = Combine(what, A[i], g[s \ {i}])
      BY <3>2, <3>4
    <3> QED BY <3>5
  <2> QED BY <2>1, <2>2
<1>2. \A s \in SUBSET D : s \in F
  <2> HIDE DEF F
  <2> QED BY <1>1, EveryPart
<1>3. D \in SUBSET D
  OBVIOUS
<1> QED BY <1>0, <1>2, <1>3

Total(what, A) == IF what = "sum" THEN SumOf(A) ELSE ProductOf(A)

\* The sum and the product of the model are such folds.
LEMMA TotalIs ==
  ASSUME NEW what \in {"sum", "product"}, NEW A
  PROVE  Total(what, A) = (CHOOSE g : IsFold(what, A, DOMAIN A, g))[DOMAIN A]
<1> DEFINE Sums(g) == g = [s \in SUBSET DOMAIN A |-> IF s = {} THEN 0 ELSE Add(A[Some(s)], g[s \ {Some(s)}])]
           Products(g) == g = [s \in SUBSET DOMAIN A |-> IF s = {} THEN 1 ELSE Multiply(A[Some(s)], g[s \ {Some(s)}])]
<1>1. SumOf(A) = (CHOOSE g : Sums(g))[DOMAIN A]
  BY Zenon DEF SumOf, FoldFunction, FoldFunctionOnSet, MapThenFoldSet, Some
<1>2. ProductOf(A) = (CHOOSE g : Products(g))[DOMAIN A]
  BY Zenon DEF ProductOf, FoldFunction, FoldFunctionOnSet, MapThenFoldSet, Some
<1>3. CASE what = "sum"
  <2>1. \A g : \A s \in SUBSET DOMAIN A :
          Folded(what, A, s, g) = IF s = {} THEN 0 ELSE Add(A[Some(s)], g[s \ {Some(s)}])
    BY <1>3 DEF Folded, Neutral, Combine
  <2>2. \A g : Sums(g) <=> IsFold(what, A, DOMAIN A, g)
    BY <2>1 DEF IsFold
  <2> HIDE DEF Sums
  <2>3. (CHOOSE g : Sums(g)) = (CHOOSE g : IsFold(what, A, DOMAIN A, g))
    BY <2>2
  <2> QED BY <1>1, <1>3, <2>3 DEF Total
<1>4. CASE what = "product"
  <2>1. \A g : \A s \in SUBSET DOMAIN A :
          Folded(what, A, s, g) = IF s = {} THEN 1 ELSE Multiply(A[Some(s)], g[s \ {Some(s)}])
    BY <1>4 DEF Folded, Neutral, Combine
  <2>2. \A g : Products(g) <=> IsFold(what, A, DOMAIN A, g)
    BY <2>1 DEF IsFold
  <2> HIDE DEF Products
  <2>3. (CHOOSE g : Products(g)) = (CHOOSE g : IsFold(what, A, DOMAIN A, g))
    BY <2>2
  <2> QED BY <1>2, <1>4, <2>3 DEF Total
<1> QED BY <1>3, <1>4

\* One term may be taken out, whichever.
LEMMA TotalLaws ==
  ASSUME NEW what \in {"sum", "product"}, NEW D, IsFiniteSet(D), NEW A \in [D -> Scalars]
  PROVE  /\ Total(what, A) \in Scalars
         /\ D = {} => Total(what, A) = Neutral(what)
         /\ \A i \in D : Total(what, A) = Combine(what, A[i], Total(what, [j \in D \ {i} |-> A[j]]))
<1>1. DOMAIN A = D /\ \A x \in D : A[x] \in Scalars
  OBVIOUS
<1>2. \E g : IsFold(what, A, D, g) /\ Total(what, A) = g[D]
  <2>1. IsFold(what, A, D, CHOOSE v : IsFold(what, A, D, v))
    BY FoldExists
  <2> QED BY <1>1, <2>1, TotalIs
<1>3. PICK g : IsFold(what, A, D, g) /\ Total(what, A) = g[D]
  BY <1>2
<1>4. Total(what, A) \in Scalars /\ \A i \in D : g[D] = Combine(what, A[i], g[D \ {i}])
  <2>1. g[D] \in Scalars
    BY <1>1, <1>3, FoldAny
  <2>2. \A i \in D : g[D] = Combine(what, A[i], g[D \ {i}])
    BY <1>1, <1>3, FoldAny
  <2> QED BY <1>3, <2>1, <2>2
<1>5. D = {} => Total(what, A) = Neutral(what)
  BY <1>3 DEF IsFold, Folded
<1>6. ASSUME NEW i \in D PROVE Total(what, A) = Combine(what, A[i], Total(what, [j \in D \ {i} |-> A[j]]))
  <2> DEFINE E == D \ {i}
             B == [j \in E |-> A[j]]
             h == CHOOSE v : IsFold(what, B, E, v)
  <2>1. IsFiniteSet(E) /\ DOMAIN B = E /\ E \subseteq D
    BY FS_RemoveElement
  <2>2. \A x \in E : A[x] = B[x]
    OBVIOUS
  <2> HIDE DEF B, E
  <2>3. IsFold(what, B, E, h)
    BY <2>1, FoldExists
  <2>4. Total(what, B) = h[E]
    BY <2>1, TotalIs
  <2> HIDE DEF h
  <2>5. g[E] = h[E]
    BY <1>3, <2>1, <2>2, <2>3, FoldSame
  <2>6. Total(what, A) = Combine(what, A[i], Total(what, B))
    BY <1>3, <1>4, <2>4, <2>5 DEF E
  <2> QED BY <2>6 DEF B, E
<1> QED BY <1>4, <1>5, <1>6

\* A sum: its type, the empty one, and any term set apart.
LEMMA SumLaws ==
  ASSUME NEW D, IsFiniteSet(D), NEW A \in [D -> Scalars]
  PROVE  /\ SumOf(A) \in Scalars
         /\ D = {} => SumOf(A) = 0
         /\ \A i \in D : SumOf(A) = Add(A[i], SumOf([j \in D \ {i} |-> A[j]]))
<1>1. /\ Total("sum", A) \in Scalars
      /\ D = {} => Total("sum", A) = Neutral("sum")
      /\ \A i \in D : Total("sum", A) = Combine("sum", A[i], Total("sum", [j \in D \ {i} |-> A[j]]))
  BY TotalLaws
<1>2. (\A B : Total("sum", B) = SumOf(B)) /\ (\A x, y : Combine("sum", x, y) = Add(x, y)) /\ Neutral("sum") = 0
  BY DEF Total, Combine, Neutral
<1> QED BY <1>1, <1>2, Zenon

\* The same, for products.
LEMMA ProductLaws ==
  ASSUME NEW D, IsFiniteSet(D), NEW A \in [D -> Scalars]
  PROVE  /\ ProductOf(A) \in Scalars
         /\ D = {} => ProductOf(A) = 1
         /\ \A i \in D : ProductOf(A) = Multiply(A[i], ProductOf([j \in D \ {i} |-> A[j]]))
<1>1. /\ Total("product", A) \in Scalars
      /\ D = {} => Total("product", A) = Neutral("product")
      /\ \A i \in D : Total("product", A) = Combine("product", A[i], Total("product", [j \in D \ {i} |-> A[j]]))
  BY TotalLaws
<1>2. (\A B : Total("product", B) = ProductOf(B)) /\ (\A x, y : Combine("product", x, y) = Multiply(x, y))
      /\ Neutral("product") = 1
  BY DEF Total, Combine, Neutral
<1> QED BY <1>1, <1>2, Zenon

\* Over a part of the domain.
SumOver(A, s) == SumOf([j \in s |-> A[j]])
ProductOver(A, s) == ProductOf([j \in s |-> A[j]])

\* Sums and products over a part of the domain.
LEMMA OverLaws ==
  ASSUME NEW D, IsFiniteSet(D), NEW A \in [D -> Scalars]
  PROVE  /\ SumOver(A, D) = SumOf(A) /\ ProductOver(A, D) = ProductOf(A)
         /\ SumOver(A, {}) = 0 /\ ProductOver(A, {}) = 1
         /\ \A s \in SUBSET D : /\ SumOver(A, s) \in Scalars /\ ProductOver(A, s) \in Scalars
                                /\ \A c \in s : /\ SumOver(A, s) = Add(A[c], SumOver(A, s \ {c}))
                                                /\ ProductOver(A, s) = Multiply(A[c], ProductOver(A, s \ {c}))
<1>1. [j \in D |-> A[j]] = A
  OBVIOUS
<1>2. ASSUME NEW s \in SUBSET D
      PROVE  /\ SumOver(A, s) \in Scalars /\ ProductOver(A, s) \in Scalars
             /\ s = {} => SumOver(A, s) = 0 /\ ProductOver(A, s) = 1
             /\ \A c \in s : /\ SumOver(A, s) = Add(A[c], SumOver(A, s \ {c}))
                             /\ ProductOver(A, s) = Multiply(A[c], ProductOver(A, s \ {c}))
  <2> DEFINE B == [j \in s |-> A[j]]
  <2>1. IsFiniteSet(s) /\ B \in [s -> Scalars]
    BY FS_Subset
  <2>2. \A c \in s : B[c] = A[c] /\ [j \in s \ {c} |-> B[j]] = [j \in s \ {c} |-> A[j]]
    OBVIOUS
  <2> HIDE DEF B
  <2>3. /\ SumOf(B) \in Scalars
        /\ s = {} => SumOf(B) = 0
        /\ \A i \in s : SumOf(B) = Add(B[i], SumOf([j \in s \ {i} |-> B[j]]))
    BY <2>1, SumLaws
  <2>4. /\ ProductOf(B) \in Scalars
        /\ s = {} => ProductOf(B) = 1
        /\ \A i \in s : ProductOf(B) = Multiply(B[i], ProductOf([j \in s \ {i} |-> B[j]]))
    BY <2>1, ProductLaws
  <2>5. SumOver(A, s) = SumOf(B) /\ ProductOver(A, s) = ProductOf(B)
    BY DEF B, SumOver, ProductOver
  <2>6. \A c \in s : /\ SumOf([j \in s \ {c} |-> B[j]]) = SumOver(A, s \ {c})
                     /\ ProductOf([j \in s \ {c} |-> B[j]]) = ProductOver(A, s \ {c})
    BY <2>2, Zenon DEF SumOver, ProductOver
  <2>7. \A c \in s : SumOf(B) = Add(A[c], SumOver(A, s \ {c}))
    BY <2>2, <2>3, <2>6
  <2>8. \A c \in s : ProductOf(B) = Multiply(A[c], ProductOver(A, s \ {c}))
    BY <2>2, <2>4, <2>6
  <2> QED BY <2>3, <2>4, <2>5, <2>7, <2>8
<1>3. SumOver(A, D) = SumOf(A) /\ ProductOver(A, D) = ProductOf(A)
  BY <1>1 DEF SumOver, ProductOver
<1>4. {} \in SUBSET D
  OBVIOUS
<1> QED BY <1>2, <1>3, <1>4

\* Sums are linear.
LEMMA SumAdd ==
  ASSUME NEW D, IsFiniteSet(D), NEW A \in [D -> Scalars], NEW B \in [D -> Scalars]
  PROVE  SumOf([i \in D |-> Add(A[i], B[i])]) = Add(SumOf(A), SumOf(B))
<1> DEFINE E == [i \in D |-> Add(A[i], B[i])]
           F == {s \in SUBSET D : SumOver(E, s) = Add(SumOver(A, s), SumOver(B, s))}
<1>0. E \in [D -> Scalars] /\ \A i \in D : E[i] = Add(A[i], B[i])
  BY Typed
<1> HIDE DEF E
<1>1. ASSUME NEW s \in SUBSET D, \A x \in s : s \ {x} \in F PROVE s \in F
  <2>1. CASE s = {}
    <3>1. SumOver(E, s) = 0 /\ SumOver(A, s) = 0 /\ SumOver(B, s) = 0
      BY <1>0, <2>1, OverLaws
    <3>2. Add(0, 0) = 0
      BY OrderNat, AddLaws DEF Scalars
    <3> QED BY <3>1, <3>2
  <2>2. CASE s # {}
    <3>1. PICK c \in s : TRUE
      BY <2>2
    <3> DEFINE t == s \ {c}
    <3>2. t \in SUBSET D /\ t \in F
      BY <1>1, <3>1
    <3>3. /\ SumOver(E, s) = Add(E[c], SumOver(E, t)) /\ SumOver(A, s) = Add(A[c], SumOver(A, t))
          /\ SumOver(B, s) = Add(B[c], SumOver(B, t))
      BY <1>0, <3>1, OverLaws
    <3>4. SumOver(A, t) \in Scalars /\ SumOver(B, t) \in Scalars
      BY <3>2, OverLaws
    <3>5. c \in D /\ A[c] \in Scalars /\ B[c] \in Scalars
      BY <3>1
    <3>6. SumOver(E, t) = Add(SumOver(A, t), SumOver(B, t)) /\ E[c] = Add(A[c], B[c])
      BY <1>0, <3>2, <3>5
    <3> DEFINE a == A[c]
               b == B[c]
               u == SumOver(A, t)
               v == SumOver(B, t)
    <3> HIDE DEF a, b, u, v
    <3>7. a \in Scalars /\ b \in Scalars /\ u \in Scalars /\ v \in Scalars
      BY <3>4, <3>5 DEF a, b, u, v
    <3>8. Add(Add(a, b), Add(u, v)) = Add(Add(a, u), Add(b, v))
      <4>1. Add(a, b) \in Scalars /\ Add(u, v) \in Scalars /\ Add(b, v) \in Scalars /\ Add(b, Add(u, v)) \in Scalars
        BY <3>7, Typed
      <4>2. Add(Add(a, b), Add(u, v)) = Add(a, Add(b, Add(u, v)))
        BY <3>7, <4>1, AddLaws
      <4>3. Add(b, Add(u, v)) = Add(u, Add(b, v))
        <5>1. Add(b, Add(u, v)) = Add(Add(b, u), v) /\ Add(u, Add(b, v)) = Add(Add(u, b), v) /\ Add(b, u) = Add(u, b)
          BY <3>7, AddLaws
        <5> QED BY <5>1
      <4>4. Add(a, Add(u, Add(b, v))) = Add(Add(a, u), Add(b, v))
        BY <3>7, <4>1, AddLaws
      <4> QED BY <4>2, <4>3, <4>4
    <3>9. SumOver(E, s) = Add(SumOver(A, s), SumOver(B, s))
      BY <3>3, <3>6, <3>8 DEF a, b, u, v
    <3> QED BY <3>9
  <2> QED BY <2>1, <2>2
<1>2. D \in F
  <2>1. D \in SUBSET D
    OBVIOUS
  <2> HIDE DEF F
  <2> QED BY <1>1, <2>1, EveryPart
<1>3. SumOver(E, D) = Add(SumOver(A, D), SumOver(B, D))
  BY <1>2
<1> QED BY <1>0, <1>3, OverLaws DEF E

\* A common factor may be taken out of a sum.
LEMMA SumScale ==
  ASSUME NEW D, IsFiniteSet(D), NEW A \in [D -> Scalars], NEW m \in Scalars
  PROVE  SumOf([i \in D |-> Multiply(m, A[i])]) = Multiply(m, SumOf(A))
<1> DEFINE E == [i \in D |-> Multiply(m, A[i])]
           F == {s \in SUBSET D : SumOver(E, s) = Multiply(m, SumOver(A, s))}
<1>0. E \in [D -> Scalars] /\ \A i \in D : E[i] = Multiply(m, A[i])
  BY Typed
<1> HIDE DEF E
<1>1. ASSUME NEW s \in SUBSET D, \A x \in s : s \ {x} \in F PROVE s \in F
  <2>1. CASE s = {}
    <3>1. SumOver(E, s) = 0 /\ SumOver(A, s) = 0
      BY <1>0, <2>1, OverLaws
    <3>2. Multiply(m, 0) = 0
      BY MultiplyLaws
    <3> QED BY <3>1, <3>2
  <2>2. CASE s # {}
    <3>1. PICK c \in s : TRUE
      BY <2>2
    <3> DEFINE t == s \ {c}
    <3>2. t \in SUBSET D /\ t \in F
      BY <1>1, <3>1
    <3>3. SumOver(E, s) = Add(E[c], SumOver(E, t)) /\ SumOver(A, s) = Add(A[c], SumOver(A, t))
      BY <1>0, <3>1, OverLaws
    <3>4. SumOver(A, t) \in Scalars /\ A[c] \in Scalars /\ c \in D
      BY <3>1, <3>2, OverLaws
    <3>5. SumOver(E, t) = Multiply(m, SumOver(A, t)) /\ E[c] = Multiply(m, A[c])
      BY <1>0, <3>2, <3>4
    <3>6. Multiply(m, Add(A[c], SumOver(A, t))) = Add(Multiply(m, A[c]), Multiply(m, SumOver(A, t)))
      BY <3>4, Distribute
    <3>7. SumOver(E, s) = Multiply(m, SumOver(A, s))
      BY <3>3, <3>5, <3>6
    <3> QED BY <3>7
  <2> QED BY <2>1, <2>2
<1>2. D \in F
  <2>1. D \in SUBSET D
    OBVIOUS
  <2> HIDE DEF F
  <2> QED BY <1>1, <2>1, EveryPart
<1>3. SumOver(E, D) = Multiply(m, SumOver(A, D))
  BY <1>2
<1> QED BY <1>0, <1>3, OverLaws DEF E

\* A product of factors that are not zero.
LEMMA ProductNotZero ==
  ASSUME NEW D, IsFiniteSet(D), NEW A \in [D -> NonZero]
  PROVE  ProductOf(A) \in NonZero
<1> DEFINE F == {s \in SUBSET D : ProductOver(A, s) \in NonZero}
<1>0. A \in [D -> Scalars] /\ 1 \in NonZero
  BY OrderNat DEF NonZero, Scalars
<1>1. ASSUME NEW s \in SUBSET D, \A x \in s : s \ {x} \in F PROVE s \in F
  <2>1. CASE s = {}
    BY <1>0, <2>1, OverLaws
  <2>2. CASE s # {}
    <3>1. PICK c \in s : TRUE
      BY <2>2
    <3> DEFINE t == s \ {c}
    <3>2. t \in F
      BY <1>1, <3>1
    <3>3. ProductOver(A, s) = Multiply(A[c], ProductOver(A, t)) /\ A[c] \in NonZero
      BY <1>0, <3>1, OverLaws
    <3>4. ProductOver(A, s) \in NonZero
      BY <3>2, <3>3, ProductNonZero
    <3> QED BY <3>4
  <2> QED BY <2>1, <2>2
<1>2. D \in F
  <2>1. D \in SUBSET D
    OBVIOUS
  <2> HIDE DEF F
  <2> QED BY <1>1, <2>1, EveryPart
<1> QED BY <1>0, <1>2, OverLaws
-----------------------------------------------------------------------------
(* Interpolation.                                                          *)

\* The value at zero that the coefficients of the set assign to v.
Interpolate(ids, v) == SumOf([i \in ids |-> Multiply(LagrangeCoefficient(i, ids), v[i])])

\* The nonzero scalars are finitely many.
LEMMA NonZeroFinite ==
  /\ IsFiniteSet(NonZero) /\ NonZero \subseteq Scalars /\ 1 \in NonZero /\ 0 \in Scalars /\ 1 \in Scalars
  /\ \A ids \in SUBSET NonZero : IsFiniteSet(ids)
<1>1. IsFiniteSet(NonZero)
  BY OrderNat, FS_Interval DEF NonZero
<1>2. ASSUME NEW ids \in SUBSET NonZero PROVE IsFiniteSet(ids)
  BY <1>1, FS_Subset
<1>3. NonZero \subseteq Scalars /\ 1 \in NonZero /\ 0 \in Scalars /\ 1 \in Scalars
  BY OrderNat DEF NonZero, Scalars
<1> QED BY <1>1, <1>2, <1>3

Numerator(i, ids) == ProductOf([j \in ids \ {i} |-> j])
Denominator(i, ids) == ProductOf([j \in ids \ {i} |-> Subtract(j, i)])

\* One more index in the set adds one more factor to each product.
LEMMA CoefficientParts ==
  ASSUME NEW ids \in SUBSET NonZero, NEW i \in ids
  PROVE  /\ Numerator(i, ids) \in NonZero /\ Denominator(i, ids) \in NonZero
         /\ LagrangeCoefficient(i, ids) = Multiply(Numerator(i, ids), Invert(Denominator(i, ids)))
         /\ LagrangeCoefficient(i, ids) \in Scalars
         /\ \A m \in ids \ {i} : /\ Numerator(i, ids) = Multiply(m, Numerator(i, ids \ {m}))
                                 /\ Denominator(i, ids) = Multiply(Subtract(m, i), Denominator(i, ids \ {m}))
         /\ ids = {i} => LagrangeCoefficient(i, ids) = 1
<1> DEFINE D == ids \ {i}
           A == [j \in D |-> j]
           B == [j \in D |-> Subtract(j, i)]
<1>1. IsFiniteSet(D) /\ D \subseteq NonZero /\ i \in Scalars /\ i \notin D
  BY NonZeroFinite
<1>2. A \in [D -> NonZero]
  BY <1>1
<1>3. B \in [D -> NonZero]
  <2>1. ASSUME NEW j \in D PROVE Subtract(j, i) \in NonZero
    BY <1>1, NonZeroFinite, SubtractLaws
  <2> QED BY <2>1
<1>4. A \in [D -> Scalars] /\ B \in [D -> Scalars]
  BY <1>2, <1>3, NonZeroFinite
<1>5. Numerator(i, ids) = ProductOf(A) /\ Denominator(i, ids) = ProductOf(B)
  BY DEF Numerator, Denominator
<1>6. Numerator(i, ids) \in NonZero /\ Denominator(i, ids) \in NonZero
  <2> HIDE DEF A, B, D
  <2> QED BY <1>1, <1>2, <1>3, <1>5, ProductNotZero
<1>7. LagrangeCoefficient(i, ids) = Multiply(Numerator(i, ids), Invert(Denominator(i, ids)))
  BY DEF LagrangeCoefficient, Numerator, Denominator
<1>8. LagrangeCoefficient(i, ids) \in Scalars
  BY <1>6, <1>7, HasInverse, NonZeroFinite, Typed
<1>9. ASSUME NEW m \in ids \ {i}
      PROVE  /\ Numerator(i, ids) = Multiply(m, Numerator(i, ids \ {m}))
             /\ Denominator(i, ids) = Multiply(Subtract(m, i), Denominator(i, ids \ {m}))
  <2>1. ProductOf(A) = Multiply(A[m], ProductOf([j \in D \ {m} |-> A[j]]))
    <3>1. m \in D
      OBVIOUS
    <3> HIDE DEF A, D
    <3> QED BY <1>1, <1>4, <3>1, ProductLaws
  <2>2. ProductOf(B) = Multiply(B[m], ProductOf([j \in D \ {m} |-> B[j]]))
    <3>1. m \in D
      OBVIOUS
    <3> HIDE DEF B, D
    <3> QED BY <1>1, <1>4, <3>1, ProductLaws
  <2>3. (ids \ {m}) \ {i} = D \ {m}
    OBVIOUS
  <2>4. [j \in D \ {m} |-> A[j]] = [j \in D \ {m} |-> j] /\ [j \in D \ {m} |-> B[j]] = [j \in D \ {m} |-> Subtract(j, i)]
    OBVIOUS
  <2>5. A[m] = m /\ B[m] = Subtract(m, i)
    OBVIOUS
  <2>6. Numerator(i, ids \ {m}) = ProductOf([j \in D \ {m} |-> A[j]])
        /\ Denominator(i, ids \ {m}) = ProductOf([j \in D \ {m} |-> B[j]])
    BY <2>3, <2>4 DEF Numerator, Denominator
  <2> QED BY <1>5, <2>1, <2>2, <2>5, <2>6
<1>10. ASSUME ids = {i} PROVE LagrangeCoefficient(i, ids) = 1
  <2>1. D = {}
    BY <1>10
  <2>2. ProductOf(A) = 1 /\ ProductOf(B) = 1
    <3> HIDE DEF A, B, D
    <3> QED BY <1>1, <1>4, <2>1, ProductLaws
  <2>3. Multiply(1, 1) = 1 /\ Invert(1) = 1
    BY NonZeroFinite, MultiplyLaws, InverseIs
  <2> QED BY <1>5, <1>7, <2>2, <2>3
<1> QED BY <1>6, <1>7, <1>8, <1>9, <1>10

\* The coefficient for one index more.
LEMMA CoefficientStep ==
  ASSUME NEW ids \in SUBSET NonZero, NEW i \in ids, NEW m \in ids \ {i}
  PROVE  Multiply(LagrangeCoefficient(i, ids), Subtract(m, i)) = Multiply(m, LagrangeCoefficient(i, ids \ {m}))
<1> DEFINE N == Numerator(i, ids \ {m})
           D == Denominator(i, ids \ {m})
           d == Subtract(m, i)
           p == Invert(d)
           q == Invert(D)
<1>1. ids \ {m} \in SUBSET NonZero /\ i \in ids \ {m} /\ m \in Scalars /\ i \in Scalars /\ m # i
  BY NonZeroFinite
<1>2. N \in Scalars /\ D \in NonZero /\ d \in NonZero
  BY <1>1, CoefficientParts, SubtractLaws, NonZeroFinite
<1>3. /\ LagrangeCoefficient(i, ids) = Multiply(Multiply(m, N), Invert(Multiply(d, D)))
      /\ LagrangeCoefficient(i, ids \ {m}) = Multiply(N, q)
  BY <1>1, CoefficientParts
<1> HIDE DEF N, D, d
<1>4. p \in Scalars /\ q \in Scalars /\ Multiply(d, p) = 1 /\ Multiply(D, q) = 1 /\ d \in Scalars /\ D \in Scalars
  BY <1>2, HasInverse, NonZeroFinite
<1> HIDE DEF p, q
<1>5. Multiply(d, D) \in NonZero /\ Multiply(p, q) \in Scalars /\ Multiply(m, N) \in Scalars /\ Multiply(N, q) \in Scalars
      /\ Multiply(q, d) \in Scalars /\ Multiply(D, q) \in Scalars
  BY <1>1, <1>2, <1>4, ProductNonZero, Typed
<1>6. Multiply(Multiply(d, D), Multiply(p, q)) = 1
  <2>1. Multiply(Multiply(d, D), Multiply(p, q)) = Multiply(Multiply(d, D), Multiply(q, p))
    BY <1>4, MultiplyLaws
  <2>2. Multiply(d, Multiply(D, Multiply(q, p))) = Multiply(Multiply(d, D), Multiply(q, p))
    BY <1>4, MultiplyLaws, Typed
  <2>3. Multiply(D, Multiply(q, p)) = Multiply(Multiply(D, q), p)
    BY <1>4, MultiplyLaws
  <2>4. Multiply(1, p) = p
    BY <1>4, MultiplyLaws
  <2> QED BY <1>4, <2>1, <2>2, <2>3, <2>4
<1>7. Invert(Multiply(d, D)) = Multiply(p, q)
  BY <1>5, <1>6, InverseIs
<1>8. Multiply(Multiply(p, q), d) = q
  <2>1. Multiply(Multiply(p, q), d) = Multiply(p, Multiply(q, d))
    BY <1>4, MultiplyLaws
  <2>2. Multiply(q, d) = Multiply(d, q)
    BY <1>4, MultiplyLaws
  <2>3. Multiply(p, Multiply(d, q)) = Multiply(Multiply(p, d), q)
    BY <1>4, MultiplyLaws
  <2>4. Multiply(p, d) = 1 /\ Multiply(1, q) = q
    BY <1>4, MultiplyLaws
  <2> QED BY <2>1, <2>2, <2>3, <2>4
<1>9. Multiply(Multiply(Multiply(m, N), Multiply(p, q)), d) = Multiply(Multiply(m, N), Multiply(Multiply(p, q), d))
  BY <1>4, <1>5, MultiplyLaws
<1>10. Multiply(Multiply(m, N), q) = Multiply(m, Multiply(N, q))
  BY <1>1, <1>2, <1>4, MultiplyLaws
<1>11. Multiply(LagrangeCoefficient(i, ids), d) = Multiply(m, LagrangeCoefficient(i, ids \ {m}))
  BY <1>3, <1>7, <1>8, <1>9, <1>10
<1> QED BY <1>11 DEF d

\* Interpolation stays in the field,
LEMMA InterpolateTypes ==
  ASSUME NEW ids \in SUBSET NonZero, NEW v \in [NonZero -> Scalars]
  PROVE  /\ IsFiniteSet(ids) /\ \A i \in ids : v[i] \in Scalars /\ LagrangeCoefficient(i, ids) \in Scalars
         /\ [i \in ids |-> Multiply(LagrangeCoefficient(i, ids), v[i])] \in [ids -> Scalars]
         /\ Interpolate(ids, v) \in Scalars
<1>1. IsFiniteSet(ids) /\ \A i \in ids : v[i] \in Scalars /\ LagrangeCoefficient(i, ids) \in Scalars
  BY NonZeroFinite, CoefficientParts
<1>2. \A i \in ids : Multiply(LagrangeCoefficient(i, ids), v[i]) \in Scalars
  BY <1>1, Typed
<1> QED BY <1>1, <1>2, SumLaws DEF Interpolate

\* Interpolation is linear.
LEMMA InterpolateAdd ==
  ASSUME NEW ids \in SUBSET NonZero, NEW v \in [NonZero -> Scalars], NEW w \in [NonZero -> Scalars]
  PROVE  Interpolate(ids, [i \in NonZero |-> Add(v[i], w[i])]) = Add(Interpolate(ids, v), Interpolate(ids, w))
<1> DEFINE A == [i \in ids |-> Multiply(LagrangeCoefficient(i, ids), v[i])]
           B == [i \in ids |-> Multiply(LagrangeCoefficient(i, ids), w[i])]
           u == [i \in NonZero |-> Add(v[i], w[i])]
           E == [i \in ids |-> Multiply(LagrangeCoefficient(i, ids), u[i])]
<1>1. IsFiniteSet(ids) /\ A \in [ids -> Scalars] /\ B \in [ids -> Scalars]
  BY InterpolateTypes
<1>2. ASSUME NEW i \in ids PROVE E[i] = Add(A[i], B[i])
  <2>1. u[i] = Add(v[i], w[i]) /\ v[i] \in Scalars /\ w[i] \in Scalars /\ LagrangeCoefficient(i, ids) \in Scalars
    BY InterpolateTypes
  <2> QED BY <2>1, Distribute
<1>3. E = [i \in ids |-> Add(A[i], B[i])]
  BY <1>2
<1>4. Interpolate(ids, u) = SumOf(E) /\ Interpolate(ids, v) = SumOf(A) /\ Interpolate(ids, w) = SumOf(B)
  BY DEF Interpolate
<1>5. SumOf([i \in ids |-> Add(A[i], B[i])]) = Add(SumOf(A), SumOf(B))
  <2> HIDE DEF A, B
  <2> QED BY <1>1, SumAdd
<1> HIDE DEF A, B, E
<1> QED BY <1>3, <1>4, <1>5

\* and is linear: a factor,
LEMMA InterpolateScale ==
  ASSUME NEW ids \in SUBSET NonZero, NEW v \in [NonZero -> Scalars], NEW m \in Scalars
  PROVE  Interpolate(ids, [i \in NonZero |-> Multiply(m, v[i])]) = Multiply(m, Interpolate(ids, v))
<1> DEFINE A == [i \in ids |-> Multiply(LagrangeCoefficient(i, ids), v[i])]
           u == [i \in NonZero |-> Multiply(m, v[i])]
           E == [i \in ids |-> Multiply(LagrangeCoefficient(i, ids), u[i])]
<1>1. IsFiniteSet(ids) /\ A \in [ids -> Scalars]
  BY InterpolateTypes
<1>2. ASSUME NEW i \in ids PROVE E[i] = Multiply(m, A[i])
  <2> DEFINE c == LagrangeCoefficient(i, ids)
             x == v[i]
  <2>1. u[i] = Multiply(m, x) /\ x \in Scalars /\ c \in Scalars
    BY InterpolateTypes
  <2>2. E[i] = Multiply(c, Multiply(m, x)) /\ A[i] = Multiply(c, x)
    BY <2>1
  <2> HIDE DEF c, x, A, E
  <2>3. Multiply(c, Multiply(m, x)) = Multiply(Multiply(c, m), x) /\ Multiply(c, m) = Multiply(m, c)
        /\ Multiply(Multiply(m, c), x) = Multiply(m, Multiply(c, x))
    BY <2>1, MultiplyLaws
  <2> QED BY <2>2, <2>3
<1>3. E = [i \in ids |-> Multiply(m, A[i])]
  BY <1>2
<1>4. Interpolate(ids, u) = SumOf(E) /\ Interpolate(ids, v) = SumOf(A)
  BY DEF Interpolate
<1>5. SumOf([i \in ids |-> Multiply(m, A[i])]) = Multiply(m, SumOf(A))
  <2> HIDE DEF A
  <2> QED BY <1>1, SumScale
<1> HIDE DEF A, E
<1> QED BY <1>3, <1>4, <1>5

\* Taking an index out of the set.
LEMMA InterpolateShift ==
  ASSUME NEW ids \in SUBSET NonZero, NEW m \in ids, NEW v \in [NonZero -> Scalars]
  PROVE  Add(Multiply(m, Interpolate(ids \ {m}, v)), Interpolate(ids, [i \in NonZero |-> Multiply(i, v[i])]))
           = Multiply(m, Interpolate(ids, v))
<1> DEFINE rest == ids \ {m}
           c(i) == LagrangeCoefficient(i, ids)
           u == [i \in NonZero |-> Multiply(i, v[i])]
           A == [i \in ids |-> Multiply(c(i), v[i])]
           B == [i \in ids |-> Multiply(c(i), u[i])]
           E == [i \in ids |-> Multiply(c(i), Multiply(Subtract(m, i), v[i]))]
           G == [i \in rest |-> Multiply(LagrangeCoefficient(i, rest), v[i])]
<1>0. m \in Scalars /\ rest \in SUBSET NonZero /\ u \in [NonZero -> Scalars] /\ ids \subseteq Scalars
  <2>1. m \in Scalars /\ rest \in SUBSET NonZero /\ ids \subseteq Scalars
    BY NonZeroFinite
  <2>2. \A i \in NonZero : Multiply(i, v[i]) \in Scalars
    BY NonZeroFinite, Typed
  <2> QED BY <2>1, <2>2
<1>1. /\ IsFiniteSet(ids) /\ A \in [ids -> Scalars] /\ B \in [ids -> Scalars]
      /\ IsFiniteSet(rest) /\ G \in [rest -> Scalars]
  BY <1>0, InterpolateTypes
<1>2. \A i \in ids : c(i) \in Scalars /\ v[i] \in Scalars /\ u[i] = Multiply(i, v[i]) /\ i \in Scalars /\ Subtract(m, i) \in Scalars
  BY <1>0, InterpolateTypes, Typed
<1>3. E \in [ids -> Scalars]
  BY <1>2, Typed
\* The terms of the set itself.
<1>4. ASSUME NEW i \in ids PROVE Add(E[i], B[i]) = Multiply(m, A[i])
  <2> DEFINE k == c(i)
             x == v[i]
             d == Subtract(m, i)
  <2>1. E[i] = Multiply(k, Multiply(d, x)) /\ B[i] = Multiply(k, Multiply(i, x)) /\ A[i] = Multiply(k, x)
    BY <1>2
  <2>2. k \in Scalars /\ x \in Scalars /\ d \in Scalars /\ i \in Scalars /\ Add(d, i) = m
    BY <1>0, <1>2, SubtractLaws
  <2> HIDE DEF k, x, d, A, B, E
  <2>3. Multiply(d, x) \in Scalars /\ Multiply(i, x) \in Scalars /\ Multiply(k, x) \in Scalars
    BY <2>2, Typed
  <2>4. Multiply(k, Add(Multiply(d, x), Multiply(i, x))) = Add(Multiply(k, Multiply(d, x)), Multiply(k, Multiply(i, x)))
    BY <2>2, <2>3, Distribute
  <2>5. Add(Multiply(d, x), Multiply(i, x)) = Multiply(m, x)
    <3>1. Multiply(x, Add(d, i)) = Add(Multiply(x, d), Multiply(x, i))
      BY <2>2, Distribute
    <3>2. Multiply(x, d) = Multiply(d, x) /\ Multiply(x, i) = Multiply(i, x) /\ Multiply(x, m) = Multiply(m, x)
      BY <1>0, <2>2, MultiplyLaws
    <3> QED BY <2>2, <3>1, <3>2
  <2>6. Multiply(k, Multiply(m, x)) = Multiply(m, Multiply(k, x))
    <3>1. Multiply(k, Multiply(m, x)) = Multiply(Multiply(k, m), x) /\ Multiply(k, m) = Multiply(m, k)
          /\ Multiply(Multiply(m, k), x) = Multiply(m, Multiply(k, x))
      BY <1>0, <2>2, MultiplyLaws
    <3> QED BY <3>1
  <2> QED BY <2>1, <2>4, <2>5, <2>6
<1>5. Add(SumOf(E), SumOf(B)) = Multiply(m, SumOf(A))
  <2> DEFINE J == [i \in ids |-> Add(E[i], B[i])]
             K == [i \in ids |-> Multiply(m, A[i])]
  <2>1. J = K
    BY <1>4
  <2>2. SumOf(J) = Add(SumOf(E), SumOf(B)) /\ SumOf(K) = Multiply(m, SumOf(A))
    <3> HIDE DEF A, B, E
    <3> QED BY <1>0, <1>1, <1>3, SumAdd, SumScale
  <2> HIDE DEF J, K
  <2> QED BY <2>1, <2>2
\* Those that E leaves.
<1>6. E[m] = 0
  <2>1. Subtract(m, m) = 0
    BY <1>0, SubtractLaws
  <2>2. Multiply(0, v[m]) = 0 /\ Multiply(c(m), 0) = 0
    BY <1>2, MultiplyLaws
  <2> QED BY <2>1, <2>2
<1>7. ASSUME NEW i \in rest PROVE E[i] = Multiply(m, G[i])
  <2> DEFINE k == c(i)
             g == LagrangeCoefficient(i, rest)
             x == v[i]
             d == Subtract(m, i)
  <2>1. E[i] = Multiply(k, Multiply(d, x)) /\ G[i] = Multiply(g, x) /\ i \in ids /\ m \in ids \ {i}
    OBVIOUS
  <2>2. Multiply(k, d) = Multiply(m, g)
    BY <2>1, CoefficientStep
  <2>3. k \in Scalars /\ x \in Scalars /\ d \in Scalars /\ g \in Scalars
    BY <1>0, <1>2, <2>1, InterpolateTypes
  <2> HIDE DEF k, x, d, g, E, G, c
  <2>4. Multiply(k, Multiply(d, x)) = Multiply(Multiply(k, d), x) /\ Multiply(Multiply(m, g), x) = Multiply(m, Multiply(g, x))
    BY <1>0, <2>3, MultiplyLaws
  <2> QED BY <2>1, <2>2, <2>4
<1>8. SumOf(E) = Multiply(m, SumOf(G))
  <2> DEFINE J == [i \in rest |-> E[i]]
             K == [i \in rest |-> Multiply(m, G[i])]
  <2>1. J = K
    BY <1>7
  <2>2. SumOf(K) = Multiply(m, SumOf(G))
    <3> HIDE DEF G
    <3> QED BY <1>0, <1>1, SumScale
  <2>3. SumOf(E) = Add(E[m], SumOf(J))
    <3> HIDE DEF E
    <3> QED BY <1>1, <1>3, SumLaws
  <2>4. SumOf(J) \in Scalars
    <3>1. J \in [rest -> Scalars]
      <4> HIDE DEF E
      <4> QED BY <1>3
    <3> HIDE DEF J
    <3> QED BY <1>1, <3>1, SumLaws
  <2> HIDE DEF J, K, E, G
  <2> QED BY <1>6, <2>1, <2>2, <2>3, <2>4, AddLaws
<1>9. Interpolate(ids, v) = SumOf(A) /\ Interpolate(ids, u) = SumOf(B) /\ Interpolate(rest, v) = SumOf(G)
  BY DEF Interpolate
<1> HIDE DEF A, B, G, E
<1> QED BY <1>5, <1>8, <1>9

\* The coefficients of a set add up to one.
LEMMA InterpolateOne ==
  ASSUME NEW ids \in SUBSET NonZero, ids # {}
  PROVE  Interpolate(ids, [i \in NonZero |-> 1]) = 1
<1> DEFINE one == [i \in NonZero |-> 1]
           F == {s \in SUBSET ids : s # {} => Interpolate(s, one) = 1}
<1>0. one \in [NonZero -> Scalars] /\ IsFiniteSet(ids)
  BY NonZeroFinite
<1>1. ASSUME NEW s \in SUBSET ids, \A x \in s : s \ {x} \in F PROVE s \in F
  <2>1. CASE s = {}
    BY <2>1
  <2>2. ASSUME NEW m \in s, s = {m} PROVE Interpolate(s, one) = 1
    <3> DEFINE A == [i \in s |-> Multiply(LagrangeCoefficient(i, s), one[i])]
    <3>1. s \in SUBSET NonZero
      OBVIOUS
    <3>2. IsFiniteSet(s) /\ A \in [s -> Scalars]
      BY <1>0, <3>1, InterpolateTypes
    <3>3. A[m] = 1
      <4>1. LagrangeCoefficient(m, s) = 1
        BY <2>2, <3>1, CoefficientParts
      <4>2. Multiply(1, 1) = 1
        BY NonZeroFinite, MultiplyLaws
      <4> QED BY <4>1, <4>2
    <3> HIDE DEF A
    <3>4. SumOf(A) = Add(A[m], SumOf([j \in s \ {m} |-> A[j]]))
      BY <3>2, SumLaws
    <3>5. SumOf([j \in s \ {m} |-> A[j]]) = 0
      <4> DEFINE Z == [j \in s \ {m} |-> A[j]]
      <4>1. s \ {m} = {} /\ Z \in [s \ {m} -> Scalars] /\ IsFiniteSet(s \ {m})
        BY <2>2, <3>2, FS_EmptySet
      <4> HIDE DEF Z
      <4> QED BY <4>1, SumLaws DEF Z
    <3>6. SumOf(A) = 1
      BY <3>3, <3>4, <3>5, NonZeroFinite, AddLaws
    <3> QED BY <3>6 DEF A, Interpolate
  <2>3. ASSUME NEW m \in s, NEW n \in s, m # n PROVE Interpolate(s, one) = 1
    <3> DEFINE L == Interpolate(s, one)
               X == Interpolate(s, [i \in NonZero |-> Multiply(i, one[i])])
               d == Subtract(m, n)
    <3>1. s \in SUBSET NonZero /\ s \ {m} \in SUBSET NonZero /\ s \ {n} \in SUBSET NonZero /\ m \in Scalars /\ n \in Scalars
      BY NonZeroFinite
    <3>2. Interpolate(s \ {m}, one) = 1 /\ Interpolate(s \ {n}, one) = 1
      BY <1>1, <2>3
    <3>3. L \in Scalars /\ X \in Scalars
      <4>1. [i \in NonZero |-> Multiply(i, one[i])] \in [NonZero -> Scalars]
        BY NonZeroFinite, Typed
      <4> QED BY <1>0, <3>1, <4>1, InterpolateTypes
    <3>4. Add(Multiply(m, 1), X) = Multiply(m, L)
      <4> HIDE DEF one
      <4> QED BY <1>0, <3>1, <3>2, InterpolateShift
    <3>5. Add(Multiply(n, 1), X) = Multiply(n, L)
      <4> HIDE DEF one
      <4> QED BY <1>0, <3>1, <3>2, InterpolateShift
    <3>6. d \in NonZero /\ d \in Scalars /\ Add(d, n) = m
      BY <2>3, <3>1, SubtractLaws, NonZeroFinite
    <3> HIDE DEF L, X, d
    <3>7. Multiply(m, 1) = m /\ Multiply(n, 1) = n /\ Multiply(d, 1) = d
      BY <3>1, <3>6, MultiplyLaws
    <3>8. Multiply(m, L) = Add(Multiply(d, L), Multiply(n, L))
      <4>1. Multiply(L, Add(d, n)) = Add(Multiply(L, d), Multiply(L, n))
        BY <3>1, <3>3, <3>6, Distribute
      <4>2. Multiply(L, m) = Multiply(m, L) /\ Multiply(L, d) = Multiply(d, L) /\ Multiply(L, n) = Multiply(n, L)
        BY <3>1, <3>3, <3>6, MultiplyLaws
      <4> QED BY <3>6, <4>1, <4>2
    <3>9. Add(m, X) = Add(d, Add(n, X))
      BY <3>1, <3>3, <3>6, AddLaws
    <3> DEFINE w == Add(n, X)
               y == Multiply(d, L)
    <3>10. w \in Scalars /\ y \in Scalars
      BY <3>1, <3>3, <3>6, Typed
    <3>11. Add(w, d) = Add(w, y)
      <4>1. Multiply(n, L) = w
        BY <3>5, <3>7
      <4>2. Add(d, w) = Add(y, w)
        BY <3>4, <3>7, <3>8, <3>9, <4>1
      <4> HIDE DEF w, y
      <4> QED BY <3>6, <3>10, <4>2, AddLaws
    <3> HIDE DEF w, y
    <3>12. d = y
      BY <3>6, <3>10, <3>11, SubtractLaws
    <3>13. Multiply(d, L) = Multiply(d, 1)
      BY <3>7, <3>12 DEF y
    <3> QED BY <3>3, <3>6, <3>13, NonZeroFinite, Cancel DEF L
  <2>4. CASE s # {}
    <3>1. PICK m \in s : TRUE
      BY <2>4
    <3>2. s = {m} \/ \E n \in s : m # n
      OBVIOUS
    <3>3. Interpolate(s, one) = 1
      BY <2>2, <2>3, <3>1, <3>2
    <3> QED BY <3>3
  <2> QED BY <2>1, <2>4
<1>2. ids \in F
  <2>1. ids \in SUBSET ids
    OBVIOUS
  <2> HIDE DEF F
  <2> QED BY <1>0, <1>1, <2>1, EveryPart
<1> QED BY <1>2

\* The powers of evaluatePolynomial's loop.
LEMMA PowerLaws ==
  ASSUME NEW x \in Scalars, NEW n \in Nat
  PROVE  /\ xPower(x, n) \in Scalars /\ xPower(x, 0) = 1
         /\ xPower(x, n + 1) = Multiply(x, xPower(x, n))
<1> DEFINE A == [turn \in 1..n |-> x]
           B == [turn \in 1..(n + 1) |-> x]
           Z == [turn \in 1..0 |-> x]
           D == 1..(n + 1)
<1>1. /\ IsFiniteSet(1..n) /\ IsFiniteSet(D) /\ IsFiniteSet(1..0)
      /\ A \in [1..n -> Scalars] /\ B \in [D -> Scalars] /\ Z \in [1..0 -> Scalars]
  BY FS_Interval
<1>2. 1..0 = {} /\ n + 1 \in D /\ D \ {n + 1} = 1..n
  OBVIOUS
<1>3. B[n + 1] = x /\ [j \in 1..n |-> B[j]] = A
  OBVIOUS
<1>4. xPower(x, n) = ProductOf(A) /\ xPower(x, n + 1) = ProductOf(B) /\ xPower(x, 0) = ProductOf(Z)
  BY DEF xPower
<1> HIDE DEF A, B, Z, D
<1>5. ProductOf(A) \in Scalars /\ ProductOf(Z) = 1
  BY <1>1, <1>2, ProductLaws
<1>6. \A m \in D : ProductOf(B) = Multiply(B[m], ProductOf([j \in D \ {m} |-> B[j]]))
  BY <1>1, ProductLaws
<1>7. ProductOf(B) = Multiply(x, ProductOf(A))
  BY <1>2, <1>3, <1>6
<1> QED BY <1>4, <1>5, <1>7

Powers(k) == [i \in NonZero |-> xPower(i, k)]

\* The powers of all indices.
LEMMA PowersTypes ==
  ASSUME NEW k \in Nat
  PROVE  /\ Powers(k) \in [NonZero -> Scalars] /\ Powers(0) = [i \in NonZero |-> 1]
         /\ Powers(k + 1) = [i \in NonZero |-> Multiply(i, Powers(k)[i])]
BY PowerLaws, NonZeroFinite DEF Powers

\* Enough coefficients cancel every power but the lowest.
LEMMA InterpolatePowers ==
  \A k \in Nat : k >= 1 => \A ids \in SUBSET NonZero : Cardinality(ids) > k => Interpolate(ids, Powers(k)) = 0
<1> DEFINE P(k) == k >= 1 => \A ids \in SUBSET NonZero : Cardinality(ids) > k => Interpolate(ids, Powers(k)) = 0
           S == {k \in Nat : P(k)}
<1>1. 0 \in S
  OBVIOUS
<1>2. ASSUME NEW k \in Nat, k \in S PROVE k + 1 \in S
  <2>1. ASSUME NEW ids \in SUBSET NonZero, Cardinality(ids) > k + 1
        PROVE  Interpolate(ids, Powers(k + 1)) = 0
    <3>0. IsFiniteSet(ids) /\ Cardinality(ids) \in Nat
      BY NonZeroFinite, FS_CardinalityType
    <3>1. ids # {}
      BY <2>1, <3>0, FS_EmptySet
    <3>2. PICK m \in ids : TRUE
      BY <3>1
    <3> DEFINE rest == ids \ {m}
    <3>3. rest \in SUBSET NonZero /\ m \in Scalars /\ Cardinality(rest) > k /\ rest # {}
      <4>1. Cardinality(rest) = Cardinality(ids) - 1
        BY <3>0, <3>2, FS_RemoveElement
      <4>2. Cardinality(rest) > k
        BY <2>1, <3>0, <4>1
      <4>3. rest # {}
        BY <4>2, FS_EmptySet
      <4> QED BY <4>2, <4>3, NonZeroFinite
    <3>4. Add(Multiply(m, Interpolate(rest, Powers(k))), Interpolate(ids, Powers(k + 1))) = Multiply(m, Interpolate(ids, Powers(k)))
      BY <3>2, PowersTypes, InterpolateShift
    <3>5. Interpolate(rest, Powers(k)) = Interpolate(ids, Powers(k))
      <4>1. CASE k = 0
        <5>1. Interpolate(rest, Powers(0)) = 1 /\ Interpolate(ids, Powers(0)) = 1
          BY <3>1, <3>3, PowersTypes, InterpolateOne
        <5> QED BY <4>1, <5>1
      <4>2. CASE k >= 1
        <5>1. Cardinality(ids) > k
          BY <2>1, <3>0
        <5>2. Interpolate(rest, Powers(k)) = 0 /\ Interpolate(ids, Powers(k)) = 0
          BY <1>2, <3>3, <4>2, <5>1
        <5> QED BY <5>2
      <4> QED BY <4>1, <4>2
    <3> DEFINE u == Multiply(m, Interpolate(ids, Powers(k)))
               z == Interpolate(ids, Powers(k + 1))
    <3>6. u \in Scalars /\ z \in Scalars
      <4>0. k + 1 \in Nat
        OBVIOUS
      <4>1. Powers(k) \in [NonZero -> Scalars] /\ Powers(k + 1) \in [NonZero -> Scalars]
        BY <4>0, PowersTypes
      <4>2. Interpolate(ids, Powers(k)) \in Scalars
        BY <4>1, InterpolateTypes
      <4>3. Interpolate(ids, Powers(k + 1)) \in Scalars
        BY <4>1, InterpolateTypes
      <4> QED BY <3>3, <4>2, <4>3, Typed
    <3>7. Add(u, z) = u
      BY <3>4, <3>5
    <3> HIDE DEF u, z
    <3>8. z = 0
      <4>1. Add(u, z) = Add(u, 0) /\ 0 \in Scalars
        BY <3>6, <3>7, AddLaws, NonZeroFinite
      <4> QED BY <3>6, <4>1, SubtractLaws
    <3> QED BY <3>8 DEF z
  <2> QED BY <2>1
<1>3. Nat \subseteq S
  <2> HIDE DEF S
  <2> QED BY <1>1, <1>2, EveryNat
<1> QED BY <1>3

\* The value of a polynomial at each index.
Values(c) == [i \in NonZero |-> evaluatePolynomial(c, i)]

\* The value without its highest terms.
Upto(c, n) == [i \in NonZero |-> SumOver([k \in DOMAIN c |-> Multiply(c[k], xPower(i, k - 1))], 1..n)]

\* One coefficient more.
LEMMA UptoStep ==
  ASSUME NEW K \in Nat, NEW c \in [1..K -> Scalars], NEW n \in Nat, n < K
  PROVE  /\ Upto(c, n) \in [NonZero -> Scalars]
         /\ Upto(c, n + 1) = [i \in NonZero |-> Add(Multiply(c[n + 1], Powers(n)[i]), Upto(c, n)[i])]
<1> DEFINE D == 1..K
<1>1. IsFiniteSet(D) /\ DOMAIN c = D
  BY FS_Interval
<1>2. 1..n \in SUBSET D /\ 1..(n + 1) \in SUBSET D /\ (1..(n + 1)) \ {n + 1} = 1..n /\ n + 1 \in 1..(n + 1) /\ n + 1 \in D /\ (n + 1) - 1 = n
  OBVIOUS
<1> HIDE DEF D
<1>3. ASSUME NEW i \in NonZero
      PROVE  /\ SumOver([k \in DOMAIN c |-> Multiply(c[k], xPower(i, k - 1))], 1..n) \in Scalars
             /\ SumOver([k \in DOMAIN c |-> Multiply(c[k], xPower(i, k - 1))], 1..(n + 1))
                = Add(Multiply(c[n + 1], xPower(i, n)), SumOver([k \in DOMAIN c |-> Multiply(c[k], xPower(i, k - 1))], 1..n))
  <2> DEFINE A == [k \in DOMAIN c |-> Multiply(c[k], xPower(i, k - 1))]
  <2>1. ASSUME NEW k \in D PROVE Multiply(c[k], xPower(i, k - 1)) \in Scalars
    <3>1. k - 1 \in Nat /\ c[k] \in Scalars /\ i \in Scalars
      BY NonZeroFinite DEF D
    <3>2. xPower(i, k - 1) \in Scalars
      BY <3>1, PowerLaws
    <3> QED BY <3>1, <3>2, Typed
  <2>2. A \in [D -> Scalars] /\ A[n + 1] = Multiply(c[n + 1], xPower(i, n))
    BY <1>1, <1>2, <2>1
  <2> HIDE DEF A
  <2>3. SumOver(A, 1..n) \in Scalars
    BY <1>1, <1>2, <2>2, OverLaws
  <2>4. \A s \in SUBSET D : \A m \in s : SumOver(A, s) = Add(A[m], SumOver(A, s \ {m}))
    <3>1. IsFiniteSet(D) /\ A \in [D -> Scalars]
      BY <1>1, <2>2
    <3>2. ASSUME NEW s \in SUBSET D, NEW m \in s PROVE SumOver(A, s) = Add(A[m], SumOver(A, s \ {m}))
      BY <3>1, OverLaws
    <3> QED BY <3>2
  <2>5. SumOver(A, 1..(n + 1)) = Add(Multiply(c[n + 1], xPower(i, n)), SumOver(A, 1..n))
    BY <1>2, <2>2, <2>4
  <2> QED BY <2>3, <2>5 DEF A
<1> QED BY <1>3 DEF Upto, Powers

\* Enough shares of a polynomial give its constant term.
THEOREM InterpolateValues ==
  ASSUME NEW K \in Nat, K >= 1, NEW c \in [1..K -> Scalars], NEW ids \in SUBSET NonZero, Cardinality(ids) >= K
  PROVE  Values(c) \in [NonZero -> Scalars] /\ Interpolate(ids, Values(c)) = c[1]
<1> DEFINE S == {n \in Nat : n + 1 <= K => Interpolate(ids, Upto(c, n + 1)) = c[1]}
<1>0. IsFiniteSet(ids) /\ Cardinality(ids) \in Nat /\ ids # {} /\ c[1] \in Scalars
  BY NonZeroFinite, FS_CardinalityType, FS_EmptySet
\* The sum over one coefficient more.
<1>1. ASSUME NEW n \in Nat, n < K
      PROVE  Interpolate(ids, Upto(c, n + 1))
             = Add(Multiply(c[n + 1], Interpolate(ids, Powers(n))), Interpolate(ids, Upto(c, n)))
  <2> DEFINE v == [i \in NonZero |-> Multiply(c[n + 1], Powers(n)[i])]
             w == Upto(c, n)
             p == Powers(n)
             m == c[n + 1]
  <2>1. p \in [NonZero -> Scalars] /\ m \in Scalars /\ w \in [NonZero -> Scalars]
    <3>1. n + 1 \in 1..K
      BY <1>1
    <3>2. m \in Scalars
      BY <3>1
    <3> QED BY <1>1, <3>2, PowersTypes, UptoStep
  <2>2. Upto(c, n + 1) = [i \in NonZero |-> Add(v[i], w[i])]
    BY <1>1, UptoStep
  <2>3. v = [i \in NonZero |-> Multiply(m, p[i])]
    OBVIOUS
  <2> HIDE DEF v, w, p, m
  <2>4. v \in [NonZero -> Scalars]
    BY <2>1, <2>3, Typed
  <2>5. Interpolate(ids, v) = Multiply(m, Interpolate(ids, p))
    BY <2>1, <2>3, InterpolateScale
  <2>6. Interpolate(ids, Upto(c, n + 1)) = Add(Interpolate(ids, v), Interpolate(ids, w))
    BY <2>1, <2>2, <2>4, InterpolateAdd
  <2> QED BY <2>5, <2>6 DEF w, p, m
<1>2. Interpolate(ids, Upto(c, 0)) = 0
  <2> DEFINE w == Upto(c, 0)
             A == [i \in ids |-> Multiply(LagrangeCoefficient(i, ids), w[i])]
  <2>1. \A i \in NonZero : w[i] = 0
    <3>1. ASSUME NEW i \in NonZero
          PROVE  SumOver([k \in DOMAIN c |-> Multiply(c[k], xPower(i, k - 1))], 1..0) = 0
      <4> DEFINE Z == [j \in 1..0 |-> [k \in DOMAIN c |-> Multiply(c[k], xPower(i, k - 1))][j]]
      <4>1. 1..0 = {} /\ IsFiniteSet(1..0) /\ Z \in [1..0 -> Scalars]
        BY FS_EmptySet
      <4>2. SumOver([k \in DOMAIN c |-> Multiply(c[k], xPower(i, k - 1))], 1..0) = SumOf(Z)
        BY DEF SumOver
      <4> HIDE DEF Z
      <4> QED BY <4>1, <4>2, SumLaws
    <3> QED BY <3>1 DEF Upto
  <2>2. w = [i \in NonZero |-> Multiply(0, w[i])]
    <3>1. w = [i \in NonZero |-> 0]
      BY <2>1 DEF Upto
    <3>2. Multiply(0, 0) = 0
      BY NonZeroFinite, MultiplyLaws
    <3> QED BY <3>1, <3>2
  <2>3. w \in [NonZero -> Scalars] /\ 0 \in Scalars
    <3>1. w = [i \in NonZero |-> 0]
      BY <2>1 DEF Upto
    <3> QED BY <3>1, NonZeroFinite
  <2> HIDE DEF w
  <2>4. Interpolate(ids, w) = Multiply(0, Interpolate(ids, w)) /\ Interpolate(ids, w) \in Scalars
    BY <2>2, <2>3, InterpolateScale, InterpolateTypes
  <2> QED BY <2>3, <2>4, MultiplyLaws DEF w
<1>3. 0 \in S
  <2>1. Interpolate(ids, Powers(0)) = 1
    BY <1>0, PowersTypes, InterpolateOne
  <2>2. 0 \in Nat /\ 0 < K /\ 0 + 1 = 1
    OBVIOUS
  <2>3. Interpolate(ids, Upto(c, 0 + 1)) = Add(Multiply(c[0 + 1], Interpolate(ids, Powers(0))), Interpolate(ids, Upto(c, 0)))
    BY <1>1, <2>2
  <2>4. Interpolate(ids, Upto(c, 1)) = Add(Multiply(c[1], 1), 0)
    BY <1>2, <2>1, <2>2, <2>3
  <2>5. Interpolate(ids, Upto(c, 1)) = c[1]
    <3>1. Multiply(c[1], 1) = c[1]
      BY <1>0, MultiplyLaws
    <3>2. Add(c[1], 0) = c[1]
      BY <1>0, AddLaws
    <3> QED BY <2>4, <3>1, <3>2
  <2> QED BY <2>5
<1>4. ASSUME NEW n \in Nat, n \in S PROVE n + 1 \in S
  <2>1. ASSUME (n + 1) + 1 <= K PROVE Interpolate(ids, Upto(c, (n + 1) + 1)) = c[1]
    <3>1. n + 1 \in Nat /\ n + 1 < K /\ n + 1 >= 1 /\ Cardinality(ids) > n + 1 /\ (n + 1) + 1 \in 1..K
      BY <1>0, <2>1
    <3>2. Interpolate(ids, Upto(c, n + 1)) = c[1]
      BY <1>4, <3>1
    <3>3. Interpolate(ids, Powers(n + 1)) = 0
      BY <3>1, InterpolatePowers
    <3>4. Interpolate(ids, Upto(c, (n + 1) + 1)) = Add(Multiply(c[(n + 1) + 1], 0), c[1])
      BY <1>1, <3>1, <3>2, <3>3
    <3>5. Multiply(c[(n + 1) + 1], 0) = 0
      BY <3>1, MultiplyLaws
    <3>6. Add(0, c[1]) = c[1]
      BY <1>0, AddLaws
    <3> QED BY <3>4, <3>5, <3>6
  <2> QED BY <2>1
<1>5. Nat \subseteq S
  <2> HIDE DEF S
  <2> QED BY <1>3, <1>4, EveryNat
<1>6. Upto(c, K) = Values(c) /\ Values(c) \in [NonZero -> Scalars]
  <2>1. ASSUME NEW i \in NonZero
        PROVE  /\ evaluatePolynomial(c, i) = SumOver([k \in DOMAIN c |-> Multiply(c[k], xPower(i, k - 1))], 1..K)
               /\ evaluatePolynomial(c, i) \in Scalars
    <3> DEFINE A == [k \in 1..K |-> Multiply(c[k], xPower(i, k - 1))]
    <3>1. A = [k \in DOMAIN c |-> Multiply(c[k], xPower(i, k - 1))] /\ IsFiniteSet(1..K)
      BY FS_Interval
    <3>2. ASSUME NEW k \in 1..K PROVE Multiply(c[k], xPower(i, k - 1)) \in Scalars
      <4>1. k - 1 \in Nat /\ c[k] \in Scalars /\ i \in Scalars
        BY NonZeroFinite
      <4>2. xPower(i, k - 1) \in Scalars
        BY <4>1, PowerLaws
      <4> QED BY <4>1, <4>2, Typed
    <3>3. A \in [1..K -> Scalars]
      BY <3>2
    <3>4. evaluatePolynomial(c, i) = SumOf(A)
      BY <3>1 DEF evaluatePolynomial
    <3> HIDE DEF A
    <3>5. SumOver(A, 1..K) = SumOf(A) /\ SumOf(A) \in Scalars
      BY <3>1, <3>3, OverLaws, SumLaws
    <3> QED BY <3>1, <3>4, <3>5
  <2> QED BY <2>1 DEF Upto, Values
<1>7. Interpolate(ids, Upto(c, K)) = c[1]
  <2>1. K - 1 \in Nat /\ (K - 1) + 1 = K
    OBVIOUS
  <2>2. K - 1 \in S
    <3> HIDE DEF S
    <3> QED BY <1>5, <2>1
  <2> QED BY <2>1, <2>2
<1> QED BY <1>6, <1>7

\* To change the sign is to multiply by minus one.
LEMMA NegateIs ==
  ASSUME NEW x \in Scalars
  PROVE  Negate(1) \in Scalars /\ Negate(x) \in Scalars /\ Negate(x) = Multiply(Negate(1), x)
<1> DEFINE n == Negate(1)
           a == Negate(x)
           b == Multiply(n, x)
<1>1. 1 \in Scalars /\ 0 \in Scalars /\ n \in Scalars /\ a \in Scalars /\ b \in Scalars
  BY NonZeroFinite, Typed
<1>2. Add(1, n) = 0 /\ Add(x, a) = 0
  BY <1>1, AddLaws
<1> HIDE DEF n
<1>3. Multiply(x, Add(1, n)) = Add(Multiply(x, 1), Multiply(x, n))
  BY <1>1, Distribute
<1>4. Multiply(x, 1) = x /\ Multiply(x, n) = b /\ Multiply(x, 0) = 0
  BY <1>1, MultiplyLaws
<1>5. Add(x, b) = Add(x, a)
  BY <1>2, <1>3, <1>4
<1> HIDE DEF a, b
<1>6. a = b
  BY <1>1, <1>5, SubtractLaws
<1> QED BY <1>1, <1>6 DEF a, b, n

\* The sign of a sum is changed term by term.
LEMMA SumNegate ==
  ASSUME NEW D, IsFiniteSet(D), NEW A \in [D -> Scalars]
  PROVE  SumOf([i \in D |-> Negate(A[i])]) = Negate(SumOf(A))
<1> DEFINE n == Negate(1)
           B == [i \in D |-> Negate(A[i])]
           E == [i \in D |-> Multiply(n, A[i])]
<1>1. n \in Scalars
  BY NonZeroFinite, Typed
<1>2. B = E
  BY NegateIs
<1>3. SumOf(A) \in Scalars
  BY SumLaws
<1>4. Negate(SumOf(A)) = Multiply(n, SumOf(A))
  BY <1>3, NegateIs
<1> HIDE DEF n
<1>5. SumOf(E) = Multiply(n, SumOf(A))
  BY <1>1, SumScale
<1> QED BY <1>2, <1>4, <1>5

\* Partial signatures over shares that interpolate to the secret of P sum up
\* to a signature by P, whatever the signs of R and P.
THEOREM PartialsVerify ==
  ASSUME NEW P \in Scalars, NEW msg, NEW ids \in SUBSET NonZero,
         NEW v \in [NonZero -> Scalars], Interpolate(ids, v) = P,
         NEW N \in [ids -> NonZero \X NonZero], NEW Z,
         ComputeBindingFactors(P, msg, N) \in [ids -> Scalars],
         \A r \in Scalars : ComputeBIP340Challenge(r, P, msg) \in Scalars,
         Z = [i \in ids |-> ComputePartialSignature(PrepareSignable(P, msg, N), N[i], i, v[i], LagrangeCoefficient(i, ids))]
  PROVE  VerifyBIP340(AggregateFullSignature(PrepareSignable(P, msg, N), Z), msg, P)
<1> DEFINE rho == ComputeBindingFactors(P, msg, N)
           R == AggregateNonceCommitment(N, rho)
           sig == PrepareSignable(P, msg, N)
           c == ComputeBIP340Challenge(XOnly(R), P, msg)
           A == [i \in ids |-> Add(N[i][1], Multiply(N[i][2], rho[i]))]
           L == [i \in ids |-> Multiply(LagrangeCoefficient(i, ids), v[i])]
           T == [i \in ids |-> NonceTerm(sig, N[i], i)]
           U == [i \in ids |-> ShareTerm(sig, v[i], LagrangeCoefficient(i, ids))]
<1>1. rho \in [ids -> Scalars]
  OBVIOUS
<1>2. IsFiniteSet(ids) /\ L \in [ids -> Scalars] /\ SumOf(L) = P
  <2>1. IsFiniteSet(ids) /\ L \in [ids -> Scalars]
    BY InterpolateTypes
  <2> QED BY <2>1 DEF Interpolate
<1>3. A \in [ids -> Scalars]
  <2>1. ASSUME NEW i \in ids PROVE Add(N[i][1], Multiply(N[i][2], rho[i])) \in Scalars
    <3>1. N[i][1] \in Scalars /\ N[i][2] \in Scalars /\ rho[i] \in Scalars
      <4>1. N[i] \in NonZero \X NonZero
        OBVIOUS
      <4>2. rho[i] \in Scalars
        BY <1>1
      <4> HIDE DEF rho
      <4> QED BY <4>1, <4>2, NonZeroFinite
    <3> HIDE DEF rho
    <3> QED BY <3>1, Typed
  <2> HIDE DEF rho
  <2> QED BY <2>1
<1>4. R = SumOf(A) /\ R \in Scalars
  <2>1. R = SumOf(A)
    BY <1>1 DEF AggregateNonceCommitment
  <2> HIDE DEF A, R, rho
  <2>2. SumOf(A) \in Scalars
    BY <1>2, <1>3, SumLaws
  <2> QED BY <2>1, <2>2
<1>5. XOnly(R) \in Scalars /\ XOnly(P) \in Scalars /\ c \in Scalars
  <2> HIDE DEF R
  <2>1. XOnly(R) \in Scalars /\ XOnly(P) \in Scalars
    BY <1>4, Typed DEF XOnly
  <2> QED BY <2>1
<1>6. /\ sig.rho = rho /\ sig.R = XOnly(R) /\ sig.REvenY = EvenY(R) /\ sig.c = c /\ sig.PubkeyEvenY = EvenY(P)
  BY DEF PrepareSignable
<1> HIDE DEF rho, R, sig, c
\* The nonces add up to the element the signature shows.
<1>7. T \in [ids -> Scalars] /\ SumOf(T) = XOnly(R)
  <2>1. ASSUME NEW i \in ids
        PROVE  NonceTerm(sig, N[i], i) = IF EvenY(R) THEN A[i] ELSE Negate(A[i])
    <3>1. N[i][1] \in Scalars /\ N[i][2] \in Scalars /\ rho[i] \in Scalars
      BY <1>1, NonZeroFinite
    <3>2. Multiply(rho[i], N[i][2]) = Multiply(N[i][2], rho[i])
      BY <3>1, MultiplyLaws
    <3> QED BY <1>6, <3>2 DEF NonceTerm
  <2> HIDE DEF A
  <2>2. CASE EvenY(R)
    <3>1. T = A
      BY <1>3, <2>1, <2>2
    <3> QED BY <1>3, <1>4, <2>2, <3>1 DEF XOnly
  <2>3. CASE ~EvenY(R)
    <3>1. T = [i \in ids |-> Negate(A[i])]
      BY <2>1, <2>3
    <3>2. T \in [ids -> Scalars]
      BY <1>3, <3>1, NegateIs
    <3>3. SumOf(T) = Negate(SumOf(A))
      BY <1>2, <1>3, <3>1, SumNegate
    <3> QED BY <1>4, <2>3, <3>2, <3>3 DEF XOnly
  <2> QED BY <2>2, <2>3
\* The shares add up to the secret times the challenge.
<1>8. U \in [ids -> Scalars] /\ SumOf(U) = Multiply(c, XOnly(P))
  <2> DEFINE W == [i \in ids |-> Multiply(c, L[i])]
  <2>1. ASSUME NEW i \in ids
        PROVE  ShareTerm(sig, v[i], LagrangeCoefficient(i, ids)) = IF EvenY(P) THEN W[i] ELSE Negate(W[i])
    <3>1. L[i] \in Scalars /\ L[i] = Multiply(LagrangeCoefficient(i, ids), v[i])
      BY <1>2
    <3> HIDE DEF L
    <3>2. Multiply(L[i], c) = Multiply(c, L[i])
      BY <1>5, <3>1, MultiplyLaws
    <3> QED BY <1>6, <3>1, <3>2 DEF ShareTerm
  <2> HIDE DEF L
  <2>2. W \in [ids -> Scalars] /\ SumOf(W) = Multiply(c, P)
    <3>1. W \in [ids -> Scalars]
      BY <1>2, <1>5, Typed
    <3>2. SumOf(W) = Multiply(c, SumOf(L))
      BY <1>2, <1>5, SumScale
    <3> QED BY <1>2, <3>1, <3>2
  <2> HIDE DEF W
  <2>3. CASE EvenY(P)
    <3>1. U = W
      BY <2>1, <2>2, <2>3
    <3> QED BY <2>2, <2>3, <3>1 DEF XOnly
  <2>4. CASE ~EvenY(P)
    <3>1. U = [i \in ids |-> Negate(W[i])]
      BY <2>1, <2>4
    <3>2. U \in [ids -> Scalars]
      BY <2>2, <3>1, NegateIs
    <3>3. SumOf(U) = Negate(SumOf(W))
      BY <1>2, <2>2, <3>1, SumNegate
    <3>4. Negate(Multiply(c, P)) = Multiply(c, Negate(P))
      <4> DEFINE n == Negate(1)
                 y == Multiply(c, P)
      <4>1. n \in Scalars /\ y \in Scalars /\ Negate(y) = Multiply(n, y) /\ Negate(P) = Multiply(n, P)
        BY <1>5, NegateIs, Typed
      <4> HIDE DEF n
      <4>2. Multiply(n, Multiply(c, P)) = Multiply(Multiply(n, c), P)
        BY <1>5, <4>1, MultiplyLaws
      <4>3. Multiply(Multiply(c, n), P) = Multiply(c, Multiply(n, P)) /\ Multiply(n, c) = Multiply(c, n)
        BY <1>5, <4>1, MultiplyLaws
      <4> QED BY <4>1, <4>2, <4>3
    <3> QED BY <2>2, <2>4, <3>2, <3>3, <3>4 DEF XOnly
  <2> QED BY <2>3, <2>4
<1>9. Z = [i \in ids |-> Add(T[i], U[i])]
  BY DEF ComputePartialSignature, sig
<1> HIDE DEF T, U
<1>10. SumOf(Z) = Add(SumOf(T), SumOf(U))
  BY <1>2, <1>7, <1>8, <1>9, SumAdd
<1> QED BY <1>6, <1>7, <1>8, <1>10 DEF VerifyBIP340, AggregateFullSignature, sig, c

-----------------------------------------------------------------------------
(* UserCosign.                                                             *)

\* At first no call has answered from a session: the invariant holds.
LEMMA ServesInit == CosignInit => ServesInv
<1> SUFFICES ASSUME CosignInit PROVE ServesInv
  OBVIOUS
<1>1. calls = [c \in Calls |-> Idle] /\ answered = FALSE
  BY DEF CosignInit
<1>2. \A c \in Calls : calls[c].late = FALSE
  BY <1>1 DEF Idle
<1>3. calls = [c \in Calls |-> calls[c]]
  BY <1>1
<1> QED
  BY <1>1, <1>2, <1>3 DEF ServesInv

\* Every step of a co-signing call keeps: once one has answered, the session is gone.
LEMMA ServesStep == ServesInv /\ [CosignNext]_cosignVars => ServesInv'
<1> SUFFICES ASSUME ServesInv, [CosignNext]_cosignVars PROVE ServesInv'
  OBVIOUS
<1> USE DEF ServesInv
<1>0. ASSUME UNCHANGED <<cos, calls, answered>> PROVE ServesInv'
  BY <1>0
<1>1. CASE Round1 \/ Round2 \/ ExpireDKG \/ Finalize \/ CreateFrostUserShare \/ rollbackKey
  BY <1>0, <1>1 DEF Round1, Round2, ExpireDKG, Finalize, CreateFrostUserShare, rollbackKey, cosVars
<1>2. ASSUME NEW p \in NonZero,
             \/ Existing(p) \/ handleFrostMigratePathA(p)
             \/ handleFrostMigrateBInit(p) \/ handleFrostMigrateBFinalize(p)
      PROVE  ServesInv'
  BY <1>0, <1>2 DEF Existing, handleFrostMigratePathA, handleFrostMigrateBInit,
       handleFrostMigrateBFinalize, cosVars
<1>3. CASE MigrateRow \/ DeleteFrostUserShare \/ LoseDevice \/ handleFrostUserDKGRecovery
  BY <1>0, <1>3 DEF MigrateRow, DeleteFrostUserShare, LoseDevice, handleFrostUserDKGRecovery, cosVars
<1>4. ASSUME NEW nonces \in SignerNonces, NEW over \in {"http", "relays"}, BeginCosign(nonces, over)
      PROVE  ServesInv'
  BY <1>4 DEF BeginCosign, Idle
<1>5. CASE Publish \/ GiveUp \/ Tick
  BY <1>0, <1>5 DEF Publish, GiveUp, Tick
<1>6. ASSUME NEW c \in Calls, CompleteCosign(c) PROVE ServesInv'
  BY <1>6 DEF CompleteCosign, dropSession, Idle
<1>7. ASSUME NEW c \in Calls, NEW u \in UserNonces, Lookup(c, u) PROVE ServesInv'
  <2>1. CASE cos' = None /\ UNCHANGED <<calls, answered>>
    BY <2>1
  <2>2. CASE /\ cos # None /\ UNCHANGED <<cos, answered>>
             /\ calls' = [calls EXCEPT ![c] = [pc |-> "held", late |-> answered, set |-> cos, u |-> u]]
    <3>1. answered = FALSE
      BY <2>2
    <3>2. calls' = [d \in Calls |-> calls'[d]] /\ \A d \in Calls : d # c => calls'[d] = calls[d]
      BY <2>2
    <3>3. calls'[c].late = FALSE
      BY <2>2, <3>1
    <3> QED
      BY <2>2, <3>1, <3>2, <3>3
  <2> QED
    BY <1>7, <2>1, <2>2 DEF Lookup
<1>8. CASE UNCHANGED cosignVars
  BY <1>0, <1>8 DEF cosignVars
<1> QED
  BY <1>1, <1>2, <1>3, <1>4, <1>5, <1>6, <1>7, <1>8 DEF CosignNext

\* The two polynomials, added up.
LEMMA JointShares ==
  ASSUME NEW a \in PolynomialPairs, NEW b \in PolynomialPairs
  PROVE  \E v \in [NonZero -> Scalars] :
           /\ \A i \in NonZero : v[i] = ShareAt(a, b, i)
           /\ Participants \subseteq NonZero /\ Interpolate(Participants, v) = JointPubkey(a, b)
           /\ JointPubkey(a, b) \in Scalars
<1> DEFINE f == Values(a)
           g == Values(b)
           v == [i \in NonZero |-> Add(f[i], g[i])]
           K == 2
<1>1. a \in [1..K -> Scalars] /\ b \in [1..K -> Scalars] /\ a[1] \in Scalars /\ b[1] \in Scalars
  <2>1. \A p \in NonZero \X NonZero : p \in [1..2 -> Scalars] /\ p[1] \in Scalars
    <3>1. ASSUME NEW x \in Scalars, NEW y \in Scalars PROVE <<x, y>> \in [1..2 -> Scalars]
      OBVIOUS
    <3>2. ASSUME NEW p \in NonZero \X NonZero PROVE p = <<p[1], p[2]>> /\ p[1] \in Scalars /\ p[2] \in Scalars
      BY NonZeroFinite
    <3> QED BY <3>1, <3>2
  <2> QED BY <2>1 DEF PolynomialPairs
<1>2. Participants \in SUBSET NonZero /\ Cardinality(Participants) = 2
  <2>1. Participants = {1} \cup {2} /\ Participants \subseteq NonZero
    BY OrderNat DEF Participants, UserIndex, SignerIndex, NonZero
  <2>2. Cardinality({1}) = 1 /\ IsFiniteSet({1})
    BY FS_Singleton
  <2>3. Cardinality({1} \cup {2}) = Cardinality({1}) + 1
    BY <2>2, FS_AddElement
  <2> QED BY <2>1, <2>2, <2>3
<1>3. K \in Nat /\ K >= 1 /\ Cardinality(Participants) >= K
  BY <1>2
<1> HIDE DEF K
<1>4. f \in [NonZero -> Scalars] /\ Interpolate(Participants, f) = a[1]
  BY <1>1, <1>2, <1>3, InterpolateValues
<1>5. g \in [NonZero -> Scalars] /\ Interpolate(Participants, g) = b[1]
  BY <1>1, <1>2, <1>3, InterpolateValues
<1>6. \A i \in NonZero : Add(f[i], g[i]) = ShareAt(a, b, i)
  BY DEF Values, ShareAt
<1> HIDE DEF f, g
<1>7. v \in [NonZero -> Scalars]
  BY <1>4, <1>5, Typed
<1>8. Interpolate(Participants, v) = Add(a[1], b[1])
  BY <1>2, <1>4, <1>5, InterpolateAdd
<1>9. \A i \in NonZero : v[i] = ShareAt(a, b, i)
  BY <1>6
<1>10. JointPubkey(a, b) = Add(a[1], b[1]) /\ Add(a[1], b[1]) \in Scalars
  BY <1>1, Typed DEF JointPubkey
<1> HIDE DEF v
<1> QED BY <1>2, <1>7, <1>8, <1>9, <1>10

\* A call for which both sides have their shares of a generated key, and use
\* its pubkey, ends with a signature.
LEMMA CosignVerifies ==
  ASSUME NEW a \in PolynomialPairs, NEW b \in PolynomialPairs, EvenY(JointPubkey(a, b)),
         NEW set, TakenFrom(set, a, b), NEW u \in UserNonces,
         key # None, key.pubkey = XOnly(JointPubkey(a, b)), device = ShareAt(a, b, UserIndex)
  PROVE  Complete(set, u, userPartial(set, u)) = "signed"
<1> DEFINE P == JointPubkey(a, b)
           C == Commitments(set, u)
           sig == PrepareSignable(P, EventHash, C)
           lambda(i) == LagrangeCoefficient(i, Participants)
           zUser == ComputePartialSignature(sig, u, UserIndex, device, lambda(UserIndex))
           zSigner == ComputePartialSignature(sig, <<set.d, set.e>>, SignerIndex, set.s, lambda(SignerIndex))
           Z == [i \in Participants |-> IF i = UserIndex THEN zUser ELSE zSigner]
<1>1. set.P = P /\ key.pubkey = P
  BY DEF TakenFrom, XOnly
<1>2. userPartial(set, u) = zUser
  BY <1>1 DEF userPartial, jointPubkey
<1>3. PICK v \in [NonZero -> Scalars] :
           /\ \A i \in NonZero : v[i] = ShareAt(a, b, i)
           /\ Participants \subseteq NonZero /\ Interpolate(Participants, v) = P /\ P \in Scalars
  BY JointShares
<1>4. UserIndex \in Participants /\ SignerIndex \in Participants /\ UserIndex # SignerIndex
      /\ \A i \in Participants : i = UserIndex \/ i = SignerIndex
  BY DEF Participants, UserIndex, SignerIndex
<1>5. v[UserIndex] = device /\ v[SignerIndex] = set.s
  BY <1>3, <1>4 DEF TakenFrom
<1>6. C[UserIndex] = u /\ C[SignerIndex] = <<set.d, set.e>>
  BY <1>4 DEF Commitments
<1>7. /\ C \in [Participants -> SignerNonces \cup UserNonces]
      /\ C \in [Participants -> NonZero \X NonZero]
  <2>1. \A i \in Participants : C[i] \in SignerNonces \cup UserNonces
    BY <1>4, <1>6 DEF TakenFrom
  <2>2. C = [i \in Participants |-> C[i]]
    BY DEF Commitments
  <2> HIDE DEF C
  <2>3. SignerNonces \cup UserNonces \subseteq NonZero \X NonZero
    BY NonceAssumption
  <2> QED BY <2>1, <2>2, <2>3
<1>8. XOnly(P) \in Elements
  BY <1>3, Typed DEF XOnly, Elements
<1>9. ComputeBindingFactors(P, EventHash, C) \in [Participants -> Scalars]
  <2> HIDE DEF C, P
  <2>1. \A i \in DOMAIN C : Hash(<<"binding", XOnly(P), EventHash, C, i>>) \in Scalars
    BY <1>7, <1>8, CosignHashAssumption DEF ReducedHashes
  <2>2. DOMAIN C = Participants
    BY <1>7
  <2> QED BY <2>1, <2>2 DEF ComputeBindingFactors
<1>10. \A r \in Scalars : ComputeBIP340Challenge(r, P, EventHash) \in Scalars
  BY <1>8, CosignHashAssumption DEF ReducedHashes, ComputeBIP340Challenge
<1>11. Z = [i \in Participants |-> ComputePartialSignature(PrepareSignable(P, EventHash, C), C[i], i, v[i], LagrangeCoefficient(i, Participants))]
  <2>1. \A i \in Participants : (IF i = UserIndex THEN zUser ELSE zSigner) = ComputePartialSignature(sig, C[i], i, v[i], LagrangeCoefficient(i, Participants))
    <3> HIDE DEF sig, C
    <3> QED BY <1>4, <1>5, <1>6
  <2> QED BY <2>1
<1>12. VerifyBIP340(AggregateFullSignature(sig, Z), EventHash, P)
  <2> HIDE DEF Z, P, C
  <2> QED BY <1>3, <1>7, <1>9, <1>10, <1>11, PartialsVerify
<1>13. verifyPartialSignature(sig, zUser, C, UserIndex, lambda(UserIndex), set.userVerify)
  <2>1. set.userVerify = device
    BY DEF TakenFrom
  <2> HIDE DEF sig, C
  <2> QED BY <1>6, <2>1 DEF verifyPartialSignature, ComputePartialSignature
<1> HIDE DEF zUser
<1> QED BY <1>1, <1>2, <1>12, <1>13 DEF Complete, zUser

\* The evaluations of a polynomial are scalars.
LEMMA PolynomialTypes ==
  ASSUME NEW a \in PolynomialPairs, NEW b \in PolynomialPairs
  PROVE  evaluatePolynomial(a, UserIndex) \in Scalars /\ JointPubkey(a, b) \in Scalars
<1>1. JointPubkey(a, b) \in Scalars
  BY JointShares
<1>2. a \in [1..2 -> Scalars]
  <2>1. \A x, y \in Scalars : <<x, y>> \in [1..2 -> Scalars]
    OBVIOUS
  <2>2. a = <<a[1], a[2]>> /\ a[1] \in Scalars /\ a[2] \in Scalars
    BY NonZeroFinite DEF PolynomialPairs
  <2> QED BY <2>1, <2>2
<1>3. Values(a) \in [NonZero -> Scalars]
  <2> DEFINE K == 2
  <2>1. NonZero \in SUBSET NonZero /\ K \in Nat /\ K >= 1 /\ a \in [1..K -> Scalars] /\ Cardinality(NonZero) >= K
    <3>1. Cardinality(NonZero) >= 2
      <4>1. Cardinality(1..(Order - 1)) = Order - 1
        BY OrderNat, FS_Interval
      <4> QED BY <4>1, OrderNat DEF NonZero
    <3> QED BY <1>2, <3>1
  <2> HIDE DEF K
  <2> QED BY <2>1, InterpolateValues
<1>4. UserIndex \in NonZero
  BY NonZeroFinite DEF UserIndex
<1>5. Values(a)[UserIndex] \in Scalars
  BY <1>3, <1>4
<1>6. Values(a)[UserIndex] = evaluatePolynomial(a, UserIndex)
  BY <1>4 DEF Values
<1> QED BY <1>1, <1>5, <1>6

\* There is no key at first.
LEMMA GeneratedInit == CosignInit => GeneratedInv
<1> SUFFICES ASSUME CosignInit PROVE GeneratedInv
  OBVIOUS
<1>1. /\ calls = [c \in Calls |-> Idle] /\ secret = None /\ dkg = None /\ pathB = None /\ key = None
      /\ share = None /\ device = None /\ cos = None /\ hd = [pc |-> "idle"] /\ result = "none"
  BY DEF CosignInit
<1>2. calls = [c \in Calls |-> calls[c]] /\ hd.pc = "idle" /\ \A c \in Calls : calls[c].pc = "idle"
  BY <1>1 DEF Idle
<1> QED BY <1>1, <1>2 DEF GeneratedInv

\* A step that leaves the key and its uses alone.
LEMMA GeneratedKept ==
  ASSUME GeneratedInv, UNCHANGED <<key, share, device, secret, hd, cos, calls, result>>,
         pathB' \in NonZero \cup {None},
         dkg' # None => dkg'.a \in PolynomialPairs /\ dkg'.b \in PolynomialPairs,
         dkg' # None \/ pathB' # None => secret = None,
         dkg' # None => pathB' = None
  PROVE  GeneratedInv'
<1>1. \A a, b : GeneratedFrom(a, b)' = GeneratedFrom(a, b)
  BY DEF GeneratedFrom, TakenFrom, JointPubkey, ShareAt
<1> QED BY <1>1 DEF GeneratedInv

\* A step of a key that was generated.
LEMMA GeneratedMoves ==
  ASSUME GeneratedInv, NEW a \in PolynomialPairs, NEW b \in PolynomialPairs, GeneratedFrom(a, b)',
         secret # None, UNCHANGED <<secret, dkg, pathB>>, calls' = [c \in Calls |-> calls'[c]]
  PROVE  GeneratedInv'
BY DEF GeneratedInv

\* A step of another key, or with another kind of secret.
LEMMA OtherMoves ==
  ASSUME GeneratedInv, secret' \in SecretTypes, secret'.split # "polynomial", dkg' = None, pathB' = None,
         calls' = [c \in Calls |-> calls'[c]]
  PROVE  GeneratedInv'
BY NoneAssumption DEF GeneratedInv

\* Every step keeps the rows, the shares and the sessions of a generated key those
\* of its two polynomials.
LEMMA GeneratedStep == GeneratedInv /\ [CosignNext]_cosignVars => GeneratedInv'
<1> SUFFICES ASSUME GeneratedInv, [CosignNext]_cosignVars PROVE GeneratedInv'
  OBVIOUS
<1>0. calls = [c \in Calls |-> calls[c]]
  BY DEF GeneratedInv
\* With a secret that is not generated nothing is claimed.
<1>o. ASSUME secret # None, secret.split # "polynomial", UNCHANGED <<secret, dkg, pathB>>, calls' = [c \in Calls |-> calls'[c]]
      PROVE  GeneratedInv'
  <2>1. secret' \in SecretTypes /\ secret'.split # "polynomial" /\ dkg' = None /\ pathB' = None
    BY <1>o DEF GeneratedInv
  <2> QED BY <1>o, <2>1, OtherMoves
<1>1. CASE Round1
  <2>1. /\ UNCHANGED <<key, share, device, secret, hd, cos, calls, result, pathB>> /\ secret = None /\ pathB = None
    BY <1>1 DEF Round1, rowVars, cosVars
  <2>2. PICK a \in PolynomialPairs, b \in PolynomialPairs : dkg' = [phase |-> "round2", a |-> a, b |-> b]
    BY <1>1 DEF Round1
  <2>3. dkg'.a \in PolynomialPairs /\ dkg'.b \in PolynomialPairs
    BY <2>2
  <2> QED BY <2>1, <2>3, GeneratedKept
<1>2. CASE Round2
  <2>1. /\ UNCHANGED <<key, share, device, secret, hd, cos, calls, result, pathB>> /\ dkg # None
        /\ dkg' = [dkg EXCEPT !.phase = "finalize"]
    BY <1>2 DEF Round2, rowVars, cosVars
  <2>2. dkg'.a = dkg.a /\ dkg'.b = dkg.b
    BY <2>1
  <2> QED BY <2>1, <2>2, GeneratedKept DEF GeneratedInv
<1>3. CASE ExpireDKG
  <2>1. /\ UNCHANGED <<key, share, device, secret, hd, cos, calls, result, pathB>> /\ dkg' = None
    BY <1>3 DEF ExpireDKG, rowVars, cosVars
  <2> QED BY <2>1, GeneratedKept DEF GeneratedInv
<1>4. CASE Finalize
  <2>1. /\ dkg.a \in PolynomialPairs /\ dkg.b \in PolynomialPairs /\ secret = None /\ pathB = None
    BY <1>4 DEF Finalize, GeneratedInv
  <2>p. PICK a \in PolynomialPairs, b \in PolynomialPairs : a = dkg.a /\ b = dkg.b
    BY <2>1
  <2>2. /\ dkg' = None /\ pathB' = pathB /\ share' = share /\ cos' = cos /\ calls' = calls /\ result' = result
        /\ key' = [type |-> "frost", pubkey |-> XOnly(JointPubkey(a, b)), nsec |-> None]
        /\ secret' = [p |-> JointPubkey(a, b), split |-> "polynomial", phrase |-> evaluatePolynomial(a, UserIndex)]
        /\ device' = ShareAt(a, b, UserIndex)
        /\ hd' = [pc |-> "createShare", key |-> key',
                  share |-> [s |-> ShareAt(a, b, SignerIndex), userAtDkg |-> evaluatePolynomial(b, UserIndex),
                             userVerify |-> ShareAt(a, b, UserIndex)]]
    BY <1>4, <2>p DEF Finalize, Writing, cosVars
  <2>3. secret' \in SecretTypes /\ secret'.split = "polynomial"
    BY <2>2, PolynomialTypes DEF SecretTypes
  <2>4. share' = None /\ cos' = None /\ result' = "none" /\ \A c \in Calls : calls'[c].pc # "held"
    BY <2>1, <2>2 DEF GeneratedInv
  <2>5. hd'.pc = "createShare" /\ hd'.share = [s |-> ShareAt(a, b, SignerIndex), userAtDkg |-> evaluatePolynomial(b, UserIndex),
                             userVerify |-> ShareAt(a, b, UserIndex)]
    BY <2>2
  <2>6. GeneratedFrom(a, b)'
    BY <2>2, <2>4, <2>5 DEF GeneratedFrom, JointPubkey, ShareAt
  <2>7. secret' # None
    BY <2>3, NoneAssumption
  <2> QED BY <1>0, <2>1, <2>2, <2>3, <2>6, <2>7 DEF GeneratedInv
\* A generated key: its two polynomials.
<1> DEFINE KeyOf(a, b) == [type |-> "frost", pubkey |-> XOnly(JointPubkey(a, b)), nsec |-> None]
           ShareOf(a, b) == [s |-> ShareAt(a, b, SignerIndex), userAtDkg |-> evaluatePolynomial(b, UserIndex),
                             userVerify |-> ShareAt(a, b, UserIndex)]
<1>5. CASE CreateFrostUserShare
  <2>1. /\ hd.pc = "createShare" /\ UNCHANGED <<key, device, secret, dkg, pathB, cos, calls, result>>
        /\ \/ share' = (IF key = None THEN None ELSE hd.share) /\ hd' = [pc |-> "idle"]
           \/ UNCHANGED share /\ hd' = [hd EXCEPT !.pc = "rollbackKey"]
    BY <1>5 DEF CreateFrostUserShare, cosVars, Stop
  <2>2. secret # None
    BY <2>1 DEF GeneratedInv
  <2>3. CASE secret.split = "polynomial"
    <3>1. PICK a \in PolynomialPairs, b \in PolynomialPairs : GeneratedFrom(a, b)
      BY <2>2, <2>3 DEF GeneratedInv
    <3>2. hd.share = ShareOf(a, b) /\ share \in {None, ShareOf(a, b)}
      BY <2>1, <3>1 DEF GeneratedFrom
    <3>3. share' \in {None, ShareOf(a, b)}
      BY <2>1, <3>2
    <3>4. hd'.pc # "idle" => hd'.pc \in {"createShare", "rollbackKey"} /\ hd'.share = ShareOf(a, b)
      <4>1. CASE hd' = [pc |-> "idle"]
        BY <4>1
      <4>2. CASE hd' = [hd EXCEPT !.pc = "rollbackKey"]
        <5>1. hd'.share = hd.share
          BY <4>2
        <5>2. hd'.pc \in {hd.pc, "rollbackKey"}
          BY <4>2
        <5> QED BY <2>1, <3>2, <5>1, <5>2
      <4> QED BY <2>1, <4>1, <4>2
    <3>5. GeneratedFrom(a, b)'
      BY <2>1, <3>1, <3>3, <3>4 DEF GeneratedFrom, TakenFrom, JointPubkey, ShareAt
    <3> QED BY <1>0, <2>1, <2>2, <3>5, GeneratedMoves
  <2> QED BY <1>0, <1>o, <2>1, <2>2, <2>3
<1>6. CASE rollbackKey
  <2>1. /\ hd.pc = "rollbackKey" /\ UNCHANGED <<device, secret, dkg, pathB, cos, calls, result>> /\ hd' = [pc |-> "idle"]
        /\ key' \in {None, key} /\ share' \in {None, share}
    BY <1>6 DEF rollbackKey, cosVars, Stop, DeleteKey
  <2>2. secret # None
    BY <2>1 DEF GeneratedInv
  <2>3. CASE secret.split = "polynomial"
    <3>1. PICK a \in PolynomialPairs, b \in PolynomialPairs : GeneratedFrom(a, b)
      BY <2>2, <2>3 DEF GeneratedInv
    <3>2. key' \in {None, KeyOf(a, b)} /\ share' \in {None, ShareOf(a, b)} /\ hd'.pc = "idle"
      BY <2>1, <3>1 DEF GeneratedFrom
    <3>3. GeneratedFrom(a, b)'
      BY <2>1, <3>1, <3>2 DEF GeneratedFrom, TakenFrom, JointPubkey, ShareAt
    <3> QED BY <1>0, <2>1, <2>2, <3>3, GeneratedMoves
  <2> QED BY <1>0, <1>o, <2>1, <2>2, <2>3
<1>7. ASSUME NEW p \in NonZero, Existing(p) PROVE GeneratedInv'
  <2>1. /\ secret' = [p |-> p, split |-> "none", phrase |-> None] /\ dkg = None /\ pathB = None
        /\ UNCHANGED <<dkg, pathB, calls>>
    BY <1>7 DEF Existing, makeVars, cosVars
  <2>2. secret' \in SecretTypes /\ secret'.split # "polynomial"
    BY <2>1, NonZeroFinite DEF SecretTypes
  <2> QED BY <1>0, <2>1, <2>2, OtherMoves
\* The row of a generated key is not local, and no split of it is under way.
<1>g. ASSUME secret # None, secret.split = "polynomial"
      PROVE  hd.pc \in {"idle", "createShare", "rollbackKey"} /\ (key = None \/ key.type = "frost") /\ pathB = None
  <2>1. PICK a \in PolynomialPairs, b \in PolynomialPairs : GeneratedFrom(a, b)
    BY <1>g DEF GeneratedInv
  <2> QED BY <1>g, <2>1 DEF GeneratedInv, GeneratedFrom
<1>8. ASSUME NEW p \in NonZero, handleFrostMigratePathA(p) PROVE GeneratedInv'
  <2>1. key # None /\ key.type = "local" /\ UNCHANGED <<secret, dkg, pathB, calls>>
    BY <1>8 DEF handleFrostMigratePathA, cosVars
  <2>2. secret # None /\ secret.split # "polynomial"
    BY <1>g, <2>1 DEF GeneratedInv
  <2> QED BY <1>0, <1>o, <2>1, <2>2
<1>9. CASE MigrateRow \/ DeleteFrostUserShare
  <2>1. /\ hd.pc \in {"updateKey", "rollbackShare"} /\ UNCHANGED <<dkg, pathB, calls>>
        /\ secret' \in {secret, [secret EXCEPT !.split = "additive"]}
    BY <1>9 DEF MigrateRow, DeleteFrostUserShare, cosVars
  <2>2. secret # None /\ secret.split # "polynomial"
    BY <1>g, <2>1 DEF GeneratedInv
  <2>3. secret \in SecretTypes /\ dkg = None /\ pathB = None
    BY <2>2 DEF GeneratedInv
  <2>4. secret' \in SecretTypes /\ secret'.split # "polynomial"
    BY <2>1, <2>2, <2>3 DEF SecretTypes
  <2> QED BY <1>0, <2>1, <2>3, <2>4, OtherMoves
<1>10. ASSUME NEW p \in NonZero, handleFrostMigrateBInit(p) PROVE GeneratedInv'
  <2>1. /\ UNCHANGED <<key, share, device, secret, hd, cos, calls, result, dkg>> /\ pathB' = p
        /\ secret = None /\ dkg = None
    BY <1>10 DEF handleFrostMigrateBInit, rowVars, cosVars
  <2> QED BY <2>1, GeneratedKept
<1>11. ASSUME NEW p \in NonZero, handleFrostMigrateBFinalize(p) PROVE GeneratedInv'
  <2>1. pathB # None /\ pathB' = None /\ UNCHANGED <<share, dkg, cos, calls, result>>
    BY <1>11 DEF handleFrostMigrateBFinalize, cosVars
  <2>2. secret = None /\ dkg = None /\ pathB \in Scalars
    BY <2>1, NonZeroFinite DEF GeneratedInv
  <2>3. CASE UNCHANGED <<key, secret, device, hd>>
    BY <2>1, <2>2, <2>3, GeneratedKept
  <2>4. CASE secret' = [p |-> pathB, split |-> "additive", phrase |-> None]
    <3>1. secret' \in SecretTypes /\ secret'.split # "polynomial"
      BY <2>2, <2>4 DEF SecretTypes
    <3> QED BY <1>0, <2>1, <2>2, <3>1, OtherMoves
  <2> QED BY <1>11, <2>3, <2>4 DEF handleFrostMigrateBFinalize
<1>12. CASE LoseDevice \/ handleFrostUserDKGRecovery
  <2>1. UNCHANGED <<key, share, secret, dkg, pathB, hd, cos, calls, result>>
    BY <1>12 DEF LoseDevice, handleFrostUserDKGRecovery, makeVars, cosVars
  <2>2. secret # None
    BY <1>12 DEF LoseDevice, handleFrostUserDKGRecovery, GeneratedInv
  <2>3. CASE secret.split = "polynomial"
    <3>1. PICK a \in PolynomialPairs, b \in PolynomialPairs : GeneratedFrom(a, b)
      BY <2>2, <2>3 DEF GeneratedInv
    <3>2. device' \in {None, ShareAt(a, b, UserIndex)}
      <4>1. CASE LoseDevice
        BY <4>1 DEF LoseDevice
      <4>2. CASE handleFrostUserDKGRecovery
        <5>1. share = ShareOf(a, b) /\ secret.phrase = evaluatePolynomial(a, UserIndex)
              /\ device' = Add(secret.phrase, share.userAtDkg)
          BY <3>1, <4>2 DEF handleFrostUserDKGRecovery, GeneratedFrom
        <5> QED BY <5>1 DEF ShareAt
      <4> QED BY <1>12, <4>1, <4>2
    <3>3. GeneratedFrom(a, b)'
      BY <2>1, <3>1, <3>2 DEF GeneratedFrom, TakenFrom, JointPubkey, ShareAt
    <3> QED BY <1>0, <2>1, <2>2, <3>3, GeneratedMoves
  <2> QED BY <1>0, <1>o, <2>1, <2>2, <2>3
<1>13. ASSUME NEW nonces \in SignerNonces, NEW over \in {"http", "relays"}, BeginCosign(nonces, over)
       PROVE  GeneratedInv'
  <2>1. /\ UNCHANGED <<key, share, device, secret, dkg, pathB, hd>> /\ key # None /\ share # None
        /\ cos' = [d |-> nonces[1], e |-> nonces[2], s |-> share.s, P |-> key.pubkey, userVerify |-> share.userVerify]
        /\ result' = "none" /\ calls' = [c \in Calls |-> Idle]
    BY <1>13 DEF BeginCosign, rowVars, makeVars, jointPubkey
  <2>2. secret # None
    BY <2>1 DEF GeneratedInv
  <2>0. calls' = [c \in Calls |-> calls'[c]] /\ \A c \in Calls : calls'[c].pc = "idle"
    BY <2>1 DEF Idle
  <2>3. CASE secret.split = "polynomial"
    <3>1. PICK a \in PolynomialPairs, b \in PolynomialPairs : GeneratedFrom(a, b)
      BY <2>2, <2>3 DEF GeneratedInv
    <3>2. key = KeyOf(a, b) /\ share = ShareOf(a, b)
      BY <2>1, <3>1 DEF GeneratedFrom
    <3>3. nonces = <<nonces[1], nonces[2]>>
      BY NonceAssumption
    <3>4. <<cos'.d, cos'.e>> = nonces /\ cos'.s = ShareOf(a, b).s /\ cos'.P = KeyOf(a, b).pubkey /\ cos'.userVerify = ShareOf(a, b).userVerify
      BY <2>1, <3>2, <3>3
    <3>5. TakenFrom(cos', a, b)
      BY <3>4 DEF TakenFrom
    <3>6. GeneratedFrom(a, b)'
      BY <2>0, <2>1, <3>1, <3>5 DEF GeneratedFrom, TakenFrom, JointPubkey, ShareAt
    <3> QED BY <2>0, <2>1, <2>2, <3>6, GeneratedMoves
  <2> QED BY <1>o, <2>0, <2>1, <2>2, <2>3
<1>14. CASE Publish \/ GiveUp \/ Tick
  <2>1. UNCHANGED <<key, share, device, secret, dkg, pathB, hd, cos, calls, result>>
    BY <1>14 DEF Publish, GiveUp, Tick, rowVars, makeVars
  <2> QED BY <2>1, GeneratedKept DEF GeneratedInv
<1>15. ASSUME NEW c \in Calls, NEW u \in UserNonces, Lookup(c, u) PROVE GeneratedInv'
  <2>1. UNCHANGED <<key, share, device, secret, dkg, pathB, hd>> /\ key # None
    BY <1>15 DEF Lookup, rowVars, makeVars
  <2>2. secret # None
    BY <2>1 DEF GeneratedInv
  <2>3. \/ cos' = None /\ UNCHANGED calls /\ result' \in {"notfound", result}
        \/ /\ calls' = [calls EXCEPT ![c] = [pc |-> "held", late |-> answered, set |-> cos, u |-> u]]
           /\ cos # None /\ UNCHANGED <<cos, result>>
    BY <1>15 DEF Lookup
  <2>4. calls' = [d \in Calls |-> calls'[d]]
    BY <1>0, <2>3
  <2>5. CASE secret.split = "polynomial"
    <3>1. PICK a \in PolynomialPairs, b \in PolynomialPairs : GeneratedFrom(a, b)
      BY <2>2, <2>5 DEF GeneratedInv
    <3>2. \A d \in Calls : calls'[d].pc = "held" => TakenFrom(calls'[d].set, a, b) /\ calls'[d].u \in UserNonces
      <4>1. CASE UNCHANGED calls
        BY <3>1, <4>1 DEF GeneratedFrom
      <4>2. CASE calls' = [calls EXCEPT ![c] = [pc |-> "held", late |-> answered, set |-> cos, u |-> u]] /\ cos # None
        <5>1. \A d \in Calls : d # c => calls'[d] = calls[d]
          BY <1>0, <4>2
        <5>2. calls'[c].set = cos /\ calls'[c].u = u
          BY <1>0, <4>2
        <5>3. TakenFrom(cos, a, b)
          BY <3>1, <4>2 DEF GeneratedFrom
        <5>4. \A d \in Calls : calls[d].pc = "held" => TakenFrom(calls[d].set, a, b) /\ calls[d].u \in UserNonces
          BY <3>1 DEF GeneratedFrom
        <5> QED BY <5>1, <5>2, <5>3, <5>4
      <4> QED BY <2>3, <4>1, <4>2
    <3>3. cos' \in {None, cos} /\ result' \in {"notfound", result}
      BY <2>3
    <3>4. GeneratedFrom(a, b)'
      BY <2>1, <3>1, <3>2, <3>3 DEF GeneratedFrom, TakenFrom, JointPubkey, ShareAt
    <3> QED BY <2>1, <2>2, <2>4, <3>4, GeneratedMoves
  <2> QED BY <1>o, <2>1, <2>2, <2>4, <2>5
<1>16. ASSUME NEW c \in Calls, CompleteCosign(c) PROVE GeneratedInv'
  <2>1. /\ UNCHANGED <<key, share, device, secret, dkg, pathB, hd>> /\ key # None /\ device # None
        /\ calls[c].pc = "held" /\ cos' = None /\ calls' = [calls EXCEPT ![c] = Idle]
        /\ result' = Complete(calls[c].set, calls[c].u, userPartial(calls[c].set, calls[c].u))
    BY <1>16 DEF CompleteCosign, dropSession, rowVars, makeVars
  <2>2. secret # None
    BY <2>1 DEF GeneratedInv
  <2>3. calls' = [d \in Calls |-> calls'[d]]
    BY <1>0, <2>1
  <2>4. \A d \in Calls : calls'[d].pc = "held" => calls'[d] = calls[d]
    BY <1>0, <2>1 DEF Idle
  <2>5. CASE secret.split = "polynomial"
    <3>1. PICK a \in PolynomialPairs, b \in PolynomialPairs : GeneratedFrom(a, b)
      BY <2>2, <2>5 DEF GeneratedInv
    <3>2. TakenFrom(calls[c].set, a, b) /\ calls[c].u \in UserNonces
      BY <2>1, <3>1 DEF GeneratedFrom
    <3>3. key.pubkey = XOnly(JointPubkey(a, b)) /\ device = ShareAt(a, b, UserIndex)
      BY <2>1, <3>1 DEF GeneratedFrom
    <3>4. EvenY(JointPubkey(a, b)) => result' = "signed"
      BY <2>1, <3>2, <3>3, CosignVerifies
    <3>5. \A d \in Calls : calls'[d].pc = "held" => TakenFrom(calls'[d].set, a, b) /\ calls'[d].u \in UserNonces
      BY <2>4, <3>1 DEF GeneratedFrom
    <3>6. GeneratedFrom(a, b)'
      BY <2>1, <3>1, <3>4, <3>5 DEF GeneratedFrom, TakenFrom, JointPubkey, ShareAt
    <3> QED BY <2>1, <2>2, <2>3, <3>6, GeneratedMoves
  <2> QED BY <1>o, <2>1, <2>2, <2>3, <2>5
<1>17. CASE UNCHANGED cosignVars
  BY <1>17, GeneratedKept DEF cosignVars, GeneratedInv
<1> QED
  BY <1>1, <1>2, <1>3, <1>4, <1>5, <1>6, <1>7, <1>8, <1>9, <1>10, <1>11, <1>12, <1>13, <1>14, <1>15, <1>16, <1>17
  DEF CosignNext

\* A secret that is there once a result is: what the property says of it.
LEMMA GeneratedGives == GeneratedInv => GeneratedKeySigns
<1> SUFFICES ASSUME GeneratedInv, result \in {"badPartial", "badSignature"}, secret.split = "polynomial"
             PROVE  ~EvenY(secret.p)
  BY DEF GeneratedKeySigns
<1>1. secret # None
  BY DEF GeneratedInv
<1>2. PICK a \in PolynomialPairs, b \in PolynomialPairs : GeneratedFrom(a, b)
  BY <1>1 DEF GeneratedInv
<1>3. secret.p = JointPubkey(a, b)
  BY <1>2 DEF GeneratedFrom
<1> QED BY <1>2, <1>3 DEF GeneratedFrom

-----------------------------------------------------------------------------
(* DealerKeys.                                                             *)

\* At first no key row, no share and no request exists: nothing has a wrong owner.
LEMMA OwnersInit == KeyInit => OwnersInv
BY DEF KeyInit, OwnersInv, Quiet

\* An id is new when a row gets it, and the only rows and requests that name
\* it then are its owner's.
LEMMA OwnersStep == OwnersInv /\ [KeyNext]_keyVars => OwnersInv'
<1> SUFFICES ASSUME OwnersInv, [KeyNext]_keyVars PROVE OwnersInv'
  OBVIOUS
<1> USE IdAssumption DEF OwnersInv, Rows, NoRow
\* A request is written, ended, or starts; the key and its id stay.
<1>a. ASSUME NEW q \in Requests, NEW r, req' = [req EXCEPT ![q] = r], UNCHANGED <<keyRow, issued, shareRows>>,
             r.pc = "newKey" => r.user \in Users,
             r.pc \in {"share", "import"} =>
               r.id \in issued /\ (r.id = keyRow.id => r.user = keyRow.owner)
      PROVE  OwnersInv'
  BY <1>a
\* The insertion of a share for the request that asks for it.
<1>b. ASSUME NEW q \in Requests, req[q].pc \in {"share", "import"},
             Insert(req[q].id, req[q].i, req[q].user) \/ UNCHANGED shareRows
      PROVE  \A r \in shareRows' : r.id \in issued /\ (r.id = keyRow.id => r.by = keyRow.owner)
  BY <1>b DEF Insert, Row
<1>1. ASSUME NEW q \in Requests, StoreShare(q) PROVE OwnersInv'
  <2>1. UNCHANGED <<keyRow, issued>> /\ req[q].pc = "share"
    BY <1>1 DEF StoreShare
  <2>2. \A r \in shareRows' : r.id \in issued /\ (r.id = keyRow.id => r.by = keyRow.owner)
    BY <1>1, <1>b DEF StoreShare
  <2>3. CASE req' = [req EXCEPT ![q] = Quiet]
    BY <2>1, <2>2, <2>3 DEF Quiet
  <2>4. CASE req' = [req EXCEPT ![q] = [pc |-> "share", user |-> req[q].user, id |-> req[q].id, i |-> req[q].i + 1]]
    BY <2>1, <2>2, <2>4
  <2> QED
    BY <1>1, <2>3, <2>4 DEF StoreShare, Answer, Goto
<1>2. ASSUME NEW q \in Requests, ImportShare(q) PROVE OwnersInv'
  <2>1. UNCHANGED <<keyRow, issued>> /\ req[q].pc = "import" /\ req' = [req EXCEPT ![q] = Quiet]
    BY <1>2 DEF ImportShare, Answer
  <2>2. \A r \in shareRows' : r.id \in issued /\ (r.id = keyRow.id => r.by = keyRow.owner)
    BY <1>2, <1>b DEF ImportShare
  <2> QED
    BY <2>1, <2>2 DEF Quiet
<1>3. ASSUME NEW q \in Requests, DeleteStep(q) PROVE OwnersInv'
  <2>1. /\ keyRow' \in {keyRow, NoRow} /\ shareRows' \subseteq shareRows /\ issued' = issued
        /\ req' = [req EXCEPT ![q] = Quiet]
    BY <1>3 DEF DeleteStep, DeleteFrostKey, Answer
  <2>2. \A p \in Requests : req'[p] = req[p] \/ req'[p] = Quiet
    BY <2>1
  <2>3. req' = [p \in Requests |-> req'[p]]
    BY <2>1
  <2> QED
    BY <2>1, <2>2, <2>3 DEF Quiet
<1>4. ASSUME NEW q \in Requests, AskCanSign(q) \/ Sign(q) PROVE OwnersInv'
  <2>1. PICK r \in {Quiet, [pc |-> "sign", user |-> req[q].user, id |-> req[q].id, i |-> 0]} :
          req' = [req EXCEPT ![q] = r]
    BY <1>4 DEF AskCanSign, Sign, Goto, Answer
  <2>2. r.pc \notin {"share", "import", "newKey"}
    BY <2>1 DEF Quiet
  <2> QED
    BY <1>4, <1>a, <2>1, <2>2 DEF AskCanSign, Sign
<1>5. ASSUME NEW q \in Requests, NEW u \in Users, handleDeleteFrostKey(q, u) \/ handleFrostSign(q, u)
      PROVE  OwnersInv'
  <2>1. PICK pc \in {"delete", "can"} :
          req' = [req EXCEPT ![q] = [pc |-> pc, user |-> u, id |-> keyRow.id, i |-> 0]]
    BY <1>5 DEF handleDeleteFrostKey, handleFrostSign, Goto
  <2> QED
    BY <1>5, <1>a, <2>1 DEF handleDeleteFrostKey, handleFrostSign
\* The row of a new key.
<1>c. ASSUME NEW q \in Requests, NEW u \in Users, NEW id \in KeyIds, NEW pc \in {"share", "import"}, NEW i,
             CreateFrostKey(id), keyRow' = [id |-> id, owner |-> u], issued' = issued \cup {id},
             UNCHANGED shareRows, req' = [req EXCEPT ![q] = [pc |-> pc, user |-> u, id |-> id, i |-> i]]
      PROVE  OwnersInv'
  <2>1. id \notin issued
    BY <1>c DEF CreateFrostKey
  <2>2. /\ req' = [p \in Requests |-> req'[p]]
        /\ \A p \in Requests : p # q => req'[p] = req[p]
        /\ req'[q].id = id /\ req'[q].user = u /\ req'[q].pc = pc
    BY <1>c
  <2>3. \A p \in Requests :
          /\ req'[p].pc = "newKey" => req'[p].user \in Users
          /\ req'[p].pc \in {"share", "import"} =>
            req'[p].id \in issued' /\ (req'[p].id = keyRow'.id => req'[p].user = keyRow'.owner)
    BY <1>c, <2>1, <2>2
  <2>4. \A r \in shareRows' : r.id \in issued' /\ (r.id = keyRow'.id => r.by = keyRow'.owner)
    BY <1>c, <2>1
  <2>5. keyRow' \in Rows \cup {NoRow} /\ issued' \subseteq KeyIds /\ keyRow'.id \in issued'
    BY <1>c
  <2> QED
    BY <2>2, <2>3, <2>4, <2>5
<1>6. ASSUME NEW q \in Requests, NEW u \in Users, NEW id \in KeyIds, handleCreateFrostKey(q, u, id)
      PROVE  OwnersInv'
  BY <1>6, <1>c DEF handleCreateFrostKey, Goto
<1>7. ASSUME NEW q \in Requests, NEW id \in KeyIds, ImportNewKey(q, id) PROVE OwnersInv'
  <2>1. CASE CreateFrostKey(id)
    BY <1>7, <1>c, <2>1 DEF ImportNewKey, Goto
  <2>2. CASE req' = [req EXCEPT ![q] = Quiet] /\ UNCHANGED <<keyRow, issued, shareRows>>
    BY <1>a, <2>2 DEF Quiet
  <2> QED
    BY <1>7, <2>1, <2>2 DEF ImportNewKey, Answer
<1>8. ASSUME NEW q \in Requests, NEW u \in Users, NEW i \in Indices,
             handleExportFrostShare(q, u, i) \/ handleImportFrostShare(q, u, i)
      PROVE  OwnersInv'
  <2>1. UNCHANGED <<keyRow, issued, shareRows>>
    BY <1>8 DEF handleExportFrostShare, handleImportFrostShare
  <2>2. CASE UNCHANGED req
    BY <2>1, <2>2
  <2>3. CASE req' = [req EXCEPT ![q] = [pc |-> "newKey", user |-> u, id |-> NoKey, i |-> i]]
    BY <1>a, <2>1, <2>3
  <2>4. CASE /\ keyRow # NoRow /\ keyRow.owner = u
             /\ req' = [req EXCEPT ![q] = [pc |-> "import", user |-> u, id |-> keyRow.id, i |-> i]]
    BY <1>a, <2>1, <2>4
  <2> QED
    BY <1>8, <2>2, <2>3, <2>4 DEF handleExportFrostShare, handleImportFrostShare, Goto, Owns
<1>9. CASE UNCHANGED keyVars
  BY <1>9 DEF keyVars
<1> QED
  BY <1>1, <1>2, <1>3, <1>4, <1>5, <1>6, <1>7, <1>8, <1>9 DEF KeyNext

\* The list of shares starts with enough of them: the one with the least index
\* that is left out would have fewer before it than there are in.
LEMMA FirstEnough ==
  ASSUME NEW S, IsFiniteSet(S), \A r \in S : r.i \in Nat, NEW n \in Nat, Cardinality(S) >= n
  PROVE  Cardinality({r \in S : Cardinality({t \in S : t.i < r.i}) < n}) >= n
<1> DEFINE F == {r \in S : Cardinality({t \in S : t.i < r.i}) < n}
           G == S \ F
           X == {r.i : r \in G}
<1>1. IsFiniteSet(F) /\ Cardinality(F) \in Nat
  BY FS_Subset, FS_CardinalityType
<1>2. CASE G = {}
  <2>1. F = S
    BY <1>2
  <2> QED BY <2>1
<1>3. ASSUME G # {}, Cardinality(F) < n PROVE FALSE
  <2>1. X \subseteq Nat /\ X # {}
    BY <1>3
  <2>2. PICK x \in X : \A y \in X : x <= y
    <3> HIDE DEF X
    <3> QED BY <2>1, LeastOf
  <2>3. PICK m \in G : m.i = x
    BY <2>2
  <2> DEFINE B == {t \in S : t.i < m.i}
  <2>4. B \subseteq F
    <3>1. ASSUME NEW t \in S, t.i < m.i, t \notin F PROVE FALSE
      <4>1. t.i \in X
        BY <3>1
      <4>2. x <= t.i /\ t.i \in Nat /\ x \in Nat
        BY <2>1, <2>2, <4>1
      <4> QED BY <2>3, <3>1, <4>2
    <3> HIDE DEF F
    <3> QED BY <3>1
  <2>5. Cardinality(B) <= Cardinality(F) /\ Cardinality(B) \in Nat
    <3> HIDE DEF B, F
    <3> QED BY <1>1, <2>4, FS_Subset, FS_CardinalityType
  <2>6. Cardinality(B) < n
    BY <1>1, <1>3, <2>5
  <2>7. m \in F
    BY <2>3, <2>6
  <2> QED BY <2>3, <2>7
<1> QED BY <1>1, <1>2, <1>3

\* Shares with distinct indices have as many indices.
LEMMA DistinctIndices ==
  ASSUME NEW S, IsFiniteSet(S), \A r, t \in S : r.i = t.i => r = t
  PROVE  Cardinality({r.i : r \in S}) = Cardinality(S)
<1> DEFINE X == {r.i : r \in S}
           f == [r \in S |-> r.i]
<1>1. f \in Bijection(S, X)
  <2>1. f \in [S -> X]
    OBVIOUS
  <2>2. \A r, t \in S : f[r] = f[t] => r = t
    OBVIOUS
  <2>3. \A x \in X : \E r \in S : f[r] = x
    OBVIOUS
  <2> HIDE DEF f, X
  <2> QED BY <2>1, <2>2, <2>3 DEF Bijection, Injection, Surjection, IsInjective
<1> HIDE DEF f, X
<1>2. Cardinality(X) = Cardinality(S)
  <2>1. ExistsBijection(S, X)
    BY <1>1 DEF ExistsBijection
  <2> QED BY <2>1, FS_Bijection
<1> QED BY <1>2 DEF X

\* Whichever of its shares are taken, as many as the threshold says sign.
LEMMA SharesVerify ==
  ASSUME NEW S, IsFiniteSet(S), poly \in Polynomials,
         \A r \in S : r.i \in Indices /\ r.s = evaluatePolynomial(poly, r.i),
         \A r, t \in S : r.i = t.i => r = t,
         Cardinality(S) >= Threshold,
         NEW N \in [{r.i : r \in S} -> NoncePairs]
  PROVE  SignMessage(S, N)
<1> DEFINE ids == {r.i : r \in S}
           P == poly[1]
           v == Values(poly)
           sig == PrepareSignable(P, Event, N)
           have == [i \in ids |-> (CHOOSE r \in S : r.i = i).s]
           Z == [i \in ids |-> ComputePartialSignature(sig, N[i], i, have[i], LagrangeCoefficient(i, ids))]
<1>1. Threshold \in Nat /\ Threshold >= 1 /\ Indices \subseteq NonZero
  BY ThresholdAssumption, OrderNat DEF ValidConfig, Indices, NonZero
<1>2. poly \in [1..Threshold -> Scalars] /\ P \in Scalars
  <2>1. poly \in [1..Threshold -> NonZero] /\ 1 \in 1..Threshold
    BY <1>1, PolynomialAssumption
  <2> QED BY <2>1, NonZeroFinite
<1>3. ids \in SUBSET NonZero /\ ids \in SUBSET Indices
  BY <1>1
<1>4. Cardinality(ids) >= Threshold
  BY DistinctIndices
<1> HIDE DEF ids
<1>5. v \in [NonZero -> Scalars] /\ Interpolate(ids, v) = P
  BY <1>1, <1>2, <1>3, <1>4, InterpolateValues
<1>6. N \in [ids -> NoncePairs] /\ N \in [ids -> NonZero \X NonZero]
  BY NoncePairAssumption DEF ids
<1>7. XOnly(P) \in Elements
  BY <1>2, Typed DEF XOnly, Elements
<1>8. ComputeBindingFactors(P, Event, N) \in [ids -> Scalars]
  <2>1. N \in UNION {[s -> NoncePairs] : s \in SUBSET Indices}
    BY <1>3, <1>6
  <2>2. \A i \in DOMAIN N : Hash(<<"binding", XOnly(P), Event, N, i>>) \in Scalars
    BY <1>7, <2>1, KeyHashAssumption DEF ReducedHashes
  <2>3. DOMAIN N = ids
    BY <1>6
  <2> QED BY <2>2, <2>3 DEF ComputeBindingFactors
<1>9. \A r \in Scalars : ComputeBIP340Challenge(r, P, Event) \in Scalars
  BY <1>7, KeyHashAssumption DEF ReducedHashes, ComputeBIP340Challenge
<1>10. \A i \in ids : have[i] = v[i]
  <2>1. ASSUME NEW i \in ids PROVE have[i] = v[i]
    <3>1. \E r \in S : r.i = i
      BY DEF ids
    <3>2. PICK r \in S : r = (CHOOSE t \in S : t.i = i) /\ r.i = i
      BY <3>1
    <3>3. have[i] = r.s /\ r.s = evaluatePolynomial(poly, i) /\ i \in NonZero
      BY <1>3, <3>2
    <3> QED BY <3>3 DEF Values
  <2> QED BY <2>1
<1>11. Z = [i \in ids |-> ComputePartialSignature(PrepareSignable(P, Event, N), N[i], i, v[i], LagrangeCoefficient(i, ids))]
  <2> HIDE DEF v, have
  <2> QED BY <1>10
<1>12. VerifyBIP340(AggregateFullSignature(PrepareSignable(P, Event, N), Z), Event, P)
  <2> HIDE DEF Z, P, v
  <2> QED BY <1>2, <1>3, <1>5, <1>6, <1>8, <1>9, <1>11, PartialsVerify
<1> QED BY <1>12 DEF SignMessage, ids

\* No share is there at first.
LEMMA SplitInit == KeyInit => SplitInv
<1> SUFFICES ASSUME KeyInit PROVE SplitInv
  OBVIOUS
<1>1. \A q \in Requests : req[q].pc = "idle"
  BY DEF KeyInit, Quiet
<1>2. IsFiniteSet({}) /\ shareRows = {} /\ outcome = "none" /\ backend \in Backends /\ poly \in Polynomials /\ bundles \subseteq Indices
  BY FS_EmptySet DEF KeyInit
<1> QED BY <1>1, <1>2 DEF SplitInv, DealerKeySigns

\* The shares the coordinator takes are enough.
LEMMA FirstOfList ==
  ASSUME SplitInv, NEW id, NEW n \in Nat, Cardinality(ListLocalFrostShares(id)) >= n,
         NEW S \in First(n, ListLocalFrostShares(id))
  PROVE  S \subseteq ListLocalFrostShares(id) /\ Cardinality(S) >= n
<1> DEFINE T == ListLocalFrostShares(id)
           F == {r \in T : Cardinality({t \in T : t.i < r.i}) < n}
<1>1. IsFiniteSet(T) /\ \A r \in T : r.i \in Nat
  <2>1. T \subseteq shareRows /\ \A r \in shareRows : r.i \in Nat
    BY DEF ListLocalFrostShares, SplitInv, Indices
  <2> QED BY <2>1, FS_Subset DEF SplitInv
<1>2. backend \in {"postgres", "sqlite", "memory"}
  BY BackendAssumption DEF SplitInv
<1> HIDE DEF T
<1>3. F \subseteq T /\ Cardinality(F) >= n
  BY <1>1, FirstEnough DEF T
<1>4. CASE backend = "memory"
  <2>1. S \in SUBSET T /\ Cardinality(S) = n
    BY <1>4 DEF First, MemoryFirst, kSubset, T
  <2> QED BY <2>1 DEF T
<1>5. CASE backend \in {"postgres", "sqlite"}
  <2>1. S = F
    BY <1>5 DEF First, PostgresFirst, SQLiteFirst, T
  <2> QED BY <1>3, <2>1 DEF T
<1> QED BY <1>2, <1>4, <1>5

\* A call that CanSign let through ends with a signature, unless the key is gone.
LEMMA SignSplit ==
  ASSUME SplitInv, NEW q \in Requests, Sign(q)
  PROVE  DealerKeySigns'
<1> DEFINE id == req[q].id
<1>1. req[q].pc = "sign" /\ SignEvent(id, outcome')
  BY DEF Sign
<1>2. CASE keyRow.id # id
  BY <1>1, <1>2 DEF SignEvent, DealerKeySigns
<1>3. CASE keyRow.id = id
  <2> DEFINE T == ListLocalFrostShares(id)
  <2>1. Cardinality(T) >= Threshold
    BY <1>1, <1>3 DEF SplitInv
  <2>2. Threshold \in Nat /\ IsFiniteSet(T) /\ Cardinality(T) \in Nat
    <3>1. T \subseteq shareRows
      BY DEF ListLocalFrostShares
    <3> QED BY <3>1, FS_Subset, FS_CardinalityType, ThresholdAssumption DEF SplitInv
  <2>3. PICK S \in First(Threshold, T) : \E N \in [{r.i : r \in S} -> NoncePairs] :
          outcome' = IF SignMessage(S, N) THEN "signed" ELSE "badSignature"
    <3> HIDE DEF T, id
    <3>1. ~(Cardinality(T) < Threshold)
      BY <2>1, <2>2
    <3> QED BY <1>1, <1>3, <3>1 DEF SignEvent, T
  <2>4. S \subseteq T /\ Cardinality(S) >= Threshold
    BY <2>1, <2>2, <2>3, FirstOfList
  <2>5. IsFiniteSet(S)
    BY <2>2, <2>4, FS_Subset
  <2>6. /\ poly \in Polynomials
        /\ \A r \in S : r.i \in Indices /\ r.s = evaluatePolynomial(poly, r.i)
        /\ \A r, t \in S : r.i = t.i => r = t
    <3>1. \A r \in S : r \in shareRows /\ r.id = id
      BY <2>4 DEF ListLocalFrostShares
    <3> HIDE DEF id
    <3> QED BY <3>1 DEF SplitInv
  <2>7. \A N \in [{r.i : r \in S} -> NoncePairs] : SignMessage(S, N)
    BY <2>4, <2>5, <2>6, SharesVerify
  <2> QED BY <2>3, <2>7 DEF DealerKeySigns
<1> QED BY <1>2, <1>3

\* A share is written at an index its key had none at.
LEMMA InsertSplit ==
  ASSUME SplitInv, NEW id \in issued, NEW i \in Indices, NEW u,
         Insert(id, i, u) \/ UNCHANGED shareRows
  PROVE  /\ IsFiniteSet(shareRows') /\ shareRows \subseteq shareRows'
         /\ \A r \in shareRows' : r.i \in Indices /\ r.s = evaluatePolynomial(poly, r.i) /\ r.id \in issued
         /\ \A r, t \in shareRows' : r.id = t.id /\ r.i = t.i => r = t
<1>1. CASE UNCHANGED shareRows
  BY <1>1 DEF SplitInv
<1>2. CASE shareRows' = shareRows \cup {Row(id, i, u)} /\ ~HasShare(id, i)
  <2>1. IsFiniteSet(shareRows')
    BY <1>2, FS_AddElement DEF SplitInv
  <2>2. Row(id, i, u).id = id /\ Row(id, i, u).i = i /\ Row(id, i, u).s = evaluatePolynomial(poly, i)
    BY DEF Row
  <2>3. \A r \in shareRows : ~(r.id = id /\ r.i = i)
    BY <1>2 DEF HasShare
  <2> QED BY <1>2, <2>1, <2>2, <2>3 DEF SplitInv
<1>3. backend \in {"postgres", "sqlite", "memory"}
  BY BackendAssumption DEF SplitInv
<1>4. CreateFrostShare(id, i) => ~HasShare(id, i)
  BY <1>3 DEF CreateFrostShare, PostgresCreateFrostShare, SQLiteCreateFrostShare, MemoryCreateFrostShare
<1> QED BY <1>1, <1>2, <1>4 DEF Insert

\* The shares of a key stay enough when more are written.
LEMMA MoreShares ==
  ASSUME SplitInv, shareRows \subseteq shareRows', IsFiniteSet(shareRows'), NEW id,
         Cardinality(ListLocalFrostShares(id)) >= Threshold
  PROVE  Cardinality({t \in shareRows' : t.id = id}) >= Threshold
<1> DEFINE S == ListLocalFrostShares(id)
           T == {r \in shareRows' : r.id = id}
<1>1. S \subseteq T /\ T \subseteq shareRows'
  BY DEF ListLocalFrostShares
<1> HIDE DEF S, T
<1>2. IsFiniteSet(T) /\ IsFiniteSet(S)
  BY <1>1, FS_Subset
<1>3. Cardinality(S) <= Cardinality(T) /\ Cardinality(S) \in Nat /\ Cardinality(T) \in Nat
  BY <1>1, <1>2, FS_Subset, FS_CardinalityType
<1>4. Cardinality(S) >= Threshold /\ Threshold \in Nat
  BY ThresholdAssumption DEF S
<1>5. Cardinality(T) >= Threshold
  BY <1>3, <1>4
<1> QED BY <1>5 DEF T

\* Every step keeps the shares the polynomial's, and enough of them for a request
\* that may sign.
LEMMA SplitStep == OwnersInv /\ SplitInv /\ [KeyNext]_keyVars => SplitInv'
<1> SUFFICES ASSUME OwnersInv, SplitInv, [KeyNext]_keyVars PROVE SplitInv'
  OBVIOUS
\* What a request may be, when the shares and the key stay.
<1> DEFINE Allowed(r) ==
             /\ r.pc \in {"share", "newKey", "import"} => r.i \in Indices
             /\ r.pc \in {"can", "sign"} => r.id \in issued
             /\ r.pc = "sign" /\ r.id = keyRow.id => Cardinality(ListLocalFrostShares(r.id)) >= Threshold
<1>0. /\ req = [q \in Requests |-> req[q]] /\ \A q \in Requests : Allowed(req[q])
      /\ keyRow \in Rows \cup {NoRow} /\ issued \subseteq KeyIds
      /\ keyRow # NoRow => keyRow.id \in issued
  BY DEF OwnersInv, SplitInv
<1>q. Allowed(Quiet)
  BY DEF Quiet
<1>a. ASSUME NEW q \in Requests, NEW r, req' = [req EXCEPT ![q] = r], Allowed(r),
             UNCHANGED <<backend, poly, keyRow, issued, shareRows, bundles>>, DealerKeySigns'
      PROVE  SplitInv'
  <2>1. \A p \in Requests : req'[p] = IF p = q THEN r ELSE req[p]
    BY <1>0, <1>a
  <2>2. \A p \in Requests : Allowed(req'[p])
    BY <1>0, <1>a, <2>1
  <2>3. \A id : ListLocalFrostShares(id)' = ListLocalFrostShares(id)
    BY <1>a DEF ListLocalFrostShares
  <2> QED BY <1>a, <2>2, <2>3 DEF SplitInv
\* A share is written, for a key that the request names.
<1>b. ASSUME NEW q \in Requests, req[q].pc \in {"share", "import"},
             Insert(req[q].id, req[q].i, req[q].user) \/ UNCHANGED shareRows,
             NEW r, req' = [req EXCEPT ![q] = r], r.pc \in {"idle", "share"}, r.pc = "share" => r.i \in Indices,
             UNCHANGED <<backend, poly, keyRow, issued, bundles, outcome>>
      PROVE  SplitInv'
  <2>1. req[q].id \in issued /\ req[q].i \in Indices
    BY <1>b DEF OwnersInv, SplitInv
  <2>2. /\ IsFiniteSet(shareRows') /\ shareRows \subseteq shareRows'
        /\ \A t \in shareRows' : t.i \in Indices /\ t.s = evaluatePolynomial(poly, t.i) /\ t.id \in issued
        /\ \A t, w \in shareRows' : t.id = w.id /\ t.i = w.i => t = w
    BY <1>b, <2>1, InsertSplit
  <2>3. \A p \in Requests : req'[p] = IF p = q THEN r ELSE req[p]
    BY <1>0, <1>b
  <2>4. \A p \in Requests :
          /\ req'[p].pc \in {"share", "newKey", "import"} => req'[p].i \in Indices
          /\ req'[p].pc \in {"can", "sign"} => req'[p].id \in issued
          /\ req'[p].pc = "sign" /\ req'[p].id = keyRow.id =>
               Cardinality(ListLocalFrostShares(req'[p].id)) >= Threshold
    BY <1>0, <1>b, <2>3
  <2>5. ASSUME NEW p \in Requests, req'[p].pc = "sign", req'[p].id = keyRow'.id
        PROVE  Cardinality({t \in shareRows' : t.id = req'[p].id}) >= Threshold
    <3>1. Cardinality(ListLocalFrostShares(req'[p].id)) >= Threshold
      BY <1>b, <2>4, <2>5
    <3> QED BY <2>2, <3>1, MoreShares
  <2> QED BY <1>b, <2>2, <2>4, <2>5 DEF SplitInv, ListLocalFrostShares, DealerKeySigns
<1>1. ASSUME NEW q \in Requests, StoreShare(q) PROVE SplitInv'
  <2>1. /\ req[q].pc = "share" /\ UNCHANGED <<backend, poly, keyRow, issued, bundles, outcome>>
        /\ Insert(req[q].id, req[q].i, req[q].user) \/ UNCHANGED shareRows
    BY <1>1 DEF StoreShare
  <2>2. CASE req' = [req EXCEPT ![q] = Quiet]
    BY <1>b, <2>1, <2>2 DEF Quiet
  <2>3. CASE req[q].i # TotalShares /\ req' = [req EXCEPT ![q] = [pc |-> "share", user |-> req[q].user, id |-> req[q].id, i |-> req[q].i + 1]]
    <3>1. req[q].i + 1 \in Indices
      BY <2>1, <2>3, ThresholdAssumption DEF SplitInv, Indices
    <3> QED BY <1>b, <2>1, <2>3, <3>1
  <2> QED BY <1>1, <2>2, <2>3 DEF StoreShare, Answer, Goto
<1>2. ASSUME NEW q \in Requests, ImportShare(q) PROVE SplitInv'
  <2>1. /\ req[q].pc = "import" /\ UNCHANGED <<backend, poly, keyRow, issued, bundles, outcome>>
        /\ Insert(req[q].id, req[q].i, req[q].user) \/ UNCHANGED shareRows
        /\ req' = [req EXCEPT ![q] = Quiet]
    BY <1>2 DEF ImportShare, Answer
  <2> QED BY <1>b, <2>1 DEF Quiet
<1>3. ASSUME NEW q \in Requests, DeleteStep(q) PROVE SplitInv'
  <2> DEFINE id == req[q].id
  <2>1. /\ UNCHANGED <<backend, poly, issued, bundles, outcome>> /\ req' = [req EXCEPT ![q] = Quiet]
        /\ keyRow' = IF keyRow.id = id THEN NoRow ELSE keyRow
        /\ shareRows' = IF keyRow.id = id THEN {r \in shareRows : r.id # id} ELSE shareRows
    BY <1>3 DEF DeleteStep, DeleteFrostKey, Answer
  <2>2. CASE keyRow.id # id
    BY <1>a, <1>q, <2>1, <2>2 DEF SplitInv, DealerKeySigns
  <2>3. CASE keyRow.id = id
    <3>1. keyRow'.id = NoKey /\ shareRows' \subseteq shareRows /\ IsFiniteSet(shareRows')
      BY <2>1, <2>3, FS_Subset DEF NoRow, SplitInv
    <3>2. \A p \in Requests : req'[p] = Quiet \/ req'[p] = req[p]
      BY <1>0, <2>1
    <3>3. \A p \in Requests : req'[p].pc \in {"can", "sign"} => req'[p].id \in issued /\ req'[p].id # NoKey
      BY <1>0, <3>2, IdAssumption DEF Quiet
    <3>4. \A p \in Requests : req'[p].pc \in {"share", "newKey", "import"} => req'[p].i \in Indices
      BY <1>0, <3>2 DEF Quiet
    <3> QED BY <2>1, <3>1, <3>3, <3>4 DEF SplitInv, DealerKeySigns
  <2> QED BY <2>2, <2>3
<1>4. ASSUME NEW q \in Requests, AskCanSign(q) PROVE SplitInv'
  <2>1. /\ req[q].pc = "can" /\ UNCHANGED <<backend, poly, keyRow, issued, shareRows, bundles, outcome>>
    BY <1>4 DEF AskCanSign
  <2>2. DealerKeySigns'
    BY <2>1 DEF SplitInv, DealerKeySigns
  <2>3. PICK r \in {Quiet, [pc |-> "sign", user |-> req[q].user, id |-> req[q].id, i |-> 0]} :
          req' = [req EXCEPT ![q] = r] /\ (r # Quiet => CanSign(req[q].id))
    BY <1>4 DEF AskCanSign, Goto, Answer
  <2>4. Allowed(r)
    BY <1>0, <1>q, <2>1, <2>3 DEF CanSign
  <2> QED BY <1>a, <2>1, <2>2, <2>3, <2>4
<1>5. ASSUME NEW q \in Requests, Sign(q) PROVE SplitInv'
  <2>1. UNCHANGED <<backend, poly, keyRow, issued, shareRows, bundles>> /\ req' = [req EXCEPT ![q] = Quiet]
    BY <1>5 DEF Sign, Answer
  <2>2. DealerKeySigns'
    BY <1>5, SignSplit
  <2> QED BY <1>a, <1>q, <2>1, <2>2
<1>6. ASSUME NEW q \in Requests, NEW u \in Users, handleDeleteFrostKey(q, u) \/ handleFrostSign(q, u)
      PROVE  SplitInv'
  <2>1. /\ keyRow.owner = u /\ UNCHANGED <<backend, poly, keyRow, issued, shareRows, bundles, outcome>>
    BY <1>6 DEF handleDeleteFrostKey, handleFrostSign
  <2>2. keyRow.id \in issued
    BY <1>0, <2>1, IdAssumption DEF NoRow
  <2>3. PICK pc \in {"delete", "can"} : req' = [req EXCEPT ![q] = [pc |-> pc, user |-> u, id |-> keyRow.id, i |-> 0]]
    BY <1>6 DEF handleDeleteFrostKey, handleFrostSign, Goto
  <2>4. DealerKeySigns'
    BY <2>1 DEF SplitInv, DealerKeySigns
  <2> QED BY <1>a, <2>1, <2>2, <2>3, <2>4
\* The row of a new key: no request that may sign names its id.
<1>c. ASSUME NEW q \in Requests, NEW u, NEW id, NEW pc \in {"share", "import"}, NEW i \in Indices,
             id \notin issued, keyRow' = [id |-> id, owner |-> u], issued' = issued \cup {id},
             req' = [req EXCEPT ![q] = [pc |-> pc, user |-> u, id |-> id, i |-> i]],
             UNCHANGED <<backend, poly, shareRows, bundles, outcome>>
      PROVE  SplitInv'
  <2> DEFINE r == [pc |-> pc, user |-> u, id |-> id, i |-> i]
  <2>1. \A p \in Requests : req'[p] = IF p = q THEN r ELSE req[p]
    BY <1>0, <1>c
  <2>2. r.pc \in {"share", "import"} /\ r.i = i
    OBVIOUS
  <2> HIDE DEF r
  <2>3. \A p \in Requests :
          /\ req'[p].pc \in {"share", "newKey", "import"} => req'[p].i \in Indices
          /\ req'[p].pc \in {"can", "sign"} => req'[p].id \in issued /\ req'[p].id # keyRow'.id
    BY <1>0, <1>c, <2>1, <2>2
  <2> QED BY <1>c, <2>3 DEF SplitInv, DealerKeySigns
<1>7. ASSUME NEW q \in Requests, NEW id \in KeyIds, ImportNewKey(q, id) PROVE SplitInv'
  <2>1. req[q].pc = "newKey" /\ id \notin issued /\ UNCHANGED <<backend, poly, shareRows, bundles, outcome>>
    BY <1>7 DEF ImportNewKey
  <2>2. CASE CreateFrostKey(id)
    <3>1. /\ keyRow' = [id |-> id, owner |-> req[q].user] /\ issued' = issued \cup {id}
          /\ req' = [req EXCEPT ![q] = [pc |-> "import", user |-> req[q].user, id |-> id, i |-> req[q].i]]
      BY <1>7, <2>2 DEF ImportNewKey, Goto
    <3>2. req[q].i \in Indices
      BY <1>0, <2>1
    <3> QED BY <1>c, <2>1, <3>1, <3>2
  <2>3. CASE ~CreateFrostKey(id)
    <3>1. UNCHANGED <<keyRow, issued>> /\ req' = [req EXCEPT ![q] = Quiet]
      BY <1>7, <2>3 DEF ImportNewKey, Answer
    <3>2. DealerKeySigns'
      BY <2>1 DEF SplitInv, DealerKeySigns
    <3> QED BY <1>a, <1>q, <2>1, <3>1, <3>2
  <2> QED BY <2>2, <2>3
<1>8. ASSUME NEW q \in Requests, NEW id \in KeyIds, NEW u \in Users, handleCreateFrostKey(q, u, id) PROVE SplitInv'
  <2>1. /\ id \notin issued /\ keyRow' = [id |-> id, owner |-> u] /\ issued' = issued \cup {id}
        /\ req' = [req EXCEPT ![q] = [pc |-> "share", user |-> u, id |-> id, i |-> 1]]
        /\ UNCHANGED <<backend, poly, shareRows, bundles, outcome>>
    BY <1>8 DEF handleCreateFrostKey, CreateFrostKey, Goto
  <2>2. 1 \in Indices
    BY ThresholdAssumption DEF ValidConfig, Indices
  <2> QED BY <1>c, <2>1, <2>2
<1>9. ASSUME NEW q \in Requests, NEW u \in Users, NEW i \in Indices,
             handleExportFrostShare(q, u, i) \/ handleImportFrostShare(q, u, i)
      PROVE  SplitInv'
  <2>0. UNCHANGED <<backend, poly, keyRow, issued, shareRows, outcome>>
    BY <1>9 DEF handleExportFrostShare, handleImportFrostShare
  <2>1. DealerKeySigns' /\ \A id : ListLocalFrostShares(id)' = ListLocalFrostShares(id)
    BY <2>0 DEF SplitInv, DealerKeySigns, ListLocalFrostShares
  <2>2. CASE handleExportFrostShare(q, u, i)
    <3>1. bundles' = bundles \cup {i} /\ UNCHANGED req
      BY <2>2 DEF handleExportFrostShare
    <3> QED BY <2>0, <2>1, <3>1 DEF SplitInv
  <2>3. CASE handleImportFrostShare(q, u, i)
    <3>1. UNCHANGED bundles
      BY <2>3 DEF handleImportFrostShare
    <3>2. CASE UNCHANGED req
      BY <2>0, <2>1, <3>1, <3>2 DEF SplitInv
    <3>3. ASSUME NEW pc \in {"newKey", "import"}, NEW id,
                 req' = [req EXCEPT ![q] = [pc |-> pc, user |-> u, id |-> id, i |-> i]]
          PROVE  SplitInv'
      BY <1>a, <2>0, <2>1, <3>1, <3>3
    <3> QED BY <2>3, <3>2, <3>3 DEF handleImportFrostShare, Goto
  <2> QED BY <1>9, <2>2, <2>3
<1>10. CASE UNCHANGED keyVars
  BY <1>10 DEF keyVars, SplitInv, ListLocalFrostShares, DealerKeySigns
<1> QED
  BY <1>1, <1>2, <1>3, <1>4, <1>5, <1>6, <1>7, <1>8, <1>9, <1>10 DEF KeyNext

-----------------------------------------------------------------------------
(* DistributedDKG.                                                         *)

\* The list of participants, which may name one twice.
LEMMA MembersOf ==
  ASSUME list \in Invitations
  PROVE  /\ list[1] \in Members /\ Members \subseteq Signers
         /\ IsFiniteSet(Members) /\ Cardinality(Members) <= Len(list)
         /\ Len(list) \in Nat /\ list \in [1..Len(list) -> Signers]
<1>1. list \in Seq(Signers) /\ Len(list) >= 2
  BY InvitationAssumption DEF ValidInvitation
<1>2. /\ Len(list) \in Nat /\ DOMAIN list = 1..Len(list) /\ 1 \in DOMAIN list
      /\ list \in [1..Len(list) -> Signers]
  BY <1>1
<1>3. Members = {list[i] : i \in DOMAIN list}
  BY DEF Members, ToSet
<1>4. list \in Surjection(1..Len(list), Members)
  BY <1>2, <1>3 DEF Surjection
<1>5. IsFiniteSet(1..Len(list)) /\ Cardinality(1..Len(list)) = Len(list)
  BY <1>2, FS_Interval
<1> QED
  BY <1>2, <1>3, <1>4, <1>5, FS_Surjection

\* Without the initiator the acceptances are never complete.
LEMMA NotAllAccepted ==
  ASSUME list \in Invitations, NEW s, s.accepted \subseteq Members, initiator \in Members \ s.accepted
  PROVE  ~AllAccepted(s)
<1>1. IsFiniteSet(Members) /\ Cardinality(Members) <= Len(list) /\ Len(list) \in Nat
  BY MembersOf
<1>2. /\ Cardinality(s.accepted) <= Cardinality(Members)
      /\ Cardinality(s.accepted) # Cardinality(Members)
      /\ Cardinality(s.accepted) \in Nat /\ Cardinality(Members) \in Nat
  BY <1>1, FS_Subset, FS_CardinalityType
<1> QED
  BY <1>1, <1>2 DEF AllAccepted

\* At first no key generation has begun: the invariant holds.
LEMMA AgreeInit == DKGInit => AgreeInv
BY DEF DKGInit, AgreeInv, DKGTypes, Unknown, NoCommits

\* checkRound1Complete moves the phase on.
LEMMA Checked ==
  ASSUME NEW s \in [phase : {"none", "pending", "round1", "round2"}, initiator : Signers \cup {NoSigner},
                    accepted : SUBSET Signers, commits : [Signers -> {0, 1}]]
  PROVE  /\ checkRound1Complete(s) \in
              [phase : {"none", "pending", "round1", "round2"}, initiator : Signers \cup {NoSigner},
               accepted : SUBSET Signers, commits : [Signers -> {0, 1}]]
         /\ checkRound1Complete(s).accepted = s.accepted
         /\ checkRound1Complete(s).phase \in {s.phase, "round2"}
BY DEF checkRound1Complete

\* Of the net, after a message was handled.
LEMMA DeliveredNet ==
  ASSUME NEW m, NEW sent, Delivered(m, sent)
  PROVE  net' \subseteq net \cup sent
BY DEF Delivered

\* Every message of a key generation keeps the invariant its agreement rests on.
LEMMA AgreeStep == AgreeInv /\ [DKGNext]_dkgVars => AgreeInv'
<1> SUFFICES ASSUME AgreeInv, [DKGNext]_dkgVars PROVE AgreeInv'
  OBVIOUS
<1> DEFINE L == list[1]
           Session == [phase : {"none", "pending", "round1", "round2"}, initiator : Signers \cup {NoSigner},
                       accepted : SUBSET Signers, commits : [Signers -> {0, 1}]]
           Envelope == [type : {"init", "accept", "commit"}, from : Signers, to : Signers, poly : {0, 1}]
           Good(m) == /\ m.type = "init" => m.to \in Members \ {initiator}
                      /\ m.type = "accept" => m.to = L /\ m.from # initiator
<1>a. /\ L \in Members /\ L \in Signers /\ Members \subseteq Signers
      /\ initiator \in Members \cup {NoSigner} /\ NoSigner \notin Signers
      /\ sess \in [Signers -> Session] /\ net \subseteq Envelope
      /\ starting \in [Signers -> Nat] /\ drawn \in [Signers -> {0, 1}] /\ list \in Invitations
  BY MembersOf, SignerAssumption DEF AgreeInv, DKGTypes
<1>b. Unknown \in Session
  BY DEF Unknown, NoCommits
\* A step that writes at most the session of p, after the session has begun.
<1>c. ASSUME NEW p \in Signers, NEW s \in Session, initiator # NoSigner, UNCHANGED <<initiator, list, drawn>>,
             sess' = [sess EXCEPT ![p] = s], net' \subseteq Envelope, \A m \in net' : Good(m),
             starting' \in [Signers -> Nat],
             \A q \in Signers : starting'[q] > 0 => starting[q] > 0 \/ (q = L /\ q = initiator),
             s.accepted \subseteq Members, p # initiator => initiator \notin s.accepted,
             s.phase = "pending" => drawn[p] = 0
      PROVE  AgreeInv'
  <2>1. Members' = Members
    BY <1>c DEF Members
  <2>2. \A q \in Signers : sess'[q] = IF q = p THEN s ELSE sess[q]
    BY <1>c, <1>a
  <2>3. DKGTypes'
    BY <1>c, <1>a DEF DKGTypes
  <2>4. \A q \in Signers : starting'[q] > 0 \/ drawn'[q] > 0 => q = list'[1] /\ q = initiator'
    BY <1>c DEF AgreeInv
  <2> QED
    BY <1>c, <1>a, <2>1, <2>2, <2>3, <2>4 DEF AgreeInv
\* The same when starting stays, and nothing is sent.
<1>d. ASSUME NEW p \in Signers, NEW s \in Session, initiator # NoSigner,
             UNCHANGED <<initiator, list, starting, drawn>>, sess' = [sess EXCEPT ![p] = s], net' \subseteq net,
             s.accepted = sess[p].accepted, s.phase = "pending" => sess[p].phase = "pending"
      PROVE  AgreeInv'
  <2>1. \A m \in net' : m \in Envelope /\ Good(m)
    BY <1>a, <1>d DEF AgreeInv
  <2>2. /\ s.accepted \subseteq Members /\ (p # initiator => initiator \notin s.accepted)
        /\ (s.phase = "pending" => drawn[p] = 0)
    BY <1>d DEF AgreeInv
  <2>3. starting' \in [Signers -> Nat] /\ net' \subseteq Envelope
        /\ \A q \in Signers : starting'[q] > 0 => starting[q] > 0
    BY <1>a, <1>d, <2>1
  <2> HIDE DEF Session, Envelope, Good
  <2> QED
    BY <1>c, <1>d, <2>1, <2>2, <2>3
<1>1. ASSUME NEW p \in Signers, InitiateSession(p) PROVE AgreeInv'
  <2>1. /\ initiator = NoSigner /\ initiator' = p /\ p \in Members
        /\ sess' = [sess EXCEPT ![p] = Pending(p, {p})] /\ net' = Broadcast("init", p, 0)
        /\ UNCHANGED <<list, starting, drawn>>
    BY <1>1 DEF InitiateSession
  <2>2. \A q \in Signers : sess[q] = Unknown /\ ~(starting[q] > 0) /\ ~(drawn[q] > 0)
    BY <1>a, <2>1 DEF AgreeInv
  <2>3. Members' = Members
    BY <2>1 DEF Members
  <2>4. Pending(p, {p}) \in Session
    BY DEF Pending, NoCommits
  <2>5. \A m \in net' : m \in Envelope /\ m.type = "init" /\ m.to \in Members \ {p}
    BY <1>a, <2>1 DEF Broadcast, Message
  <2>6. DKGTypes'
    BY <1>a, <2>1, <2>4, <2>5 DEF DKGTypes
  <2>7. \A q \in Signers : sess'[q] = IF q = p THEN Pending(p, {p}) ELSE Unknown
    BY <1>a, <2>1, <2>2
  <2>8. \A q \in Signers : ~(starting'[q] > 0) /\ ~(drawn'[q] > 0) /\ drawn'[q] = 0
    BY <1>a, <2>1, <2>2
  <2> QED
    BY <1>a, <2>1, <2>3, <2>5, <2>6, <2>7, <2>8 DEF AgreeInv, Pending, Unknown
<1>2. ASSUME NEW p \in Signers, startRound1(p) PROVE AgreeInv'
  <2>1. p = L /\ p = initiator
    BY <1>2 DEF startRound1, AgreeInv
  <2>2. starting' = [starting EXCEPT ![p] = @ - 1] /\ starting[p] > 0 /\ UNCHANGED <<initiator, list>>
    BY <1>2 DEF startRound1
  <2>3. starting' \in [Signers -> Nat] /\ \A q \in Signers : starting'[q] > 0 => q = L /\ q = initiator
    BY <1>a, <2>1, <2>2 DEF AgreeInv
  <2>4. CASE UNCHANGED <<drawn, sess, net>>
    <3>1. sess' = [sess EXCEPT ![p] = sess[p]] /\ sess[p] \in Session
      BY <1>a, <2>4
    <3>2. /\ sess[p].accepted \subseteq Members /\ (p # initiator => initiator \notin sess[p].accepted)
          /\ (sess[p].phase = "pending" => drawn[p] = 0)
      BY DEF AgreeInv
    <3>3. initiator # NoSigner
      BY <1>a, <2>1
    <3>4. net' \subseteq Envelope /\ \A m \in net' : Good(m)
      BY <1>a, <2>4 DEF AgreeInv
    <3> HIDE DEF Session, Envelope, Good
    <3> QED
      BY <1>c, <2>1, <2>2, <2>3, <2>4, <3>1, <3>2, <3>3, <3>4
  <2>5. CASE MayStart(sess[p])
    <3> DEFINE t == [sess[p] EXCEPT !.phase = "round1", !.commits[p] = 1]
    <3>1. drawn[p] = 0
      BY <2>5 DEF MayStart, AgreeInv
    <3>2. /\ drawn' = [drawn EXCEPT ![p] = 1] /\ sess' = [sess EXCEPT ![p] = checkRound1Complete(t)]
          /\ net' = net \cup Broadcast("commit", p, 1)
      BY <1>2, <2>5, <3>1 DEF startRound1
    <3>3. t \in Session /\ t.phase = "round1" /\ t.accepted = sess[p].accepted
      <4>1. sess[p] \in Session /\ [sess[p].commits EXCEPT ![p] = 1] \in [Signers -> {0, 1}]
        BY <1>a
      <4>2. t = [[sess[p] EXCEPT !.phase = "round1"] EXCEPT !.commits = [sess[p].commits EXCEPT ![p] = 1]]
        BY <4>1
      <4> QED
        BY <4>1, <4>2
    <3> HIDE DEF t
    <3>4. /\ checkRound1Complete(t) \in Session /\ checkRound1Complete(t).phase # "pending"
          /\ checkRound1Complete(t).accepted = sess[p].accepted
      BY <3>3, Checked
    <3>5. \A m \in net' : m \in Envelope /\ Good(m)
      BY <1>a, <2>1, <3>2 DEF Broadcast, Message, AgreeInv
    <3>6. Members' = Members
      BY <2>2 DEF Members
    <3>7. \A q \in Signers : sess'[q] = IF q = p THEN checkRound1Complete(t) ELSE sess[q]
      BY <1>a, <3>2
    <3>8. \A q \in Signers : drawn'[q] = IF q = p THEN 1 ELSE drawn[q]
      BY <1>a, <3>2
    <3>9. DKGTypes'
      BY <1>a, <2>2, <2>3, <3>2, <3>4, <3>5 DEF DKGTypes
    <3>10. \A q \in Signers :
             /\ sess'[q].accepted = sess[q].accepted
             /\ sess'[q].phase = "pending" => sess[q].phase = "pending" /\ drawn'[q] = drawn[q]
      BY <3>4, <3>7, <3>8
    <3>11. \A q \in Signers : starting'[q] > 0 \/ drawn'[q] > 0 => q = L /\ q = initiator
      BY <1>a, <2>1, <2>3, <3>8 DEF AgreeInv
    <3>12. initiator # NoSigner
      BY <1>a, <2>1
    <3> QED
      BY <1>a, <2>2, <3>5, <3>6, <3>9, <3>10, <3>11, <3>12 DEF AgreeInv
  <2> QED
    BY <1>2, <2>4, <2>5 DEF startRound1
<1>3. ASSUME NEW p \in Signers, Crash(p) PROVE AgreeInv'
  <2>1. /\ sess[p].phase # "none" /\ sess' = [sess EXCEPT ![p] = Unknown]
        /\ starting' = [starting EXCEPT ![p] = 0] /\ UNCHANGED <<initiator, list, net, drawn>>
    BY <1>3 DEF Crash
  <2>2. initiator # NoSigner
    BY <2>1 DEF AgreeInv, Unknown
  <2>3. Unknown.accepted = {} /\ Unknown.phase = "none"
    BY DEF Unknown
  <2>4. starting' \in [Signers -> Nat] /\ \A q \in Signers : starting'[q] > 0 => starting[q] > 0
    BY <1>a, <2>1
  <2> QED
    BY <1>a, <1>b, <1>c, <2>1, <2>2, <2>3, <2>4 DEF AgreeInv
<1>4. ASSUME NEW m \in net, handleDKGInit(m) PROVE AgreeInv'
  <2> DEFINE p == m.to
             acc == {Message("accept", p, L, 0)} \ {Message("accept", p, p, 0)}
  <2>1. m.type = "init" /\ p \in Members \ {initiator} /\ p \in Signers
    BY <1>4, <1>a DEF handleDKGInit, AgreeInv
  <2>2. initiator # NoSigner
    BY DEF AgreeInv
  <2>3. UNCHANGED <<initiator, list, starting, drawn>>
    BY <1>4 DEF handleDKGInit
  <2>4. CASE sess[p].phase # "none"
    <3>1. sess' = [sess EXCEPT ![p] = sess[p]] /\ sess[p] \in Session
      BY <1>4, <1>a, <2>1, <2>4 DEF handleDKGInit
    <3>2. net' \subseteq net
      BY <1>4, <2>4, DeliveredNet DEF handleDKGInit
    <3> QED
      BY <1>d, <2>1, <2>2, <2>3, <3>1, <3>2
  <2>5. CASE sess[p].phase = "none"
    <3>1. sess' = [sess EXCEPT ![p] = Pending(L, {p})] /\ Delivered(m, acc)
      BY <1>4, <2>5 DEF handleDKGInit
    <3>2. net' \subseteq net \cup {Message("accept", p, L, 0)}
      BY <3>1, DeliveredNet
    <3>3. Pending(L, {p}) \in Session /\ Pending(L, {p}).accepted = {p}
      BY <1>a, <2>1 DEF Pending, NoCommits
    <3>4. \A k \in net' : k \in Envelope /\ Good(k)
      BY <1>a, <2>1, <3>2 DEF AgreeInv, Message
    <3>5. drawn[p] = 0
      BY <1>a, <2>1 DEF AgreeInv
    <3>6. /\ starting' \in [Signers -> Nat] /\ net' \subseteq Envelope
          /\ \A q \in Signers : starting'[q] > 0 => starting[q] > 0
      BY <1>a, <2>3, <3>4
    <3>7. Pending(L, {p}).accepted \subseteq Members /\ initiator \notin Pending(L, {p}).accepted
      BY <2>1, <3>3
    <3> HIDE DEF Session, Envelope, Good
    <3> QED
      BY <1>c, <2>1, <2>2, <2>3, <3>1, <3>3, <3>4, <3>5, <3>6, <3>7
  <2> QED
    BY <2>4, <2>5
<1>5. ASSUME NEW m \in net, handleDKGAccept(m) PROVE AgreeInv'
  <2> DEFINE s == [sess[m.to] EXCEPT !.accepted = @ \cup {m.from}]
  <2>1. /\ m.type = "accept" /\ m.to = L /\ m.from # initiator /\ m.from \in Signers /\ net' \subseteq net
        /\ UNCHANGED <<initiator, list, drawn>>
    BY <1>5, <1>a, DeliveredNet DEF handleDKGAccept, AgreeInv
  <2>2. initiator # NoSigner
    BY DEF AgreeInv
  <2>3. CASE UNCHANGED <<sess, starting>>
    <3>1. sess' = [sess EXCEPT ![L] = sess[L]] /\ sess[L] \in Session
      BY <1>a, <2>3
    <3> QED
      BY <1>a, <1>d, <2>1, <2>2, <2>3, <3>1
  <2>4. CASE sess[m.to].phase # "none" /\ m.from \in Members
    <3>1. /\ sess' = [sess EXCEPT ![L] = s]
          /\ starting' = [starting EXCEPT ![L] = IF AllAccepted(s) /\ s.phase = "pending" THEN @ + 1 ELSE @]
      BY <1>5, <2>1, <2>4 DEF handleDKGAccept
    <3>2. s \in Session /\ s.accepted = sess[L].accepted \cup {m.from} /\ s.phase = sess[L].phase
      BY <1>a, <2>1
    <3> HIDE DEF s
    <3>3. s.accepted \subseteq Members /\ (L # initiator => initiator \notin s.accepted)
      BY <1>a, <2>1, <2>4, <3>2 DEF AgreeInv
    <3>4. AllAccepted(s) => L = initiator
      BY <1>a, <2>2, <3>3, NotAllAccepted
    <3>5. starting' \in [Signers -> Nat]
          /\ \A q \in Signers : starting'[q] > 0 => starting[q] > 0 \/ (q = L /\ q = initiator)
      BY <1>a, <3>1, <3>4
    <3>6. s.phase = "pending" => drawn[L] = 0
      BY <1>a, <3>2 DEF AgreeInv
    <3>7. L \in Signers /\ net' \subseteq Envelope /\ \A k \in net' : Good(k)
      BY <1>a, <2>1 DEF AgreeInv
    <3> HIDE DEF Session, Envelope, Good
    <3> QED
      BY <1>c, <2>1, <2>2, <3>1, <3>2, <3>3, <3>5, <3>6, <3>7
  <2> QED
    BY <1>5, <2>3, <2>4 DEF handleDKGAccept
<1>6. ASSUME NEW m \in net, handleDKGCommit(m) PROVE AgreeInv'
  <2> DEFINE p == m.to
             t == [sess[p] EXCEPT !.commits[m.from] = m.poly]
             s == IF sess[p].phase = "none" \/ m.from \notin Members THEN sess[p] ELSE checkRound1Complete(t)
  <2>1. /\ p \in Signers /\ m.from \in Signers /\ m.poly \in {0, 1} /\ net' \subseteq net
        /\ sess' = [sess EXCEPT ![p] = s] /\ UNCHANGED <<initiator, list, starting, drawn>>
    BY <1>6, <1>a, DeliveredNet DEF handleDKGCommit
  <2>2. initiator # NoSigner
    BY DEF AgreeInv
  <2>3. t \in Session /\ t.phase = sess[p].phase /\ t.accepted = sess[p].accepted /\ sess[p] \in Session
    <3>1. sess[p] \in Session /\ [sess[p].commits EXCEPT ![m.from] = m.poly] \in [Signers -> {0, 1}]
      BY <1>a, <2>1
    <3>2. t = [sess[p] EXCEPT !.commits = [sess[p].commits EXCEPT ![m.from] = m.poly]]
      BY <3>1
    <3> QED
      BY <3>1, <3>2
  <2> HIDE DEF t
  <2>4. s \in Session /\ s.accepted = sess[p].accepted /\ s.phase \in {sess[p].phase, "round2"}
    BY <2>3, Checked
  <2> HIDE DEF s
  <2> QED
    BY <1>d, <2>1, <2>2, <2>4
<1>7. ASSUME NEW m \in net, Lose(m) PROVE AgreeInv'
  <2>1. net' \subseteq net /\ UNCHANGED <<initiator, list, sess, starting, drawn>>
    BY <1>7 DEF Lose
  <2>2. initiator # NoSigner
    BY DEF AgreeInv
  <2>3. sess' = [sess EXCEPT ![L] = sess[L]] /\ sess[L] \in Session
    BY <1>a, <2>1
  <2> QED
    BY <1>a, <1>d, <2>1, <2>2, <2>3
<1>8. CASE UNCHANGED dkgVars
  BY <1>8 DEF dkgVars, AgreeInv, DKGTypes, Members
<1> QED
  BY <1>1, <1>2, <1>3, <1>4, <1>5, <1>6, <1>7, <1>8 DEF DKGNext, Deliver

\* Every commitment is the first and only polynomial's.
LEMMA AgreeGives == AgreeInv => CommitmentsAgree
BY DEF AgreeInv, DKGTypes, CommitmentsAgree

-----------------------------------------------------------------------------
(* The composition: a step belongs to one kind of key.                     *)

\* A step of the composition is, for each part, a step of that part or a stutter.
LEMMA KindSteps ==
  [Next]_<<cosignVars, keyVars, dkgVars, kind>> =>
    [CosignNext]_cosignVars /\ [KeyNext]_keyVars /\ [DKGNext]_dkgVars
BY DEF Next

\* Nonces serve no call that begins after another has answered from them.
THEOREM NoncesServeOneRoundAlways == Spec => []NoncesServeOneRound
<1>1. Init => ServesInv
  BY ServesInit DEF Init
<1>2. ServesInv /\ [Next]_<<cosignVars, keyVars, dkgVars, kind>> => ServesInv'
  BY ServesStep, KindSteps
<1>3. ServesInv => NoncesServeOneRound
  BY DEF ServesInv, NoncesServeOneRound
<1> QED
  BY <1>1, <1>2, <1>3, PTL DEF Spec

\* A share is written by a request of the account that owns its key.
THEOREM SharesAreTheOwnersAlways == Spec => []SharesAreTheOwners
<1>1. Init => OwnersInv
  BY OwnersInit DEF Init
<1>2. OwnersInv /\ [Next]_<<cosignVars, keyVars, dkgVars, kind>> => OwnersInv'
  BY OwnersStep, KindSteps
<1>3. OwnersInv => SharesAreTheOwners
  BY DEF OwnersInv, SharesAreTheOwners
<1> QED
  BY <1>1, <1>2, <1>3, PTL DEF Spec

\* All instances hold the same commitment of a participant.
THEOREM CommitmentsAgreeAlways == Spec => []CommitmentsAgree
<1>1. Init => AgreeInv
  BY AgreeInit DEF Init
<1>2. AgreeInv /\ [Next]_<<cosignVars, keyVars, dkgVars, kind>> => AgreeInv'
  BY AgreeStep, KindSteps
<1> QED
  BY <1>1, <1>2, AgreeGives, PTL DEF Spec

\* With an honest browser, a generated key whose joint pubkey has even y signs at
\* every attempt, in every group and for every key generation.
THEOREM GeneratedKeysSign == Spec => []GeneratedKeySigns
<1>1. Init => GeneratedInv
  BY GeneratedInit DEF Init
<1>2. GeneratedInv /\ [Next]_<<cosignVars, keyVars, dkgVars, kind>> => GeneratedInv'
  BY GeneratedStep, KindSteps
<1> QED
  BY <1>1, <1>2, GeneratedGives, PTL DEF Spec

\* A signing call that CanSign let through returns a valid signature whichever
\* shares it takes, for every threshold, unless the key was deleted since.
THEOREM DealerKeysSign == Spec => []DealerKeySigns
<1>1. Init => OwnersInv /\ SplitInv
  BY OwnersInit, SplitInit DEF Init
<1>2. OwnersInv /\ SplitInv /\ [Next]_<<cosignVars, keyVars, dkgVars, kind>> => OwnersInv' /\ SplitInv'
  BY OwnersStep, SplitStep, KindSteps
<1>3. SplitInv => DealerKeySigns
  BY DEF SplitInv
<1> QED
  BY <1>1, <1>2, <1>3, PTL DEF Spec
=============================================================================
