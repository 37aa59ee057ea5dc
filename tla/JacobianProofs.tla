--------------------------- MODULE JacobianProofs ---------------------------
(***************************************************************************)
(* The formulas of jp_double and jp_add compute the chord and tangent of   *)
(* the points their operands stand for, in every prime field and on every  *)
(* curve without a point of order two, for every pair of triples of points *)
(* of the curve; and chord and tangent stay on the curve.                  *)
(***************************************************************************)
EXTENDS Jacobian, WellFoundedInduction, TLAPS

-----------------------------------------------------------------------------
(* Division with remainder *)

\* Multiplication distributes over addition.
LEMMA Distribute ==
  ASSUME NEW a \in Int, NEW b \in Int, NEW c \in Int
  PROVE  /\ a * (b + c) = a * b + a * c
         /\ a * (b - c) = a * b - a * c
         /\ a * b \in Int
         /\ a * b = b * a
OBVIOUS

\* Division with remainder, by its quotient and remainder.
LEMMA DivMod ==
  ASSUME NEW a \in Nat, NEW m \in Nat \ {0}
  PROVE  \E d \in Nat, r \in 0..m - 1 :
           a = m * d + r /\ a \div m = d /\ a % m = r
<1>1. /\ a = m * (a \div m) + (a % m)
      /\ a \div m \in Nat
      /\ a % m \in 0..m - 1
  OBVIOUS
<1>2. QED  BY <1>1

\* Quotient and remainder are unique.
LEMMA DivModUnique ==
  ASSUME NEW m \in Nat \ {0}, NEW q \in Int, NEW u \in 0..m - 1,
         NEW a \in Nat, a = m * q + u
  PROVE  a % m = u /\ a \div m = q
<1>1. PICK d \in Nat, s \in 0..m - 1 : a = m * d + s /\ a \div m = d /\ a % m = s
  BY DivMod
<1> DEFINE c == q - d
<1>2. c \in Int /\ m * c = s - u
  BY <1>1
<1>3. ~(c >= 1)
  <2>1. SUFFICES ASSUME c >= 1 PROVE FALSE
    OBVIOUS
  <2>2. m * c = m + m * (c - 1) /\ c - 1 \in Nat /\ m * (c - 1) \in Nat
    BY <1>2, <2>1
  <2>3. QED  BY <1>1, <1>2, <2>2
<1>4. ~(c <= 0 - 1)
  <2>1. SUFFICES ASSUME c <= 0 - 1 PROVE FALSE
    OBVIOUS
  <2> DEFINE n == 0 - c - 1
  <2>2. n \in Nat /\ c = 0 - n - 1 /\ m * n \in Nat
    BY <1>2, <2>1
  <2>3. m * c = (0 - m * n) - m
    BY <2>2
  <2> HIDE DEF n, c
  <2>4. QED  BY <1>1, <1>2, <2>2, <2>3
<1>5. c = 0
  BY <1>2, <1>3, <1>4
<1>6. QED  BY <1>1, <1>2, <1>5

\* Numbers that differ by a multiple of m have the same remainder.
LEMMA ModShift ==
  ASSUME NEW m \in Nat \ {0}, NEW a \in Nat, NEW b \in Nat, NEW q \in Int,
         a = b + m * q
  PROVE  a % m = b % m
<1>0. \A x \in Nat, y \in Int, v \in 0..m - 1 : x = m * y + v => x % m = v
  BY DivModUnique
<1>1. PICK d \in Nat, u \in 0..m - 1 : b = m * d + u /\ b % m = u
  BY DivMod
<1> DEFINE e == q + d
<1>2. e \in Int /\ a = m * e + u
  <2>1. m * (q + d) = m * q + m * d
    OBVIOUS
  <2>2. QED  BY <1>1, <2>1
<1> HIDE DEF e
<1>3. a % m = u
  BY ONLY <1>0, <1>2, a \in Nat, u \in 0..m - 1
<1>4. QED  BY <1>1, <1>3

\* Remainders may be taken before adding.
LEMMA ModAdd ==
  ASSUME NEW m \in Nat \ {0}, NEW a \in Nat, NEW b \in Nat
  PROVE  ((a % m) + b) % m = (a + b) % m
<1>1. PICK d \in Nat, r \in 0..m - 1 : a = m * d + r /\ a % m = r
  BY DivMod
<1>2. a + b = (r + b) + m * d
  BY <1>1, Distribute
<1>3. r + b \in Nat /\ a + b \in Nat /\ d \in Int
  BY <1>1
<1>4. \A x, y \in Nat, e \in Int : x = y + m * e => x % m = y % m
  BY ModShift
<1>5. (a + b) % m = (r + b) % m
  BY <1>1, <1>2, <1>3, <1>4
<1>6. QED  BY <1>1, <1>5

\* Both remainders may be taken before adding,
LEMMA ModSum ==
  ASSUME NEW m \in Nat \ {0}, NEW a \in Nat, NEW b \in Nat
  PROVE  ((a % m) + (b % m)) % m = (a + b) % m
<1>1. a % m \in Nat /\ b % m \in Nat
  OBVIOUS
<1>2. ((a % m) + (b % m)) % m = (a + (b % m)) % m
  BY <1>1, ModAdd
<1>3. ((b % m) + a) % m = (b + a) % m
  BY ModAdd
<1>4. a + (b % m) = (b % m) + a /\ a + b = b + a
  BY <1>1
<1>5. QED  BY <1>2, <1>3, <1>4

\* Remainders may be taken before doubling.
LEMMA ModDouble ==
  ASSUME NEW m \in Nat \ {0}, NEW a \in Nat
  PROVE  (2 * (a % m)) % m = (2 * a) % m
<1>1. PICK d \in Nat, r \in 0..m - 1 : a = m * d + r /\ a % m = r
  BY DivMod
<1>2. m * (d + d) = m * d + m * d /\ m * d \in Int
  BY Distribute
<1>3. 2 * a = 2 * r + m * (d + d)
  BY <1>1, <1>2
<1>4. 2 * r \in Nat /\ 2 * a \in Nat /\ d + d \in Int
  OBVIOUS
<1>5. QED  BY <1>1, <1>3, <1>4, ModShift

-----------------------------------------------------------------------------
(* Residues modulo the prime *)

\* The residue of an integer, kept as one symbol in what follows.
Mod(a) == a % P

\* The same for integers of either sign, with the modulus P.
LEMMA Quotient ==
  ASSUME NEW a \in Int
  PROVE  \E d \in Int : a = P * d + Mod(a) /\ Mod(a) \in Field
<1>1. /\ a = P * (a \div P) + (a % P)
      /\ a \div P \in Int
      /\ a % P \in 0..P - 1
  BY PAssumption
<1>2. QED  BY <1>1 DEF Mod, Field

\* Integers that differ by a multiple of P have one residue, and conversely.
LEMMA Congruent ==
  ASSUME NEW a \in Int, NEW c \in Int
  PROVE  /\ \A e \in Int : a = c + P * e => Mod(a) = Mod(c)
         /\ Mod(a) = Mod(c) => \E e \in Int : a = c + P * e
<1> USE PAssumption
<1>1. PICK d \in Int : c = P * d + Mod(c) /\ Mod(c) \in Field
  BY Quotient
<1>2. ASSUME NEW e \in Int, a = c + P * e PROVE Mod(a) = Mod(c)
  <2> DEFINE q == e + d
             r == Mod(c)
  <2>1. q \in Int /\ P * q = P * e + P * d /\ r \in 0..P - 1
    BY <1>1 DEF Field
  <2> HIDE DEF q, r
  <2>2. a = P * q + r
    BY <1>1, <1>2, <2>1 DEF r
  <2>3. a % P = r
    BY ONLY <2>1, <2>2, PAssumption, a \in Int
  <2>4. QED  BY <2>3 DEF Mod, r
<1>3. ASSUME Mod(a) = Mod(c) PROVE \E e \in Int : a = c + P * e
  <2>1. PICK f \in Int : a = P * f + Mod(a) /\ Mod(a) \in Field
    BY Quotient
  <2>2. P * (f - d) = P * f - P * d
    OBVIOUS
  <2>3. a = c + P * (f - d) /\ f - d \in Int
    BY <1>1, <1>3, <2>1, <2>2 DEF Field
  <2>4. QED  BY <2>3
<1>4. QED  BY <1>2, <1>3

\* The operations of the field on residues are those of the integers.
LEMMA Residues ==
  ASSUME NEW a \in Int, NEW c \in Int
  PROVE  /\ Mod(a) \in Field
         /\ fmul(a, c) = Mod(a * c)
         /\ fmul(a, Mod(c)) = Mod(a * c)
         /\ fmul(Mod(a), Mod(c)) = Mod(a * c)
         /\ fsqr(Mod(a)) = Mod(a * a)
         /\ fsub(Mod(a), Mod(c)) = Mod(a - c)
         /\ fneg(Mod(a)) = Mod(0 - a)
         /\ (Mod(a) + c) % P = Mod(a + c)
<1> USE PAssumption
<1>1. PICK d \in Int : a = P * d + Mod(a) /\ Mod(a) \in Field
  BY Quotient
<1>2. PICK e \in Int : c = P * e + Mod(c) /\ Mod(c) \in Field
  BY Quotient
<1> DEFINE r == Mod(a)
           s == Mod(c)
<1>3. r \in Int /\ s \in Int /\ a = P * d + r /\ c = P * e + s /\ P \in Int
  BY <1>1, <1>2 DEF Field
<1> HIDE DEF r, s
<1>4. \A u, v, w \in Int : u = v + P * w => Mod(u) = Mod(v)
  BY Congruent
<1>5. Mod(a * s) = Mod(a * c)
  <2> DEFINE w == a * e
  <2>1. a * c \in Int /\ a * s \in Int /\ w \in Int /\ a * c = a * s + P * w
    BY ONLY <1>3, a \in Int, c \in Int, d \in Int, e \in Int
  <2> HIDE DEF w
  <2>2. QED  BY ONLY <1>4, <2>1
<1>6. Mod(r * s) = Mod(a * s)
  <2> DEFINE w == d * s
  <2>1. r * s \in Int /\ a * s \in Int /\ w \in Int /\ a * s = r * s + P * w
    BY ONLY <1>3, a \in Int, c \in Int, d \in Int, e \in Int
  <2> HIDE DEF w
  <2>2. QED  BY ONLY <1>4, <2>1
<1>7. Mod(r * r) = Mod(a * a)
  <2> DEFINE w == d * (a + r)
  <2>1. r * r \in Int /\ a * a \in Int /\ w \in Int /\ a * a = r * r + P * w
    BY ONLY <1>3, a \in Int, c \in Int, d \in Int, e \in Int
  <2> HIDE DEF w
  <2>2. QED  BY ONLY <1>4, <2>1
<1>8. Mod(a - c) = Mod(r - s)
  <2> DEFINE w == d - e
  <2>1. r - s \in Int /\ a - c \in Int /\ w \in Int /\ a - c = (r - s) + P * w
    BY ONLY <1>3, a \in Int, c \in Int, d \in Int, e \in Int
  <2> HIDE DEF w
  <2>2. QED  BY ONLY <1>4, <2>1
<1>9. Mod(P - r) = Mod(0 - a)
  <2> DEFINE w == 1 + d
  <2>1. P - r \in Int /\ 0 - a \in Int /\ w \in Int /\ P - r = (0 - a) + P * w
    BY ONLY <1>3, a \in Int, c \in Int, d \in Int, e \in Int
  <2> HIDE DEF w
  <2>2. QED  BY ONLY <1>4, <2>1
<1>10. Mod(r + c) = Mod(a + c)
  <2>1. r + c \in Int /\ a + c \in Int /\ a + c = (r + c) + P * d
    BY ONLY <1>3, a \in Int, c \in Int, d \in Int, e \in Int
  <2>2. QED  BY ONLY <1>4, <2>1, d \in Int
<1>11. QED
  BY <1>1, <1>5, <1>6, <1>7, <1>8, <1>9, <1>10 DEF r, s, Mod, fmul, fsqr, fsub, fneg

\* A residue is its own residue.
LEMMA Canonical == \A a \in Field : a \in Int /\ Mod(a) = a
BY PAssumption DEF Field, Mod

\* The same, for all integers at once.
LEMMA ResidueRing ==
  \A a, c \in Int : /\ fmul(Mod(a), Mod(c)) = Mod(a * c)
                    /\ fmul(a, Mod(c)) = Mod(a * c)
                    /\ fsub(Mod(a), Mod(c)) = Mod(a - c)
                    /\ fsqr(Mod(a)) = Mod(a * a)
                    /\ a * c \in Int /\ a - c \in Int
<1> SUFFICES ASSUME NEW a \in Int, NEW c \in Int
             PROVE  /\ fmul(Mod(a), Mod(c)) = Mod(a * c)
                    /\ fmul(a, Mod(c)) = Mod(a * c)
                    /\ fsub(Mod(a), Mod(c)) = Mod(a - c)
                    /\ fsqr(Mod(a)) = Mod(a * a)
                    /\ a * c \in Int /\ a - c \in Int
  OBVIOUS
<1>1. a * c \in Int /\ a - c \in Int
  OBVIOUS
<1>2. QED  BY <1>1, Residues

-----------------------------------------------------------------------------
(* The field *)

\* Every element but zero has the inverse that finv computes.
LEMMA InverseFacts ==
  ASSUME NEW a \in Field \ {0}
  PROVE  Inverses[a] \in Field /\ Mod(a * Inverses[a]) = 1
<1>1. \E c \in Field : fmul(a, c) = 1
  BY PrimeAssumption
<1>2. Inverses[a] = CHOOSE c \in Field : fmul(a, c) = 1
  BY DEF Inverses
<1>3. Inverses[a] \in Field /\ fmul(a, Inverses[a]) = 1
  BY <1>1, <1>2
<1>4. QED  BY <1>3 DEF fmul, Mod

\* There are no zero divisors.
LEMMA NoZeroDivisors ==
  ASSUME NEW a \in Int, NEW c \in Int, Mod(a) # 0, Mod(c) # 0
  PROVE  Mod(a * c) # 0
<1> USE PAssumption
<1>1. Mod(a) \in Field \ {0} /\ Mod(c) \in Field \ {0}
  BY Residues
<1>2. PICK e \in Field : fmul(Mod(a), e) = 1
  BY <1>1, PrimeAssumption
<1>3. e \in Int /\ Mod(e) = e /\ Mod(a * e) = 1
  <2>1. e \in Int /\ Mod(e) = e
    BY Canonical
  <2>2. fmul(Mod(a), Mod(e)) = Mod(a * e)
    BY <2>1, Residues
  <2>3. QED  BY <1>2, <2>1, <2>2
<1>4. SUFFICES ASSUME Mod(a * c) = 0 PROVE FALSE
  OBVIOUS
<1>5. a * c \in Int /\ a * e \in Int
  BY <1>3
<1>6. fmul(Mod(a * c), Mod(e)) = Mod((a * c) * e)
  BY <1>3, <1>5, Residues
<1>7. fmul(Mod(a * e), Mod(c)) = Mod((a * e) * c)
  BY <1>3, <1>5, Residues
<1>8. (a * c) * e = (a * e) * c
  BY <1>3
<1>9. fmul(1, Mod(c)) = Mod(c)
  <2>1. 1 * c = c
    OBVIOUS
  <2>2. QED  BY <2>1, Residues
<1>10. fmul(0, Mod(e)) = 0
  <2>1. 0 * e = 0 /\ 0 % P = 0
    BY <1>3
  <2>2. QED  BY <1>3, <2>1 DEF fmul
<1>11. QED  BY <1>1, <1>3, <1>4, <1>6, <1>7, <1>8, <1>9, <1>10

\* The prime is odd.
LEMMA TwoIsNotZero == Mod(2) # 0 /\ Mod(1) = 1 /\ Mod(0) = 0
BY PAssumption DEF Mod

\* Equal residues of a product with a factor that is not zero.
LEMMA Cancel ==
  ASSUME NEW a \in Int, NEW c \in Int, NEW e \in Int, Mod(e) # 0,
         Mod((a - c) * e) = 0
  PROVE  Mod(a) = Mod(c)
<1>1. a - c \in Int
  OBVIOUS
<1>2. Mod(a - c) = 0
  BY <1>1, NoZeroDivisors
<1>3. Mod(a - c) = Mod(0)
  BY <1>2, TwoIsNotZero
<1>4. PICK q \in Int : a - c = 0 + P * q
  BY <1>1, <1>3, Congruent
<1>5. a = c + P * q
  <2>1. P * q \in Int
    BY PAssumption
  <2>2. QED  BY <1>4, <2>1
<1>6. QED  BY <1>5, Congruent

-----------------------------------------------------------------------------
(* The formulas, on the triples of a point (x, y) scaled by z *)

Scaled(x, y, z) == Jac(Mod(x * (z * z)), Mod(y * ((z * z) * z)), Mod(z))

\* It depends on the residues alone.
LEMMA ScaledResidues ==
  ASSUME NEW x \in Int, NEW y \in Int, NEW z \in Int
  PROVE  /\ Scaled(Mod(x), Mod(y), Mod(z)) = Scaled(x, y, z)
         /\ Scaled(x, y, z)
              = Jac(fmul(Mod(x), fsqr(Mod(z))), fmul(Mod(y), fmul(fsqr(Mod(z)), Mod(z))), Mod(z))
         /\ Scaled(x, y, z).x = Mod(x * (z * z))
         /\ Scaled(x, y, z).y = Mod(y * ((z * z) * z))
         /\ Scaled(x, y, z).z = Mod(z)
<1>1. /\ fsqr(Mod(z)) = Mod(z * z) /\ fmul(Mod(z * z), Mod(z)) = Mod((z * z) * z)
      /\ fmul(Mod(x), Mod(z * z)) = Mod(x * (z * z))
      /\ fmul(Mod(y), Mod((z * z) * z)) = Mod(y * ((z * z) * z))
  <2>1. z * z \in Int /\ (z * z) * z \in Int
    OBVIOUS
  <2>2. QED  BY <2>1, Residues
<1>2. Scaled(x, y, z)
        = Jac(fmul(Mod(x), fsqr(Mod(z))), fmul(Mod(y), fmul(fsqr(Mod(z)), Mod(z))), Mod(z))
  BY <1>1 DEF Scaled
<1>3. \A u, v, w \in Int : /\ u * (w * w) = u * (w * w)
                          /\ fmul(u, w) = Mod(u * w) /\ fsqr(w) = Mod(w * w)
  BY Residues DEF fsqr
<1>4. Mod(x) \in Int /\ Mod(y) \in Int /\ Mod(z) \in Int
  BY Residues, Canonical
<1>5. /\ Mod(Mod(x) * (Mod(z) * Mod(z))) = Mod(x * (z * z))
      /\ Mod(Mod(y) * ((Mod(z) * Mod(z)) * Mod(z))) = Mod(y * ((z * z) * z))
      /\ Mod(Mod(z)) = Mod(z)
  <2>1. Mod(z) = Mod(z) /\ Mod(Mod(z) * Mod(z)) = Mod(z * z)
    BY <1>1, <1>3, <1>4
  <2>2. Mod(Mod(z)) = Mod(z)
    BY Residues, Canonical
  <2> DEFINE s == Mod(z) * Mod(z)
  <2>3. s \in Int /\ Mod(s) = Mod(z * z)
    BY <1>4, <2>1
  <2> HIDE DEF s
  <2>4. Mod(Mod(x) * s) = fmul(Mod(x), Mod(s)) /\ Mod(s * Mod(z)) = fmul(Mod(s), Mod(z))
    <3>1. fmul(Mod(x), Mod(s)) = Mod(Mod(x) * s) /\ fmul(s, Mod(z)) = Mod(s * Mod(z))
      BY <1>4, <2>3, Residues
    <3>2. fmul(s, Mod(z)) = Mod(s * z) /\ fmul(Mod(s), Mod(z)) = Mod(s * z)
      BY <2>3, Residues
    <3>3. QED  BY <3>1, <3>2
  <2>5. s * Mod(z) \in Int /\ Mod(s * Mod(z)) = Mod((z * z) * z)
    BY <1>1, <1>4, <2>3, <2>4
  <2>6. Mod(Mod(y) * (s * Mod(z))) = fmul(Mod(y), Mod(s * Mod(z)))
    BY <1>4, <2>5, Residues
  <2>7. QED  BY <1>1, <2>2, <2>3, <2>4, <2>5, <2>6 DEF s
<1>6. Scaled(Mod(x), Mod(y), Mod(z)) = Scaled(x, y, z)
  BY <1>5 DEF Scaled
<1>7. QED  BY <1>2, <1>6 DEF Scaled, Jac

\* A triple stands for its point.
LEMMA ScaledIsPoint ==
  ASSUME NEW x \in Field, NEW y \in Field, NEW z \in Int, Mod(z) # 0
  PROVE  jp_to_affine(Scaled(x, y, z)) = Affine(x, y)
<1> DEFINE i == Inverses[Mod(z)]
<1>1. x \in Int /\ y \in Int /\ Mod(x) = x /\ Mod(y) = y /\ Mod(z) \in Field \ {0}
  BY Canonical, Residues
<1>2. i \in Field /\ Mod(Mod(z) * i) = 1
  BY <1>1, InverseFacts
<1>3. i \in Int /\ Mod(i) = i
  BY <1>2, Canonical
<1> HIDE DEF i
<1>4. Mod(z * i) = 1
  <2>1. fmul(Mod(z), Mod(i)) = Mod(z * i)
    BY <1>3, Residues
  <2>2. QED  BY <1>2, <1>3, <2>1 DEF fmul, Mod
<1>5. PICK q \in Int : z * i = 1 + P * q
  <2>1. z * i \in Int /\ Mod(z * i) = Mod(1)
    BY <1>3, <1>4, TwoIsNotZero
  <2>2. QED  BY <2>1, Congruent
<1>6. Mod((x * (z * z)) * (i * i)) = x
  <2> DEFINE a == (x * (z * z)) * (i * i)
             e == x * (q * (2 + P * q))
  <2>0. P \in Int
    BY PAssumption
  <2>1. a = x * ((z * i) * (z * i))
    BY <1>1, <1>3
  <2>2. a = x * ((1 + P * q) * (1 + P * q))
    BY <1>5, <2>1
  <2>3. a \in Int /\ e \in Int /\ a = x + P * e
    BY ONLY <1>1, <1>3, <2>0, <2>2, q \in Int, z \in Int
  <2> HIDE DEF a, e
  <2>4. Mod(a) = Mod(x)
    BY <1>1, <2>3, Congruent
  <2>5. QED  BY <1>1, <2>4 DEF a
<1>7. Mod((y * ((z * z) * z)) * ((i * i) * i)) = y
  <2> DEFINE a == (y * ((z * z) * z)) * ((i * i) * i)
             e == y * (q * (3 + 3 * (P * q) + (P * q) * (P * q)))
  <2>0. P \in Int
    BY PAssumption
  <2>1. a = y * (((z * i) * (z * i)) * (z * i))
    BY <1>1, <1>3
  <2>2. a = y * (((1 + P * q) * (1 + P * q)) * (1 + P * q))
    BY <1>5, <2>1
  <2>3. a \in Int /\ e \in Int /\ a = y + P * e
    BY ONLY <1>1, <1>3, <2>0, <2>2, q \in Int, z \in Int
  <2> HIDE DEF a, e
  <2>4. Mod(a) = Mod(y)
    BY <1>1, <2>3, Congruent
  <2>5. QED  BY <1>1, <2>4 DEF a
<1>8. fsqr(i) = Mod(i * i) /\ fmul(fsqr(i), i) = Mod((i * i) * i)
  <2>1. fsqr(Mod(i)) = Mod(i * i) /\ i * i \in Int
    BY <1>3, Residues
  <2>2. fmul(Mod(i * i), Mod(i)) = Mod((i * i) * i)
    BY <1>3, <2>1, Residues
  <2>3. QED  BY <1>3, <2>1, <2>2
<1>9. /\ fmul(Mod(x * (z * z)), Mod(i * i)) = x
      /\ fmul(Mod(y * ((z * z) * z)), Mod((i * i) * i)) = y
  <2>1. /\ x * (z * z) \in Int /\ y * ((z * z) * z) \in Int
        /\ i * i \in Int /\ (i * i) * i \in Int
    BY <1>1, <1>3
  <2>2. QED  BY <1>6, <1>7, <2>1, Residues
<1>10. /\ Scaled(x, y, z).z = Mod(z) /\ Scaled(x, y, z).x = Mod(x * (z * z))
       /\ Scaled(x, y, z).y = Mod(y * ((z * z) * z))
  BY <1>1, ScaledResidues
<1>11. QED  BY <1>1, <1>8, <1>9, <1>10 DEF jp_to_affine, i

\* The tangent at (x, y) has the slope l and leads to (x3, y3); and the Z that
\* jp_double computes from that of its operand.
Tangent(x, y, l, x3, y3) ==
  /\ Mod(l * (2 * y)) = Mod(3 * (x * x))
  /\ x3 = l * l - 2 * x
  /\ y3 = l * (x - x3) - y
TangentZ(y, z) == 2 * (y * (((z * z) * z) * z))

\* jp_double follows the tangent.
LEMMA DoubleScaled ==
  ASSUME NEW x \in Int, NEW y \in Int, NEW z \in Int,
         NEW l \in Int, NEW x3 \in Int, NEW y3 \in Int, Tangent(x, y, l, x3, y3)
  PROVE  DoubleFormula(Scaled(x, y, z)) = Scaled(x3, y3, TangentZ(y, z))
<1> SUFFICES ASSUME Mod(l * (2 * y)) = Mod(3 * (x * x)),
                    x3 = l * l - 2 * x, y3 = l * (x - x3) - y,
                    NEW w \in Int, w = 2 * (y * (((z * z) * z) * z))
             PROVE  DoubleFormula(Scaled(x, y, z)) = Scaled(x3, y3, w)
  <2>1. 2 * (y * (((z * z) * z) * z)) \in Int
    OBVIOUS
  <2>2. QED  BY <2>1 DEF Tangent, TangentZ
<1> DEFINE X == x * (z * z)
           Y == y * ((z * z) * z)
           j == Scaled(x, y, z)
           s == x * (w * w)
           m == l * w
           t == x3 * (w * w)
           e == y * ((w * w) * w)
<1>1. /\ X \in Int /\ Y \in Int /\ s \in Int /\ m \in Int /\ t \in Int /\ e \in Int
  OBVIOUS
<1>2. /\ j.x = Mod(X) /\ j.y = Mod(Y) /\ j.z = Mod(z)
  BY DEF Scaled, Jac
\* What the formula computes, as polynomials.
<1>3. 4 * (X * (Y * Y)) = s
  BY ONLY x \in Int, y \in Int, z \in Int, w = 2 * (y * (((z * z) * z) * z))
<1>4. 8 * ((Y * Y) * (Y * Y)) = e
  BY ONLY x \in Int, y \in Int, z \in Int, w = 2 * (y * (((z * z) * z) * z))
<1>5. 2 * (Y * z) = w
  BY ONLY x \in Int, y \in Int, z \in Int, w = 2 * (y * (((z * z) * z) * z))
<1>6. Mod(3 * (X * X)) = Mod(m)
  <2>1. PICK q \in Int : l * (2 * y) = 3 * (x * x) + P * q
    <3>1. l * (2 * y) \in Int /\ 3 * (x * x) \in Int
      OBVIOUS
    <3>2. QED  BY <3>1, Congruent
  <2> DEFINE u == q * ((z * z) * (z * z))
  <2>2. P \in Int
    BY PAssumption
  <2>3. m = (l * (2 * y)) * ((z * z) * (z * z))
    BY ONLY x \in Int, y \in Int, z \in Int, l \in Int,
            w = 2 * (y * (((z * z) * z) * z))
  <2>4. u \in Int /\ m = 3 * (X * X) + P * u
    BY ONLY <2>1, <2>2, <2>3, x \in Int, y \in Int, z \in Int, l \in Int, q \in Int
  <2>5. 3 * (X * X) \in Int
    OBVIOUS
  <2> HIDE DEF u
  <2>6. Mod(m) = Mod(3 * (X * X))
    BY <1>1, <2>4, <2>5, Congruent
  <2>7. QED  BY <2>6
<1>7. m * m - 2 * s = t
  BY ONLY x \in Int, l \in Int, w \in Int, x3 = l * l - 2 * x
<1>8. m * (s - t) - e = y3 * ((w * w) * w)
  BY ONLY x \in Int, y \in Int, l \in Int, w \in Int, x3 \in Int, y3 = l * (x - x3) - y
<1> HIDE DEF X, Y, j, s, m, t, e
<1>9. fsqr(Mod(Y)) = Mod(Y * Y) /\ Y * Y \in Int
  BY <1>1, Residues
<1>10. fmul(4, fmul(Mod(X), Mod(Y * Y))) = Mod(s)
  <2>1. fmul(Mod(X), Mod(Y * Y)) = Mod(X * (Y * Y)) /\ X * (Y * Y) \in Int
    BY ONLY <1>1, <1>9, ResidueRing
  <2>2. fmul(4, Mod(X * (Y * Y))) = Mod(4 * (X * (Y * Y)))
    BY ONLY <2>1, ResidueRing, 4 \in Int
  <2>3. QED  BY <1>3, <2>1, <2>2
<1>11. fmul(3, fsqr(Mod(X))) = Mod(m)
  <2>1. fsqr(Mod(X)) = Mod(X * X) /\ X * X \in Int
    BY ONLY <1>1, ResidueRing
  <2>2. fmul(3, Mod(X * X)) = Mod(3 * (X * X))
    BY ONLY <2>1, ResidueRing, 3 \in Int
  <2>3. QED  BY <1>6, <2>1, <2>2
<1>12. fsub(fsqr(Mod(m)), fmul(2, Mod(s))) = Mod(t)
  <2>0. m * m \in Int /\ 2 * s \in Int
    BY <1>1
  <2>1. fsqr(Mod(m)) = Mod(m * m) /\ fmul(2, Mod(s)) = Mod(2 * s)
    <3>1. fsqr(Mod(m)) = Mod(m * m)
      BY ONLY <1>1, ResidueRing
    <3>2. fmul(2, Mod(s)) = Mod(2 * s)
      BY ONLY <1>1, ResidueRing, 2 \in Int
    <3>3. QED  BY <3>1, <3>2
  <2>2. fsub(Mod(m * m), Mod(2 * s)) = Mod(m * m - 2 * s)
    BY ONLY <2>0, ResidueRing
  <2>3. QED  BY <1>7, <2>1, <2>2
<1>13. fsub(fmul(Mod(m), fsub(Mod(s), Mod(t))), fmul(8, fsqr(Mod(Y * Y))))
         = Mod(y3 * ((w * w) * w))
  <2>1. fsub(Mod(s), Mod(t)) = Mod(s - t) /\ s - t \in Int
    BY ONLY <1>1, ResidueRing
  <2>2. fmul(Mod(m), Mod(s - t)) = Mod(m * (s - t)) /\ m * (s - t) \in Int
    BY ONLY <1>1, <2>1, ResidueRing
  <2>3. fsqr(Mod(Y * Y)) = Mod((Y * Y) * (Y * Y)) /\ (Y * Y) * (Y * Y) \in Int
    <3>1. \A a \in Int : fsqr(Mod(a)) = Mod(a * a) /\ a * a \in Int
      BY Residues
    <3>2. QED  BY ONLY <1>9, <3>1
  <2>4. fmul(8, Mod((Y * Y) * (Y * Y))) = Mod(8 * ((Y * Y) * (Y * Y)))
    BY ONLY <2>3, ResidueRing, 8 \in Int
  <2>5. fsub(Mod(m * (s - t)), Mod(e)) = Mod(m * (s - t) - e)
    BY <1>1, <2>2, Residues
  <2>6. QED  BY <1>4, <1>8, <2>1, <2>2, <2>3, <2>4, <2>5
<1>14. fmul(2, fmul(Mod(Y), Mod(z))) = Mod(w)
  <2>1. fmul(Mod(Y), Mod(z)) = Mod(Y * z) /\ Y * z \in Int
    BY ONLY <1>1, ResidueRing
  <2>2. fmul(2, Mod(Y * z)) = Mod(2 * (Y * z))
    BY ONLY <2>1, ResidueRing, 2 \in Int
  <2>3. QED  BY <1>5, <2>1, <2>2
<1>15. DoubleFormula(j) = Jac(Mod(t), Mod(y3 * ((w * w) * w)), Mod(w))
  BY ONLY <1>2, <1>9, <1>10, <1>11, <1>12, <1>13, <1>14 DEF DoubleFormula
<1>16. QED  BY <1>15 DEF j, t, Scaled

\* The operands of jp_add brought to one denominator: the abscissas,
LEMMA U1Scaled ==
  ASSUME NEW x1 \in Int, NEW y1 \in Int, NEW z1 \in Int,
         NEW x2 \in Int, NEW y2 \in Int, NEW z2 \in Int
  PROVE  U1(Scaled(x1, y1, z1), Scaled(x2, y2, z2)) = Mod(x1 * ((z1 * z2) * (z1 * z2)))
<1> DEFINE X == x1 * (z1 * z1)
           s == z2 * z2
<1>1. X \in Int /\ s \in Int /\ X * s = x1 * ((z1 * z2) * (z1 * z2))
  OBVIOUS
<1>2. U1(Scaled(x1, y1, z1), Scaled(x2, y2, z2)) = fmul(Mod(X), fsqr(Mod(z2)))
  BY DEF U1, Scaled, Jac
<1>3. fsqr(Mod(z2)) = Mod(s)
  BY Residues
<1> HIDE DEF X, s
<1>4. fmul(Mod(X), Mod(s)) = Mod(X * s)
  BY <1>1, Residues
<1>5. QED  BY <1>1, <1>2, <1>3, <1>4

\* and the ordinates.
LEMMA S1Scaled ==
  ASSUME NEW x1 \in Int, NEW y1 \in Int, NEW z1 \in Int,
         NEW x2 \in Int, NEW y2 \in Int, NEW z2 \in Int
  PROVE  S1(Scaled(x1, y1, z1), Scaled(x2, y2, z2))
           = Mod(y1 * (((z1 * z2) * (z1 * z2)) * (z1 * z2)))
<1> DEFINE Y == y1 * ((z1 * z1) * z1)
           s == z2 * z2
           c == (z2 * z2) * z2
<1>1. Y \in Int /\ s \in Int /\ c \in Int /\ c = s * z2
      /\ Y * c = y1 * (((z1 * z2) * (z1 * z2)) * (z1 * z2))
  OBVIOUS
<1>2. S1(Scaled(x1, y1, z1), Scaled(x2, y2, z2))
        = fmul(Mod(Y), fmul(fsqr(Mod(z2)), Mod(z2)))
  BY DEF S1, Scaled, Jac
<1>3. fsqr(Mod(z2)) = Mod(s)
  BY Residues
<1> HIDE DEF Y, s, c
<1>4. fmul(Mod(s), Mod(z2)) = Mod(c)
  BY <1>1, Residues
<1>5. fmul(Mod(Y), Mod(c)) = Mod(Y * c)
  BY <1>1, Residues
<1>6. QED  BY <1>1, <1>2, <1>3, <1>4, <1>5

\* What jp_add compares with zero: the difference of the abscissas,
LEMMA HScaled ==
  ASSUME NEW x1 \in Int, NEW y1 \in Int, NEW z1 \in Int,
         NEW x2 \in Int, NEW y2 \in Int, NEW z2 \in Int
  PROVE  H(Scaled(x1, y1, z1), Scaled(x2, y2, z2))
           = Mod((x2 - x1) * ((z1 * z2) * (z1 * z2)))
<1> DEFINE j == Scaled(x1, y1, z1)
           k == Scaled(x2, y2, z2)
           u1 == x1 * ((z1 * z2) * (z1 * z2))
           u2 == x2 * ((z2 * z1) * (z2 * z1))
<1>1. u1 \in Int /\ u2 \in Int /\ u2 - u1 = (x2 - x1) * ((z1 * z2) * (z1 * z2))
  OBVIOUS
<1>2. U1(j, k) = Mod(u1) /\ U1(k, j) = Mod(u2)
  <2>1. U1(j, k) = Mod(u1)
    BY U1Scaled
  <2>2. U1(k, j) = Mod(u2)
    BY U1Scaled
  <2>3. QED  BY <2>1, <2>2
<1>3. H(j, k) = fsub(U1(k, j), U1(j, k))
  BY DEF H, U1, U2
<1> HIDE DEF j, k, u1, u2
<1>4. H(j, k) = Mod(u2 - u1)
  BY <1>1, <1>2, <1>3, Residues
<1>5. QED  BY <1>1, <1>4 DEF j, k

\* and that of the ordinates.
LEMMA RvalScaled ==
  ASSUME NEW x1 \in Int, NEW y1 \in Int, NEW z1 \in Int,
         NEW x2 \in Int, NEW y2 \in Int, NEW z2 \in Int
  PROVE  Rval(Scaled(x1, y1, z1), Scaled(x2, y2, z2))
           = Mod((y2 - y1) * (((z1 * z2) * (z1 * z2)) * (z1 * z2)))
<1> DEFINE j == Scaled(x1, y1, z1)
           k == Scaled(x2, y2, z2)
           s1 == y1 * (((z1 * z2) * (z1 * z2)) * (z1 * z2))
           s2 == y2 * (((z2 * z1) * (z2 * z1)) * (z2 * z1))
<1>1. s1 \in Int /\ s2 \in Int
      /\ s2 - s1 = (y2 - y1) * (((z1 * z2) * (z1 * z2)) * (z1 * z2))
  OBVIOUS
<1>2. S1(j, k) = Mod(s1) /\ S1(k, j) = Mod(s2)
  <2>1. S1(j, k) = Mod(s1)
    BY S1Scaled
  <2>2. S1(k, j) = Mod(s2)
    BY S1Scaled
  <2>3. QED  BY <2>1, <2>2
<1>3. Rval(j, k) = fsub(S1(k, j), S1(j, k))
  BY DEF Rval, S1, S2
<1> HIDE DEF j, k, s1, s2
<1>4. Rval(j, k) = Mod(s2 - s1)
  BY <1>1, <1>2, <1>3, Residues
<1>5. QED  BY <1>1, <1>4 DEF j, k

\* The chord from (x1, y1) to (x2, y2) has the slope l and leads to (x3, y3);
\* and the Z that jp_add computes, from the product z of those of its operands.
Chord(x1, y1, x2, y2, l, x3, y3) ==
  /\ Mod(l * (x2 - x1)) = Mod(y2 - y1)
  /\ x3 = (l * l - x1) - x2
  /\ y3 = l * (x1 - x3) - y1
ChordZ(x1, x2, z) == (x2 - x1) * ((z * z) * z)

\* jp_add follows the chord.
LEMMA AddScaled ==
  ASSUME NEW x1 \in Int, NEW y1 \in Int, NEW z1 \in Int,
         NEW x2 \in Int, NEW y2 \in Int, NEW z2 \in Int,
         NEW l \in Int, NEW x3 \in Int, NEW y3 \in Int, Chord(x1, y1, x2, y2, l, x3, y3)
  PROVE  AddFormula(Scaled(x1, y1, z1), Scaled(x2, y2, z2))
           = Scaled(x3, y3, ChordZ(x1, x2, z1 * z2))
<1> SUFFICES ASSUME Mod(l * (x2 - x1)) = Mod(y2 - y1),
                    x3 = (l * l - x1) - x2, y3 = l * (x1 - x3) - y1,
                    NEW z \in Int, z = z1 * z2,
                    NEW w \in Int, w = (x2 - x1) * ((z * z) * z)
             PROVE  AddFormula(Scaled(x1, y1, z1), Scaled(x2, y2, z2)) = Scaled(x3, y3, w)
  <2> DEFINE z == z1 * z2
  <2>1. z \in Int
    OBVIOUS
  <2> HIDE DEF z
  <2>2. (x2 - x1) * ((z * z) * z) \in Int
    BY <2>1
  <2>3. QED  BY <2>1, <2>2 DEF Chord, ChordZ, z
<1> DEFINE j == Scaled(x1, y1, z1)
           k == Scaled(x2, y2, z2)
           h == (x2 - x1) * (z * z)
           u1 == x1 * (z * z)
           s1 == y1 * ((z * z) * z)
           d == (y2 - y1) * ((z * z) * z)
           r == l * w
           v == x1 * (w * w)
           t == x3 * (w * w)
           a == h * (h * h)
           e == y1 * ((w * w) * w)
<1>1. /\ h \in Int /\ s1 \in Int /\ r \in Int /\ v \in Int /\ t \in Int
      /\ u1 \in Int /\ d \in Int /\ a \in Int /\ e \in Int
  OBVIOUS
<1>2. /\ j.z = Mod(z1) /\ k.z = Mod(z2)
  BY DEF Scaled, Jac
<1>3. /\ U1(j, k) = Mod(u1) /\ S1(j, k) = Mod(s1)
      /\ H(j, k) = Mod(h) /\ Rval(j, k) = Mod(d)
  <2>0. x1 \in Int /\ y1 \in Int /\ z1 \in Int /\ x2 \in Int /\ y2 \in Int /\ z2 \in Int
    OBVIOUS
  <2>1. z = z1 * z2
    OBVIOUS
  <2>2. U1(j, k) = Mod(u1)
    <3>1. U1(j, k) = Mod(x1 * ((z1 * z2) * (z1 * z2)))
      BY ONLY <2>0, U1Scaled
    <3>2. QED  BY ONLY <2>1, <3>1
  <2>3. S1(j, k) = Mod(s1)
    <3>1. S1(j, k) = Mod(y1 * (((z1 * z2) * (z1 * z2)) * (z1 * z2)))
      BY ONLY <2>0, S1Scaled
    <3>2. QED  BY ONLY <2>1, <3>1
  <2>4. H(j, k) = Mod(h)
    <3>1. H(j, k) = Mod((x2 - x1) * ((z1 * z2) * (z1 * z2)))
      BY ONLY <2>0, HScaled
    <3>2. QED  BY ONLY <2>1, <3>1
  <2>5. Rval(j, k) = Mod(d)
    <3>1. Rval(j, k) = Mod((y2 - y1) * (((z1 * z2) * (z1 * z2)) * (z1 * z2)))
      BY ONLY <2>0, RvalScaled
    <3>2. QED  BY ONLY <2>1, <3>1
  <2>6. QED  BY <2>2, <2>3, <2>4, <2>5
<1>4. Mod(d) = Mod(r)
  <2>1. PICK q \in Int : l * (x2 - x1) = (y2 - y1) + P * q
    <3>1. l * (x2 - x1) \in Int /\ y2 - y1 \in Int
      OBVIOUS
    <3>2. QED  BY <3>1, Congruent
  <2> DEFINE u == q * ((z * z) * z)
  <2>2. P \in Int
    BY PAssumption
  <2>3. r = (l * (x2 - x1)) * ((z * z) * z)
    OBVIOUS
  <2>4. r = ((y2 - y1) + P * q) * ((z * z) * z)
    BY <2>1, <2>3
  <2>5. u \in Int /\ r = d + P * u
    BY ONLY <1>1, <2>2, <2>4, y1 \in Int, y2 \in Int, q \in Int, z \in Int
  <2> HIDE DEF u, d, r
  <2>6. Mod(r) = Mod(d)
    BY <1>1, <2>5, Congruent
  <2>7. QED  BY <2>6
\* What the formula computes, as polynomials.
<1>5. /\ h * z = w /\ u1 * (h * h) = v /\ s1 * a = e
      /\ (r * r - a) - 2 * v = t
      /\ r * (v - t) - e = y3 * ((w * w) * w)
  <2> DEFINE f == x2 - x1
  <2>1. f \in Int /\ x2 = x1 + f /\ w = f * ((z * z) * z) /\ h = f * (z * z)
    OBVIOUS
  <2>2. h * z = w /\ u1 * (h * h) = v /\ s1 * a = e
    BY ONLY <2>1, z \in Int, x1 \in Int, y1 \in Int, f \in Int
  <2>3. a = f * (w * w)
    BY ONLY <2>1, z \in Int
  <2>4. (r * r - f * (w * w)) - 2 * v = t
    BY ONLY <2>1, w \in Int, x1 \in Int, l \in Int, x3 = (l * l - x1) - x2
  <2>5. r * (v - t) - e = y3 * ((w * w) * w)
    BY ONLY w \in Int, x1 \in Int, x3 \in Int, y1 \in Int, l \in Int, y3 = l * (x1 - x3) - y1
  <2>6. QED  BY <2>2, <2>3, <2>4, <2>5
<1>6. fmul(Mod(h), fmul(Mod(z1), Mod(z2))) = Mod(w)
  <2> HIDE DEF h
  <2>1. fmul(Mod(h), fmul(Mod(z1), Mod(z2))) = Mod(h * (z1 * z2))
    BY ONLY <1>1, ResidueRing, z1 \in Int, z2 \in Int
  <2>2. QED  BY <1>5, <2>1
<1> HIDE DEF j, k, h, u1, s1, d, r, v, t, e
<1>7. fmul(Mod(h), fsqr(Mod(h))) = Mod(a)
  BY ONLY <1>1, ResidueRing
<1> HIDE DEF a
<1>8. fmul(Mod(u1), fsqr(Mod(h))) = Mod(v)
  <2>1. fsqr(Mod(h)) = Mod(h * h) /\ h * h \in Int
    BY ONLY <1>1, ResidueRing
  <2>2. fmul(Mod(u1), Mod(h * h)) = Mod(u1 * (h * h))
    BY ONLY <1>1, <2>1, ResidueRing
  <2>3. QED  BY <1>5, <2>1, <2>2
<1>9. fsub(fsub(fsqr(Mod(r)), Mod(a)), fmul(2, Mod(v))) = Mod(t)
  <2>1. fsqr(Mod(r)) = Mod(r * r) /\ r * r \in Int
    BY ONLY <1>1, ResidueRing
  <2>2. fsub(Mod(r * r), Mod(a)) = Mod(r * r - a) /\ r * r - a \in Int
    BY ONLY <1>1, ResidueRing, <2>1
  <2>3. fmul(2, Mod(v)) = Mod(2 * v) /\ 2 * v \in Int
    BY ONLY <1>1, ResidueRing, 2 \in Int
  <2>4. QED  BY ONLY <1>5, ResidueRing, <2>1, <2>2, <2>3
<1>10. fsub(fmul(Mod(r), fsub(Mod(v), Mod(t))), fmul(Mod(s1), Mod(a)))
         = Mod(y3 * ((w * w) * w))
  <2>1. fsub(Mod(v), Mod(t)) = Mod(v - t) /\ v - t \in Int
    BY ONLY <1>1, ResidueRing
  <2>2. fmul(Mod(r), Mod(v - t)) = Mod(r * (v - t)) /\ r * (v - t) \in Int
    BY ONLY <1>1, <2>1, ResidueRing
  <2>3. fmul(Mod(s1), Mod(a)) = Mod(e)
    <3>1. fmul(Mod(s1), Mod(a)) = Mod(s1 * a)
      BY ONLY <1>1, ResidueRing
    <3>2. QED  BY <1>5, <3>1
  <2>4. fsub(Mod(r * (v - t)), Mod(e)) = Mod(r * (v - t) - e)
    BY ONLY <1>1, <2>2, ResidueRing
  <2>5. QED  BY ONLY <1>5, <2>1, <2>2, <2>3, <2>4
<1>11. AddFormula(j, k) = Jac(Mod(t), Mod(y3 * ((w * w) * w)), Mod(w))
  BY ONLY <1>2, <1>3, <1>4, <1>6, <1>7, <1>8, <1>9, <1>10 DEF AddFormula
<1>12. QED  BY <1>11 DEF j, k, t, Scaled

\* Dividing by what is not zero: the slope of a line.
LEMMA Division ==
  ASSUME NEW n \in Int, NEW e \in Int, Mod(e) # 0
  PROVE  LET l == fmul(Mod(n), Inverses[Mod(e)])
         IN  l \in Field /\ l \in Int /\ Mod(l) = l /\ Mod(l * e) = Mod(n)
<1> DEFINE i == Inverses[Mod(e)]
           l == fmul(Mod(n), i)
<1>1. Mod(e) \in Field \ {0}
  BY Residues
<1>2. i \in Field /\ i \in Int /\ Mod(i) = i /\ Mod(Mod(e) * i) = 1
  BY <1>1, InverseFacts, Canonical
<1> HIDE DEF i
<1>3. n * i \in Int /\ e * i \in Int
  BY <1>2
<1>4. l = Mod(n * i) /\ Mod(n * i) \in Field
  <2>1. fmul(Mod(n), Mod(i)) = Mod(n * i)
    BY <1>2, Residues
  <2>2. QED  BY <1>2, <1>3, <2>1, Residues
<1>5. l \in Int /\ Mod(l) = l
  BY <1>4, Canonical
<1> HIDE DEF l
<1>6. Mod(e * i) = 1
  <2>1. fmul(Mod(e), Mod(i)) = Mod(e * i)
    BY <1>2, Residues
  <2>2. QED  BY <1>2, <2>1 DEF fmul, Mod
<1>7. fmul(Mod(n * i), Mod(e)) = Mod((n * i) * e)
  BY <1>3, Residues
<1>8. fmul(Mod(l), Mod(e)) = Mod(l * e)
  BY <1>5, Residues
<1>9. (n * i) * e = n * (e * i)
  BY <1>2
<1>10. fmul(n, Mod(e * i)) = Mod(n * (e * i))
  BY <1>3, Residues
<1>11. fmul(n, 1) = Mod(n)
  BY DEF fmul, Mod
<1>12. Mod(l * e) = Mod(n)
  BY <1>4, <1>5, <1>6, <1>7, <1>8, <1>9, <1>10, <1>11
<1>13. QED  BY <1>4, <1>5, <1>12 DEF l, i

-----------------------------------------------------------------------------
(* The curve *)

\* The equation, on integers.
On(x, y) == Mod(y * y) = Mod((x * x) * x + B)

\* It is that of the residues.
LEMMA OnResidues ==
  ASSUME NEW x \in Int, NEW y \in Int
  PROVE  /\ On(x, y) <=> On(Mod(x), Mod(y))
         /\ On(x, y) <=> OnCurve(Affine(Mod(x), Mod(y)))
<1>1. /\ Mod(x) \in Field /\ Mod(y) \in Field
      /\ Mod(Mod(x)) = Mod(x) /\ Mod(Mod(y)) = Mod(y)
  BY Residues, Canonical
<1>2. \A a, c \in Int : OnCurve(Affine(Mod(a), Mod(c))) <=> On(a, c)
  <2> TAKE a, c \in Int
  <2>1. fsqr(Mod(c)) = Mod(c * c) /\ fsqr(Mod(a)) = Mod(a * a) /\ a * a \in Int
    BY Residues
  <2>2. fmul(Mod(a * a), Mod(a)) = Mod((a * a) * a) /\ (a * a) * a \in Int
    BY <2>1, Residues
  <2>3. (Mod((a * a) * a) + B) % P = Mod((a * a) * a + B)
    <3>1. B \in Int
      BY PAssumption, BAssumption
    <3>2. QED  BY <2>2, <3>1, Residues
  <2>4. /\ Affine(Mod(a), Mod(c)) # None
        /\ Affine(Mod(a), Mod(c)).ax = Mod(a) /\ Affine(Mod(a), Mod(c)).ay = Mod(c)
    BY DEF Affine, None
  <2>5. QED  BY <2>1, <2>2, <2>3, <2>4 DEF OnCurve, On
<1>3. Mod(x) \in Int /\ Mod(y) \in Int
  BY <1>1, Canonical
<1>4. OnCurve(Affine(Mod(x), Mod(y))) <=> On(Mod(x), Mod(y))
  BY <1>1, <1>2, <1>3
<1>5. QED  BY <1>2, <1>4

\* The coordinates of a finite point, of which the second is not zero.
LEMMA Coordinates ==
  ASSUME NEW pt \in FinitePoints
  PROVE  \E x, y \in Field : /\ pt = Affine(x, y) /\ pt.ax = x /\ pt.ay = y
                             /\ On(x, y) /\ Mod(2 * y) # 0 /\ y # 0
<1>1. PICK x \in Field, y \in Field : pt = Affine(x, y) /\ OnCurve(pt)
  BY DEF FinitePoints, AffinePoints
<1>2. pt.ax = x /\ pt.ay = y /\ x \in Int /\ y \in Int /\ Mod(x) = x /\ Mod(y) = y
  BY <1>1, Canonical DEF Affine
<1>3. On(x, y)
  BY <1>1, <1>2, OnResidues
<1>4. y # 0
  <2>1. SUFFICES ASSUME y = 0 PROVE FALSE
    OBVIOUS
  <2>2. fsqr(pt.ay) = 0
    <3>1. 0 * 0 = 0 /\ 0 % P = 0
      BY PAssumption
    <3>2. QED  BY <1>2, <2>1, <3>1 DEF fsqr, fmul
  <2>3. pt # None
    BY <1>1 DEF Affine, None
  <2>4. (fmul(fsqr(x), x) + B) % P = 0
    BY <1>1, <1>2, <2>2, <2>3 DEF OnCurve
  <2>5. QED  BY <2>4, OddOrderAssumption
<1>5. Mod(2 * y) # 0
  BY <1>2, <1>4, NoZeroDivisors, TwoIsNotZero
<1>6. QED  BY <1>1, <1>2, <1>3, <1>4, <1>5

\* Residues of coordinates on the curve are a finite point, in each triple that
\* scales them.
LEMMA ScaledOnCurve ==
  ASSUME NEW x \in Int, NEW y \in Int, NEW z \in Int, On(x, y), Mod(z) # 0
  PROVE  /\ Affine(Mod(x), Mod(y)) \in FinitePoints
         /\ Scaled(x, y, z) \in CurveTriples
         /\ Scaled(x, y, z).z # 0
         /\ jp_to_affine(Scaled(x, y, z)) = Affine(Mod(x), Mod(y))
<1> DEFINE pt == Affine(Mod(x), Mod(y))
<1>1. /\ Mod(x) \in Field /\ Mod(y) \in Field /\ Mod(z) \in Field \ {0}
      /\ pt.ax = Mod(x) /\ pt.ay = Mod(y) /\ pt # None
  BY Residues DEF Affine, None
<1>2. pt \in FinitePoints
  BY <1>1, OnResidues DEF AffinePoints, FinitePoints
<1>3. Scaled(x, y, z)
        = Jac(fmul(pt.ax, fsqr(Mod(z))), fmul(pt.ay, fmul(fsqr(Mod(z)), Mod(z))), Mod(z))
  BY <1>1, ScaledResidues
<1>4. Scaled(x, y, z) \in CurveTriples
  BY <1>1, <1>2, <1>3 DEF CurveTriples
<1>5. Scaled(x, y, z).z = Mod(z)
  BY DEF Scaled, Jac
<1>6. jp_to_affine(Scaled(Mod(x), Mod(y), z)) = pt
  BY <1>1, ScaledIsPoint
<1>7. Scaled(Mod(x), Mod(y), z) = Scaled(x, y, z)
  <2>1. Mod(Mod(x)) = Mod(x) /\ Mod(Mod(y)) = Mod(y) /\ Mod(x) \in Int /\ Mod(y) \in Int
    BY <1>1, Canonical
  <2>2. Scaled(Mod(Mod(x)), Mod(Mod(y)), Mod(z)) = Scaled(Mod(x), Mod(y), z)
    BY <2>1, ScaledResidues
  <2>3. Scaled(Mod(x), Mod(y), Mod(z)) = Scaled(x, y, z)
    BY ScaledResidues
  <2>4. QED  BY <2>1, <2>2, <2>3
<1>8. QED  BY <1>1, <1>2, <1>4, <1>5, <1>6, <1>7

\* The triples of the curve: infinity, and scaled points.
LEMMA TripleCases ==
  ASSUME NEW j \in CurveTriples
  PROVE  \/ /\ j.z = 0 /\ jp_to_affine(j) = None
            /\ \E y \in Field : j = Jac(0, y, 0)
         \/ \E x, y \in Field, z \in Field \ {0} :
              /\ j = Scaled(x, y, z) /\ j.z # 0
              /\ Affine(x, y) \in FinitePoints /\ jp_to_affine(j) = Affine(x, y)
              /\ On(x, y) /\ Mod(2 * y) # 0
<1>1. CASE \E y \in Field : j = Jac(0, y, 0)
  <2>1. j.z = 0
    BY <1>1 DEF Jac
  <2>2. QED  BY <1>1, <2>1 DEF jp_to_affine
<1>2. CASE \E pt \in FinitePoints, z \in Field \ {0} :
             j = Jac(fmul(pt.ax, fsqr(z)), fmul(pt.ay, fmul(fsqr(z), z)), z)
  <2>1. PICK pt \in FinitePoints, z \in Field \ {0} :
          j = Jac(fmul(pt.ax, fsqr(z)), fmul(pt.ay, fmul(fsqr(z), z)), z)
    BY <1>2
  <2>2. PICK x \in Field, y \in Field : /\ pt = Affine(x, y) /\ pt.ax = x /\ pt.ay = y
                                       /\ On(x, y) /\ Mod(2 * y) # 0 /\ y # 0
    BY Coordinates
  <2>3. /\ x \in Int /\ y \in Int /\ z \in Int
        /\ Mod(x) = x /\ Mod(y) = y /\ Mod(z) = z
    BY Canonical
  <2>4. j = Scaled(x, y, z)
    BY <2>1, <2>2, <2>3, ScaledResidues
  <2>5. j.z # 0 /\ jp_to_affine(j) = Affine(x, y)
    BY <2>2, <2>3, <2>4, ScaledOnCurve
  <2>6. QED  BY <2>2, <2>4, <2>5
<1>3. QED  BY <1>1, <1>2 DEF CurveTriples

\* The line of slope l through a point of the curve meets it in a point whose
\* opposite the formulas return, when g, the residue of its equation, vanishes.
LEMMA ThirdPoint ==
  ASSUME NEW x1 \in Int, NEW y1 \in Int, NEW x2 \in Int, NEW l \in Int, On(x1, y1),
         NEW x3 \in Int, x3 = (l * l - x1) - x2,
         NEW y3 \in Int, y3 = l * (x1 - x3) - y1,
         Mod((x1 * x1 + (l * l) * x1) - (2 * (l * y1) + x2 * x3)) = 0
  PROVE  On(x3, y3)
<1> DEFINE g == (x1 * x1 + (l * l) * x1) - (2 * (l * y1) + x2 * x3)
           c1 == (x1 * x1) * x1 + B
           c3 == (x3 * x3) * x3 + B
<1>0. B \in Int /\ P \in Int
  BY PAssumption, BAssumption
<1>1. g \in Int /\ c1 \in Int /\ c3 \in Int /\ y1 * y1 \in Int /\ y3 * y3 \in Int
  BY <1>0
<1>2. PICK a \in Int : c1 = y1 * y1 + P * a
  <2>1. Mod(c1) = Mod(y1 * y1)
    BY DEF On
  <2>2. QED  BY ONLY <1>1, <2>1, Congruent
<1>3. PICK e \in Int : g = 0 + P * e
  <2>1. Mod(g) = Mod(0) /\ 0 \in Int
    BY TwoIsNotZero
  <2>2. QED  BY ONLY <1>1, <2>1, Congruent
<1>4. c3 - y3 * y3 = g * (x3 - x1) + (c1 - y1 * y1)
  BY ONLY <1>0, x1 \in Int, y1 \in Int, x2 \in Int, l \in Int, x3 \in Int, y3 \in Int,
          x3 = (l * l - x1) - x2, y3 = l * (x1 - x3) - y1
<1> HIDE DEF g, c1, c3
<1> DEFINE f == e * (x3 - x1) + a
<1>5. g = P * e
  BY <1>0, <1>3
<1>6. f \in Int /\ c3 = y3 * y3 + P * f
  <2>1. c3 - y3 * y3 = (P * e) * (x3 - x1) + P * a
    BY <1>0, <1>1, <1>2, <1>4, <1>5
  <2>2. QED  BY ONLY <1>0, <1>1, <2>1, a \in Int, e \in Int, x3 \in Int, x1 \in Int, y3 \in Int
<1> HIDE DEF f
<1>7. Mod(c3) = Mod(y3 * y3)
  BY ONLY <1>1, <1>6, Congruent
<1>8. QED  BY <1>7 DEF On, c3

\* The tangent and the chord do.
LEMMA TangentStays ==
  ASSUME NEW x \in Int, NEW y \in Int, NEW l \in Int, On(x, y),
         Mod(l * (2 * y)) = Mod(3 * (x * x)),
         NEW x3 \in Int, x3 = l * l - 2 * x,
         NEW y3 \in Int, y3 = l * (x - x3) - y
  PROVE  On(x3, y3)
<1> DEFINE g == (x * x + (l * l) * x) - (2 * (l * y) + x * x3)
<1>1. g = 3 * (x * x) - l * (2 * y)
  OBVIOUS
<1>2. 3 * (x * x) \in Int /\ l * (2 * y) \in Int
  OBVIOUS
<1>3. Mod(g) = 0
  <2>1. PICK q \in Int : 3 * (x * x) = l * (2 * y) + P * q
    <3>1. Mod(3 * (x * x)) = Mod(l * (2 * y))
      OBVIOUS
    <3>2. QED  BY ONLY <1>2, <3>1, Congruent
  <2>2. P * q \in Int
    BY PAssumption
  <2>3. g \in Int /\ g = 0 + P * q
    BY <1>1, <1>2, <2>1, <2>2
  <2> HIDE DEF g
  <2>4. Mod(g) = Mod(0)
    BY ONLY <2>3, Congruent, q \in Int, 0 \in Int
  <2>5. QED  BY <2>4, TwoIsNotZero
<1>4. x3 = (l * l - x) - x
  OBVIOUS
<1>5. QED  BY <1>3, <1>4, ThirdPoint

LEMMA ChordStays ==
  ASSUME NEW x1 \in Int, NEW y1 \in Int, NEW x2 \in Int, NEW y2 \in Int, NEW l \in Int,
         On(x1, y1), On(x2, y2), Mod(x2 - x1) # 0,
         Mod(l * (x2 - x1)) = Mod(y2 - y1),
         NEW x3 \in Int, x3 = (l * l - x1) - x2,
         NEW y3 \in Int, y3 = l * (x1 - x3) - y1
  PROVE  On(x3, y3)
<1> DEFINE d == x2 - x1
           g == (x1 * x1 + (l * l) * x1) - (2 * (l * y1) + x2 * x3)
           c1 == (x1 * x1) * x1 + B
           c2 == (x2 * x2) * x2 + B
<1>0. B \in Int /\ P \in Int
  BY PAssumption, BAssumption
<1>1. /\ d \in Int /\ g \in Int /\ c1 \in Int /\ c2 \in Int
      /\ y1 * y1 \in Int /\ y2 * y2 \in Int /\ g * d \in Int
      /\ l * d \in Int /\ y2 - y1 \in Int
  BY <1>0
<1>2. Mod(c1) = Mod(y1 * y1) /\ Mod(c2) = Mod(y2 * y2)
  BY DEF On
<1>3. PICK a \in Int : c1 = y1 * y1 + P * a
  BY ONLY <1>1, <1>2, Congruent
<1>4. PICK c \in Int : c2 = y2 * y2 + P * c
  BY ONLY <1>1, <1>2, Congruent
<1>5. PICK q \in Int : l * d = (y2 - y1) + P * q
  <2>1. Mod(l * d) = Mod(y2 - y1)
    OBVIOUS
  <2>2. QED  BY ONLY <1>1, <2>1, Congruent
<1> DEFINE m == y1 + l * d
<1>6. g * d = (c2 - m * m) - (c1 - y1 * y1)
  BY ONLY <1>0, x1 \in Int, y1 \in Int, x2 \in Int, l \in Int, x3 = (l * l - x1) - x2
<1>7. m = y2 + P * q /\ m \in Int
  BY <1>0, <1>1, <1>5
<1> DEFINE f == (c - a) - (2 * (y2 * q) + P * (q * q))
<1> HIDE DEF c1, c2, g, d, m
<1>8. f \in Int /\ g * d = 0 + P * f
  <2>1. g * d = ((y2 * y2 + P * c) - (y2 + P * q) * (y2 + P * q)) - P * a
    BY <1>0, <1>1, <1>3, <1>4, <1>6, <1>7
  <2>2. QED  BY ONLY <1>0, <2>1, y2 \in Int, c \in Int, q \in Int, a \in Int
<1> HIDE DEF f
<1>9. Mod(g * d) = 0
  <2>1. Mod(g * d) = Mod(0)
    BY ONLY <1>1, <1>8, Congruent, 0 \in Int
  <2>2. QED  BY <2>1, TwoIsNotZero
<1>10. Mod(d) # 0
  BY DEF d
<1>11. Mod(g) = 0
  BY ONLY <1>1, <1>9, <1>10, NoZeroDivisors
<1>12. Mod((x1 * x1 + (l * l) * x1) - (2 * (l * y1) + x2 * x3)) = 0
  BY <1>11 DEF g
<1>13. QED
  BY ONLY <1>12, ThirdPoint, On(x1, y1), x1 \in Int, y1 \in Int, x2 \in Int, l \in Int,
          x3 \in Int, y3 \in Int, x3 = (l * l - x1) - x2, y3 = l * (x1 - x3) - y1

-----------------------------------------------------------------------------
(* The group law *)

\* The tangent at a finite point: its slope, and the point it leads to.
LEMMA TangentPoint ==
  ASSUME NEW x \in Field, NEW y \in Field, On(x, y), Mod(2 * y) # 0
  PROVE  \E l, x3, y3 \in Int :
           /\ Tangent(x, y, l, x3, y3)
           /\ On(x3, y3)
           /\ ChordTangent(Affine(x, y), Affine(x, y)) = Affine(Mod(x3), Mod(y3))
<1>1. x \in Int /\ y \in Int /\ Mod(x) = x /\ Mod(y) = y
  BY Canonical
<1> DEFINE n == 3 * (x * x)
           e == 2 * y
           l == fmul(Mod(n), Inverses[Mod(e)])
<1>2. n \in Int /\ e \in Int
  BY <1>1
<1>3. fmul(3, fsqr(x)) = Mod(n) /\ fmul(2, y) = Mod(e)
  <2>1. fsqr(Mod(x)) = Mod(x * x) /\ x * x \in Int
    BY <1>1, Residues
  <2>2. fmul(3, Mod(x * x)) = Mod(3 * (x * x))
    BY ONLY <2>1, 3 \in Int, ResidueRing
  <2>3. fmul(2, Mod(y)) = Mod(2 * y)
    BY ONLY <1>1, 2 \in Int, ResidueRing
  <2>4. QED  BY <1>1, <2>1, <2>2, <2>3
<1>4. l \in Int /\ Mod(l) = l /\ Mod(l * e) = Mod(n)
  <2> HIDE DEF n, e
  <2>1. QED  BY <1>2, Division DEF e
<1> HIDE DEF n, e, l
<1> DEFINE x3 == l * l - 2 * x
           y3 == l * (x - x3) - y
<1>5. x3 \in Int /\ y3 \in Int
  BY <1>1, <1>4
<1>6. On(x3, y3)
  <2>1. Mod(l * (2 * y)) = Mod(3 * (x * x))
    BY <1>4 DEF e, n
  <2> HIDE DEF x3, y3
  <2>2. x3 = l * l - 2 * x /\ y3 = l * (x - x3) - y
    BY DEF x3, y3
  <2>3. QED  BY ONLY <1>1, <1>4, <1>5, <2>1, <2>2, TangentStays, On(x, y)
<1>7. ChordTangent(Affine(x, y), Affine(x, y)) = Affine(Mod(x3), Mod(y3))
  <2>1. fsub(fsub(fsqr(l), x), x) = Mod(x3)
    <3>1. fsqr(Mod(l)) = Mod(l * l) /\ l * l \in Int
      BY ONLY <1>4, ResidueRing
    <3>2. fsub(Mod(l * l), Mod(x)) = Mod(l * l - x) /\ l * l - x \in Int
      BY ONLY <1>1, <3>1, ResidueRing
    <3>3. fsub(Mod(l * l - x), Mod(x)) = Mod((l * l - x) - x)
      BY ONLY <1>1, <3>2, ResidueRing
    <3>4. (l * l - x) - x = x3
      BY <1>1, <3>1
    <3>5. QED  BY <1>1, <1>4, <3>1, <3>2, <3>3, <3>4
  <2> HIDE DEF x3
  <2>2. fsub(fmul(l, fsub(x, Mod(x3))), y) = Mod(y3)
    <3>1. fsub(Mod(x), Mod(x3)) = Mod(x - x3) /\ x - x3 \in Int
      BY ONLY <1>1, <1>5, ResidueRing
    <3>2. fmul(l, Mod(x - x3)) = Mod(l * (x - x3)) /\ l * (x - x3) \in Int
      BY ONLY <1>4, <3>1, ResidueRing
    <3>3. fsub(Mod(l * (x - x3)), Mod(y)) = Mod(l * (x - x3) - y)
      BY ONLY <1>1, <3>2, ResidueRing
    <3>4. QED  BY <1>1, <3>1, <3>2, <3>3
  <2>3. fmul(fmul(3, fsqr(x)), Inverses[fmul(2, y)]) = l
    BY <1>3 DEF l
  <2>4. /\ Affine(x, y) # None /\ Affine(x, y).ax = x /\ Affine(x, y).ay = y
    BY DEF Affine, None
  <2>5. QED  BY ONLY <2>1, <2>2, <2>3, <2>4 DEF ChordTangent
<1>8. QED
  <2>1. Mod(l * (2 * y)) = Mod(3 * (x * x))
    BY <1>4 DEF e, n
  <2>2. Tangent(x, y, l, x3, y3)
    BY <2>1 DEF Tangent
  <2>3. QED  BY <1>4, <1>5, <1>6, <1>7, <2>2

\* The chord through two points with different abscissas.
LEMMA ChordPoint ==
  ASSUME NEW x1 \in Field, NEW y1 \in Field, NEW x2 \in Field, NEW y2 \in Field,
         On(x1, y1), On(x2, y2), x1 # x2
  PROVE  \E l, x3, y3 \in Int :
           /\ Chord(x1, y1, x2, y2, l, x3, y3)
           /\ On(x3, y3)
           /\ ChordTangent(Affine(x1, y1), Affine(x2, y2)) = Affine(Mod(x3), Mod(y3))
<1>1. /\ x1 \in Int /\ y1 \in Int /\ Mod(x1) = x1 /\ Mod(y1) = y1
      /\ x2 \in Int /\ y2 \in Int /\ Mod(x2) = x2 /\ Mod(y2) = y2
  BY Canonical
<1> DEFINE n == y2 - y1
           e == x2 - x1
           l == fmul(Mod(n), Inverses[Mod(e)])
<1>2. n \in Int /\ e \in Int
  BY <1>1
<1>3. fsub(y2, y1) = Mod(n) /\ fsub(x2, x1) = Mod(e)
  BY DEF fsub, Mod
<1>4. Mod(e) # 0
  <2>1. SUFFICES ASSUME Mod(e) = 0 PROVE FALSE
    OBVIOUS
  <2>2. Mod((x2 - x1) * 1) = 0 /\ Mod(1) # 0
    <3>1. (x2 - x1) * 1 = e
      BY <1>1
    <3>2. QED  BY <2>1, <3>1, TwoIsNotZero
  <2>3. Mod(x2) = Mod(x1)
    BY ONLY <1>1, <2>2, 1 \in Int, Cancel
  <2>4. QED  BY <1>1, <2>3
<1>5. l \in Int /\ Mod(l) = l /\ Mod(l * e) = Mod(n)
  <2> HIDE DEF n, e
  <2>1. QED  BY <1>2, <1>4, Division
<1> HIDE DEF l
<1>6. Mod(l * (x2 - x1)) = Mod(y2 - y1)
  BY <1>5
<1> DEFINE x3 == (l * l - x1) - x2
           y3 == l * (x1 - x3) - y1
<1>7. x3 \in Int /\ y3 \in Int
  BY <1>1, <1>5
<1>8. On(x3, y3)
  <2>1. Mod(x2 - x1) # 0
    BY <1>4
  <2> HIDE DEF x3, y3
  <2>2. x3 = (l * l - x1) - x2 /\ y3 = l * (x1 - x3) - y1
    BY DEF x3, y3
  <2>3. QED
    BY ONLY <1>1, <1>5, <1>6, <1>7, <2>1, <2>2, ChordStays, On(x1, y1), On(x2, y2)
<1>9. ChordTangent(Affine(x1, y1), Affine(x2, y2)) = Affine(Mod(x3), Mod(y3))
  <2>1. fsub(fsub(fsqr(l), x1), x2) = Mod(x3)
    <3>1. fsqr(Mod(l)) = Mod(l * l) /\ l * l \in Int
      BY ONLY <1>5, ResidueRing
    <3>2. fsub(Mod(l * l), Mod(x1)) = Mod(l * l - x1) /\ l * l - x1 \in Int
      BY ONLY <1>1, <3>1, ResidueRing
    <3>3. fsub(Mod(l * l - x1), Mod(x2)) = Mod((l * l - x1) - x2)
      BY ONLY <1>1, <3>2, ResidueRing
    <3>4. QED  BY <1>1, <1>5, <3>1, <3>2, <3>3
  <2> HIDE DEF x3
  <2>2. fsub(fmul(l, fsub(x1, Mod(x3))), y1) = Mod(y3)
    <3>1. fsub(Mod(x1), Mod(x3)) = Mod(x1 - x3) /\ x1 - x3 \in Int
      BY ONLY <1>1, <1>7, ResidueRing
    <3>2. fmul(l, Mod(x1 - x3)) = Mod(l * (x1 - x3)) /\ l * (x1 - x3) \in Int
      BY ONLY <1>5, <3>1, ResidueRing
    <3>3. fsub(Mod(l * (x1 - x3)), Mod(y1)) = Mod(l * (x1 - x3) - y1)
      BY ONLY <1>1, <3>2, ResidueRing
    <3>4. QED  BY <1>1, <3>1, <3>2, <3>3
  <2>3. fmul(fsub(y2, y1), Inverses[fsub(x2, x1)]) = l
    BY <1>3 DEF l
  <2>4. /\ Affine(x1, y1) # None /\ Affine(x1, y1).ax = x1 /\ Affine(x1, y1).ay = y1
        /\ Affine(x2, y2) # None /\ Affine(x2, y2).ax = x2 /\ Affine(x2, y2).ay = y2
    BY DEF Affine, None
  <2>5. QED  BY ONLY <2>1, <2>2, <2>3, <2>4, x1 # x2 DEF ChordTangent
<1>10. Chord(x1, y1, x2, y2, l, x3, y3)
  BY <1>6 DEF Chord
<1>11. QED  BY <1>5, <1>7, <1>8, <1>9, <1>10

\* jp_double on a triple of the curve.
LEMMA DoubleIsTangent ==
  ASSUME NEW j \in CurveTriples
  PROVE  /\ jp_double(j) \in CurveTriples
         /\ jp_to_affine(jp_double(j)) = ChordTangent(jp_to_affine(j), jp_to_affine(j))
<1> USE PAssumption
<1>1. ASSUME j.z = 0, jp_to_affine(j) = None, NEW y \in Field, j = Jac(0, y, 0)
      PROVE  /\ jp_double(j) \in CurveTriples
             /\ jp_to_affine(jp_double(j)) = ChordTangent(jp_to_affine(j), jp_to_affine(j))
  <2>1. \E c \in Field : jp_double(j) = Jac(0, c, 0)
    <3>1. CASE y = 0
      <4>1. jp_double(j) = Jac(0, 1, 0)
        BY <1>1, <3>1 DEF jp_double, JP_INFINITY, Jac
      <4>2. QED  BY <4>1 DEF Field
    <3>2. CASE y # 0
      <4>1. j.x = 0 /\ j.y = y /\ j.z = 0
        BY <1>1 DEF Jac
      <4>2. \A c \in Field : /\ fmul(0, c) = 0 /\ fmul(c, 0) = 0
        <5>1. \A c \in Int : 0 * c = 0 /\ c * 0 = 0 /\ 0 % P = 0
          OBVIOUS
        <5>2. QED  BY <5>1, Canonical DEF fmul
      <4>3. \A a, c \in Field : fmul(a, c) \in Field /\ fsub(a, c) \in Field
        <5>1. \A a, c \in Int : a * c \in Int /\ a - c \in Int
          OBVIOUS
        <5>2. QED  BY <5>1, Residues, Canonical DEF fmul, fsub, Mod
      <4>4. 0 \in Field /\ 2 \in Field /\ 3 \in Field /\ fsub(0, 0) = 0
        BY DEF Field, fsub
      <4> DEFINE y1sq == fsqr(y)
      <4>5. y1sq \in Field /\ fsqr(0) = 0 /\ fsqr(y1sq) \in Field
        BY <4>2, <4>3, <4>4 DEF fsqr
      <4> HIDE DEF y1sq
      <4>6. fmul(8, fsqr(y1sq)) \in Field
        <5>1. \A a \in Int : fmul(8, a) = Mod(8 * a) /\ 8 * a \in Int
          BY DEF fmul, Mod
        <5>2. QED  BY <4>5, <5>1, Residues, Canonical
      <4>7. fmul(4, fmul(0, y1sq)) = 0 /\ fmul(3, fsqr(0)) = 0
        <5>1. fmul(4, 0) = 0
          BY DEF fmul
        <5>2. QED  BY <4>2, <4>4, <4>5, <5>1
      <4>8. fsub(fsqr(0), fmul(2, 0)) = 0
        BY <4>2, <4>4, <4>5
      <4>9. fsub(fmul(0, fsub(0, 0)), fmul(8, fsqr(y1sq))) \in Field
        BY <4>2, <4>3, <4>4, <4>6
      <4>10. fmul(2, fmul(y, 0)) = 0
        BY <4>2, <4>4
      <4>11. DoubleFormula(j) = Jac(0, fsub(fmul(0, fsub(0, 0)), fmul(8, fsqr(y1sq))), 0)
        BY ONLY <4>1, <4>7, <4>8, <4>10 DEF DoubleFormula, y1sq
      <4>12. jp_double(j) = DoubleFormula(j)
        BY <3>2, <4>1 DEF jp_double
      <4>13. QED  BY <4>9, <4>11, <4>12
    <3>3. QED  BY <3>1, <3>2
  <2>2. jp_double(j) \in CurveTriples /\ jp_double(j).z = 0
    BY <2>1 DEF CurveTriples, Jac
  <2>3. jp_to_affine(jp_double(j)) = None
    BY <2>2 DEF jp_to_affine
  <2>4. QED  BY <1>1, <2>2, <2>3 DEF ChordTangent
<1>2. ASSUME NEW x \in Field, NEW y \in Field, NEW z \in Field \ {0},
             j = Scaled(x, y, z), jp_to_affine(j) = Affine(x, y),
             On(x, y), Mod(2 * y) # 0
      PROVE  /\ jp_double(j) \in CurveTriples
             /\ jp_to_affine(jp_double(j)) = ChordTangent(jp_to_affine(j), jp_to_affine(j))
  <2>1. x \in Int /\ y \in Int /\ z \in Int /\ Mod(y) = y /\ Mod(z) = z
    BY <1>2, Canonical
  <2>2. PICK l, x3, y3 \in Int :
          /\ Tangent(x, y, l, x3, y3)
          /\ On(x3, y3)
          /\ ChordTangent(Affine(x, y), Affine(x, y)) = Affine(Mod(x3), Mod(y3))
    BY <1>2, TangentPoint
  <2> DEFINE c == ((z * z) * z) * z
             w == 2 * (y * c)
  <2>3. w \in Int /\ w = 2 * (y * (((z * z) * z) * z)) /\ w = (2 * y) * c /\ c \in Int
    BY ONLY <2>1
  <2>4. Mod(z * z) # 0 /\ z * z \in Int
    BY <1>2, <2>1, NoZeroDivisors
  <2>5. Mod((z * z) * z) # 0 /\ (z * z) * z \in Int
    BY <1>2, <2>1, <2>4, NoZeroDivisors
  <2>6. Mod(c) # 0
    BY <1>2, <2>1, <2>5, NoZeroDivisors
  <2>7. Mod(w) # 0
    <3>1. 2 * y \in Int
      BY <2>1
    <3> HIDE DEF c
    <3>2. Mod((2 * y) * c) # 0
      BY ONLY <1>2, <2>3, <2>6, <3>1, NoZeroDivisors
    <3>3. QED  BY <2>3, <3>2
  <2>8. j.y # 0
    <3>1. Mod(y) # 0
      <4>1. SUFFICES ASSUME y = 0 PROVE FALSE
        BY <2>1
      <4>2. QED  BY <1>2, <4>1, TwoIsNotZero
    <3>2. Mod(y * ((z * z) * z)) # 0
      BY ONLY <2>1, <2>5, <3>1, NoZeroDivisors
    <3>3. QED  BY <1>2, <3>2 DEF Scaled, Jac
  <2> HIDE DEF w, c
  <2>9. DoubleFormula(Scaled(x, y, z)) = Scaled(x3, y3, w)
    <3>1. DoubleFormula(Scaled(x, y, z)) = Scaled(x3, y3, TangentZ(y, z))
      BY <2>1, <2>2, DoubleScaled
    <3>2. QED  BY <2>3, <3>1 DEF TangentZ
  <2>10. jp_double(j) = Scaled(x3, y3, w)
    BY <1>2, <2>8, <2>9 DEF jp_double
  <2>11. /\ Scaled(x3, y3, w) \in CurveTriples
         /\ jp_to_affine(Scaled(x3, y3, w)) = Affine(Mod(x3), Mod(y3))
    BY ONLY <2>2, <2>3, <2>7, ScaledOnCurve
  <2>12. QED  BY ONLY <1>2, <2>2, <2>10, <2>11
<1>3. QED
  BY <1>1, <1>2, TripleCases

\* jp_add on triples of the curve, the same one twice included.
LEMMA AddIsChord ==
  ASSUME NEW j \in CurveTriples, NEW k \in CurveTriples
  PROVE  /\ jp_add(j, k) \in CurveTriples
         /\ jp_to_affine(jp_add(j, k)) = ChordTangent(jp_to_affine(j), jp_to_affine(k))
<1> DEFINE Right == /\ jp_add(j, k) \in CurveTriples
                    /\ jp_to_affine(jp_add(j, k))
                         = ChordTangent(jp_to_affine(j), jp_to_affine(k))
<1>1. CASE j.z = 0
  <2>1. jp_add(j, k) = k
    BY <1>1 DEF jp_add
  <2>2. jp_to_affine(j) = None
    BY <1>1 DEF jp_to_affine
  <2>3. QED  BY <2>1, <2>2 DEF ChordTangent
<1>2. CASE j.z # 0 /\ k.z = 0
  <2>1. jp_add(j, k) = j
    BY <1>2 DEF jp_add
  <2>2. jp_to_affine(k) = None
    BY <1>2 DEF jp_to_affine
  <2>3. QED  BY <2>1, <2>2 DEF ChordTangent
<1>3. CASE j.z # 0 /\ k.z # 0
  <2>1. PICK x1 \in Field, y1 \in Field, z1 \in Field \ {0} :
          /\ j = Scaled(x1, y1, z1) /\ jp_to_affine(j) = Affine(x1, y1)
          /\ On(x1, y1)
    BY <1>3, TripleCases
  <2>2. PICK x2 \in Field, y2 \in Field, z2 \in Field \ {0} :
          /\ k = Scaled(x2, y2, z2) /\ jp_to_affine(k) = Affine(x2, y2)
          /\ On(x2, y2)
    BY <1>3, TripleCases
  <2>3. /\ x1 \in Int /\ y1 \in Int /\ z1 \in Int
        /\ x2 \in Int /\ y2 \in Int /\ z2 \in Int
        /\ Mod(x1) = x1 /\ Mod(y1) = y1 /\ Mod(z1) = z1
        /\ Mod(x2) = x2 /\ Mod(y2) = y2 /\ Mod(z2) = z2
    BY <2>1, <2>2, Canonical
  <2> DEFINE z == z1 * z2
             s == z * z
             c == s * z
  <2>4. z \in Int /\ s \in Int /\ c \in Int
    BY <2>3
  <2>5. Mod(z) # 0
    BY <2>1, <2>2, <2>3, NoZeroDivisors
  <2> HIDE DEF z
  <2>6. Mod(s) # 0
    BY <2>4, <2>5, NoZeroDivisors
  <2> HIDE DEF s
  <2>7. Mod(c) # 0
    BY <2>4, <2>5, <2>6, NoZeroDivisors
  <2> HIDE DEF c
  <2>8. H(j, k) = Mod((x2 - x1) * s)
    <3>1. H(j, k) = Mod((x2 - x1) * ((z1 * z2) * (z1 * z2)))
      BY ONLY <2>1, <2>2, <2>3, HScaled
    <3>2. QED  BY <3>1 DEF s, z
  <2>9. Rval(j, k) = Mod((y2 - y1) * c)
    <3>1. Rval(j, k) = Mod((y2 - y1) * (((z1 * z2) * (z1 * z2)) * (z1 * z2)))
      BY ONLY <2>1, <2>2, <2>3, RvalScaled
    <3>2. QED  BY <3>1 DEF c, s, z
  <2>10. \A e \in Int : Mod(0 * e) = 0
    <3>1. \A e \in Int : 0 * e = 0
      OBVIOUS
    <3>2. QED  BY <3>1, TwoIsNotZero
  <2>11. H(j, k) = 0 <=> x1 = x2
    <3>1. ASSUME H(j, k) = 0 PROVE x1 = x2
      BY ONLY <2>3, <2>4, <2>6, <2>8, <3>1, Cancel
    <3>2. ASSUME x1 = x2 PROVE H(j, k) = 0
      <4>1. x2 - x1 = 0
        BY <2>3, <3>2
      <4>2. QED  BY <2>4, <2>8, <2>10, <4>1
    <3>3. QED  BY <3>1, <3>2
  <2>12. Rval(j, k) = 0 <=> y1 = y2
    <3>1. ASSUME Rval(j, k) = 0 PROVE y1 = y2
      BY ONLY <2>3, <2>4, <2>7, <2>9, <3>1, Cancel
    <3>2. ASSUME y1 = y2 PROVE Rval(j, k) = 0
      <4>1. y2 - y1 = 0
        BY <2>3, <3>2
      <4>2. QED  BY <2>4, <2>9, <2>10, <4>1
    <3>3. QED  BY <3>1, <3>2
  <2>13. /\ Affine(x1, y1) # None /\ Affine(x1, y1).ax = x1 /\ Affine(x1, y1).ay = y1
         /\ Affine(x2, y2) # None /\ Affine(x2, y2).ax = x2 /\ Affine(x2, y2).ay = y2
    BY DEF Affine, None
  <2>14. CASE x1 = x2 /\ y1 = y2
    <3>1. jp_add(j, k) = jp_double(j)
      BY <1>3, <2>11, <2>12, <2>14 DEF jp_add
    <3>2. jp_to_affine(j) = jp_to_affine(k)
      BY <2>1, <2>2, <2>14
    <3>3. QED  BY <3>1, <3>2, DoubleIsTangent
  <2>15. CASE x1 = x2 /\ y1 # y2
    <3>1. jp_add(j, k) = JP_INFINITY
      BY <1>3, <2>11, <2>12, <2>15 DEF jp_add
    <3>2. JP_INFINITY \in CurveTriples /\ JP_INFINITY.z = 0
      <4>1. 1 \in Field
        BY PAssumption DEF Field
      <4>2. QED  BY <4>1 DEF CurveTriples, JP_INFINITY, Jac
    <3>3. jp_to_affine(JP_INFINITY) = None
      BY <3>2 DEF jp_to_affine
    <3>4. ChordTangent(Affine(x1, y1), Affine(x2, y2)) = None
      BY <2>13, <2>15 DEF ChordTangent
    <3>5. QED  BY <2>1, <2>2, <3>1, <3>2, <3>3, <3>4
  <2>16. CASE x1 # x2
    <3>1. PICK l, x3, y3 \in Int :
            /\ Chord(x1, y1, x2, y2, l, x3, y3)
            /\ On(x3, y3)
            /\ ChordTangent(Affine(x1, y1), Affine(x2, y2)) = Affine(Mod(x3), Mod(y3))
      BY <2>1, <2>2, <2>16, ChordPoint
    <3> DEFINE w == (x2 - x1) * c
    <3>2. w \in Int /\ w = (x2 - x1) * ((z * z) * z) /\ z = z1 * z2
      BY <2>3, <2>4 DEF c, s, z
    <3>3. Mod(w) # 0
      <4>1. SUFFICES ASSUME Mod((x2 - x1) * c) = 0 PROVE FALSE
        OBVIOUS
      <4>2. Mod(x2) = Mod(x1)
        BY ONLY <2>3, <2>4, <2>7, <4>1, Cancel
      <4>3. QED  BY <2>3, <2>16, <4>2
    <3> HIDE DEF w
    <3>4. AddFormula(Scaled(x1, y1, z1), Scaled(x2, y2, z2)) = Scaled(x3, y3, w)
      <4>1. AddFormula(Scaled(x1, y1, z1), Scaled(x2, y2, z2))
              = Scaled(x3, y3, ChordZ(x1, x2, z1 * z2))
        BY <2>3, <3>1, AddScaled
      <4>2. QED  BY <3>2, <4>1 DEF ChordZ
    <3>5. jp_add(j, k) = Scaled(x3, y3, w)
      BY <1>3, <2>1, <2>2, <2>11, <2>16, <3>4 DEF jp_add
    <3>6. /\ Scaled(x3, y3, w) \in CurveTriples
          /\ jp_to_affine(Scaled(x3, y3, w)) = Affine(Mod(x3), Mod(y3))
      BY ONLY <3>1, <3>2, <3>3, ScaledOnCurve
    <3>7. QED  BY ONLY <2>1, <2>2, <3>1, <3>5, <3>6
  <2>17. QED  BY <2>14, <2>15, <2>16
<1>4. QED  BY <1>1, <1>2, <1>3

\* The affine point of a triple of the curve is a point of the curve.
LEMMA TriplesStand ==
  ASSUME NEW j \in CurveTriples PROVE jp_to_affine(j) \in AffinePoints
<1>1. CASE jp_to_affine(j) = None
  BY <1>1 DEF AffinePoints
<1>2. CASE jp_to_affine(j) \in FinitePoints
  BY <1>2 DEF FinitePoints
<1>3. QED  BY <1>1, <1>2, TripleCases

\* Every point has a triple with each Z.
LEMMA TriplesOfPoints ==
  /\ JP_INFINITY \in CurveTriples /\ jp_to_affine(JP_INFINITY) = None
  /\ \A pt \in FinitePoints, z \in Field \ {0} :
       LET j == Jac(fmul(pt.ax, fsqr(z)), fmul(pt.ay, fmul(fsqr(z), z)), z)
       IN  j \in CurveTriples /\ jp_to_affine(j) = pt
<1>1. JP_INFINITY \in CurveTriples /\ jp_to_affine(JP_INFINITY) = None
  <2>1. 1 \in Field
    BY PAssumption DEF Field
  <2>2. QED  BY <2>1 DEF CurveTriples, JP_INFINITY, Jac, jp_to_affine
<1>2. ASSUME NEW pt \in FinitePoints, NEW z \in Field \ {0}
      PROVE  LET j == Jac(fmul(pt.ax, fsqr(z)), fmul(pt.ay, fmul(fsqr(z), z)), z)
             IN  j \in CurveTriples /\ jp_to_affine(j) = pt
  <2>1. PICK x \in Field, y \in Field : pt = Affine(x, y) /\ pt.ax = x /\ pt.ay = y
    BY Coordinates
  <2>2. /\ x \in Int /\ y \in Int /\ z \in Int
        /\ Mod(x) = x /\ Mod(y) = y /\ Mod(z) = z
    BY Canonical
  <2>3. Jac(fmul(pt.ax, fsqr(z)), fmul(pt.ay, fmul(fsqr(z), z)), z) = Scaled(x, y, z)
    BY <2>1, <2>2, ScaledResidues
  <2>4. jp_to_affine(Scaled(x, y, z)) = pt
    BY <2>1, <2>2, ScaledIsPoint
  <2>5. Jac(fmul(pt.ax, fsqr(z)), fmul(pt.ay, fmul(fsqr(z), z)), z) \in CurveTriples
    BY DEF CurveTriples
  <2>6. QED  BY <2>3, <2>4, <2>5
<1>3. QED  BY <1>1, <1>2

\* Chord and tangent stay among the points of the curve.
LEMMA GroupCloses ==
  ASSUME NEW pt \in AffinePoints, NEW qt \in AffinePoints
  PROVE  ChordTangent(pt, qt) \in AffinePoints
<1>1. \A rt \in AffinePoints : \E j \in CurveTriples : jp_to_affine(j) = rt
  <2>1. 1 \in Field \ {0}
    BY PAssumption DEF Field
  <2>2. QED  BY <2>1, TriplesOfPoints DEF FinitePoints
<1>2. PICK j \in CurveTriples : jp_to_affine(j) = pt
  BY <1>1
<1>3. PICK k \in CurveTriples : jp_to_affine(k) = qt
  BY <1>1
<1>4. QED  BY <1>2, <1>3, AddIsChord, TriplesStand

\* The negative of a coordinate on the curve is on it, and differs from it.
LEMMA OppositeFacts ==
  ASSUME NEW x \in Field, NEW y \in Field, On(x, y), y # 0, Mod(2 * y) # 0
  PROVE  /\ fneg(y) \in Field \ {0} /\ fneg(y) = Mod(0 - y) /\ fneg(y) # y
         /\ On(x, 0 - y) /\ Affine(x, fneg(y)) \in FinitePoints
         /\ \A e \in Field : On(x, e) /\ e # y => e = fneg(y)
<1>1. x \in Int /\ y \in Int /\ Mod(x) = x /\ Mod(y) = y /\ 0 - y \in Int
  BY Canonical
<1>2. fneg(y) = Mod(0 - y) /\ fneg(y) \in Field
  BY <1>1, Residues
<1>3. fneg(y) # y
  <2>1. SUFFICES ASSUME Mod(0 - y) = Mod(y) PROVE FALSE
    BY <1>1, <1>2
  <2>2. PICK q \in Int : y = (0 - y) + P * q
    BY <1>1, <2>1, Congruent
  <2>3. 2 * y \in Int /\ P * q \in Int /\ 2 * y = 0 + P * q
    BY <1>1, <2>2, PAssumption
  <2>4. Mod(2 * y) = Mod(0)
    BY ONLY <2>3, Congruent, q \in Int, 0 \in Int
  <2>5. QED  BY <2>4, TwoIsNotZero
<1>4. fneg(y) # 0
  BY <1>1, PAssumption DEF fneg, Field
<1>5. On(x, 0 - y)
  <2>1. (0 - y) * (0 - y) = y * y
    BY <1>1
  <2>2. QED  BY <2>1 DEF On
<1>6. Affine(x, fneg(y)) \in FinitePoints
  <2>1. 1 \in Int /\ Mod(1) # 0
    BY TwoIsNotZero
  <2>2. QED  BY <1>1, <1>2, <1>5, <2>1, ScaledOnCurve
<1>7. ASSUME NEW e \in Field, On(x, e), e # y PROVE e = fneg(y)
  <2>1. e \in Int /\ Mod(e) = e
    BY Canonical
  <2>2. Mod(e * e) = Mod(y * y) /\ e * e \in Int /\ y * y \in Int
    BY <1>1, <1>7, <2>1 DEF On
  <2>3. PICK q \in Int : e * e = y * y + P * q
    BY ONLY <2>2, Congruent
  <2> DEFINE d == e - y
             s == e - (0 - y)
  <2>4. d \in Int /\ s \in Int /\ P * q \in Int /\ s * d = e * e - y * y
    BY <1>1, <2>1, PAssumption
  <2>5. s * d \in Int /\ s * d = 0 + P * q
    BY <2>2, <2>3, <2>4
  <2>6. Mod(s * d) = Mod(0)
    <3> HIDE DEF s, d
    <3>1. QED  BY ONLY <2>5, Congruent, q \in Int, 0 \in Int
  <2>7. Mod(d) # 0
    <3>1. SUFFICES ASSUME Mod(d) = 0 PROVE FALSE
      OBVIOUS
    <3>2. Mod((e - y) * 1) = 0 /\ Mod(1) # 0
      <4>1. (e - y) * 1 = d
        BY <2>1, <1>1
      <4>2. QED  BY <3>1, <4>1, TwoIsNotZero
    <3>3. Mod(e) = Mod(y)
      BY ONLY <1>1, <2>1, <3>2, 1 \in Int, Cancel
    <3>4. QED  BY <1>1, <1>7, <2>1, <3>3
  <2>8. Mod(e) = Mod(0 - y)
    <3>1. Mod((e - (0 - y)) * d) = 0
      BY <2>6, TwoIsNotZero
    <3> HIDE DEF d
    <3>2. QED  BY ONLY <1>1, <2>1, <2>4, <2>7, <3>1, Cancel
  <2>9. QED  BY <1>2, <2>1, <2>8
<1>8. QED  BY <1>2, <1>3, <1>4, <1>5, <1>6, <1>7

\* Negated is the inverse of the group, and the only one.
LEMMA OppositeIsUnique ==
  ASSUME NEW pt \in AffinePoints
  PROVE  /\ Negated(pt) \in AffinePoints
         /\ \A qt \in AffinePoints : ChordTangent(pt, qt) = None <=> qt = Negated(pt)
<1>1. CASE pt = None
  BY <1>1 DEF Negated, ChordTangent
<1>2. CASE pt # None
  <2>1. pt \in FinitePoints
    BY <1>2 DEF FinitePoints
  <2>2. PICK x \in Field, y \in Field : /\ pt = Affine(x, y) /\ pt.ax = x /\ pt.ay = y
                                       /\ On(x, y) /\ Mod(2 * y) # 0 /\ y # 0
    BY <2>1, Coordinates
  <2>3. Negated(pt) = Affine(x, fneg(y)) /\ Negated(pt) \in FinitePoints
    BY <1>2, <2>2, OppositeFacts DEF Negated
  <2>4. \A a, c : Affine(a, c) # None /\ Affine(a, c).ax = a /\ Affine(a, c).ay = c
    BY DEF Affine, None
  <2>5. ASSUME NEW qt \in AffinePoints
        PROVE  ChordTangent(pt, qt) = None <=> qt = Negated(pt)
    <3>1. CASE qt = None
      BY <1>2, <2>3, <2>4, <3>1 DEF ChordTangent
    <3>2. CASE qt # None
      <4>1. qt \in FinitePoints
        BY <3>2 DEF FinitePoints
      <4>2. PICK a \in Field, e \in Field : /\ qt = Affine(a, e) /\ qt.ax = a /\ qt.ay = e
                                           /\ On(a, e)
        BY <4>1, Coordinates
      <4>3. ChordTangent(pt, qt) = None <=> x = a /\ y # e
        BY <1>2, <2>2, <2>4, <3>2, <4>2 DEF ChordTangent
      <4>4. qt = Negated(pt) <=> x = a /\ e = fneg(y)
        BY <2>3, <2>4, <4>2
      <4>5. x = a => (y # e <=> e = fneg(y))
        BY <2>2, <4>2, OppositeFacts
      <4>6. QED  BY <4>3, <4>4, <4>5
    <3>3. QED  BY <3>1, <3>2
  <2>6. QED  BY <2>3, <2>5 DEF FinitePoints
<1>3. QED  BY <1>1, <1>2

\* jp_neg on a triple of the curve, and the C function, which also negates the
\* Y of infinity.
LEMMA NegIsOpposite ==
  ASSUME NEW j \in CurveTriples
  PROVE  /\ jp_neg(j) \in CurveTriples /\ jp_neg_internal(j) \in CurveTriples
         /\ jp_to_affine(jp_neg(j)) = Negated(jp_to_affine(j))
         /\ jp_to_affine(jp_neg_internal(j)) = Negated(jp_to_affine(j))
<1>1. ASSUME j.z = 0, NEW y \in Field, j = Jac(0, y, 0)
      PROVE  /\ jp_neg(j) \in CurveTriples /\ jp_neg_internal(j) \in CurveTriples
             /\ jp_to_affine(jp_neg(j)) = Negated(jp_to_affine(j))
             /\ jp_to_affine(jp_neg_internal(j)) = Negated(jp_to_affine(j))
  <2>1. fneg(y) \in Field
    BY Canonical, Residues
  <2>2. jp_neg(j) = j /\ jp_neg_internal(j) = Jac(0, fneg(y), 0)
    BY <1>1 DEF jp_neg, jp_neg_internal, Jac
  <2>3. jp_neg_internal(j) \in CurveTriples /\ jp_neg_internal(j).z = 0
    BY <2>1, <2>2 DEF CurveTriples, Jac
  <2>4. /\ jp_to_affine(j) = None /\ jp_to_affine(jp_neg_internal(j)) = None
    BY <1>1, <2>3 DEF jp_to_affine
  <2>5. QED  BY <2>2, <2>3, <2>4 DEF Negated
<1>2. ASSUME j.z # 0, NEW x \in Field, NEW y \in Field, NEW z \in Field \ {0},
             j = Scaled(x, y, z), jp_to_affine(j) = Affine(x, y),
             Affine(x, y) \in FinitePoints
      PROVE  /\ jp_neg(j) \in CurveTriples /\ jp_neg_internal(j) \in CurveTriples
             /\ jp_to_affine(jp_neg(j)) = Negated(jp_to_affine(j))
             /\ jp_to_affine(jp_neg_internal(j)) = Negated(jp_to_affine(j))
  <2>1. \A a, c : Affine(a, c) # None /\ Affine(a, c).ax = a /\ Affine(a, c).ay = c
    BY DEF Affine, None
  <2>2. On(x, y) /\ y # 0 /\ Mod(2 * y) # 0
    BY <1>2, <2>1, Coordinates
  <2>3. /\ x \in Int /\ y \in Int /\ z \in Int /\ 0 - y \in Int
        /\ Mod(x) = x /\ Mod(z) = z
    BY Canonical
  <2>4. fneg(y) = Mod(0 - y) /\ On(x, 0 - y)
    BY <2>2, OppositeFacts
  <2> DEFINE c == (z * z) * z
  <2>5. c \in Int /\ y * c \in Int /\ 0 - y * c = (0 - y) * c
    BY <2>3
  <2>6. jp_neg_internal(j) = Jac(Mod(x * (z * z)), fneg(Mod(y * c)), Mod(z))
    BY <1>2 DEF jp_neg_internal, Scaled, Jac
  <2>7. fneg(Mod(y * c)) = Mod((0 - y) * c)
    <3> HIDE DEF c
    <3>1. QED  BY <2>5, Residues
  <2>8. jp_neg_internal(j) = Scaled(x, 0 - y, z)
    BY <2>6, <2>7 DEF Scaled
  <2>9. jp_neg(j) = jp_neg_internal(j)
    BY <1>2 DEF jp_neg, jp_neg_internal
  <2>10. /\ Scaled(x, 0 - y, z) \in CurveTriples
         /\ jp_to_affine(Scaled(x, 0 - y, z)) = Affine(Mod(x), Mod(0 - y))
    <3>1. Mod(z) # 0
      BY <2>3
    <3>2. QED  BY ONLY <2>3, <2>4, <3>1, ScaledOnCurve
  <2>11. Negated(Affine(x, y)) = Affine(x, fneg(y))
    BY <2>1 DEF Negated
  <2>12. QED  BY <1>2, <2>3, <2>4, <2>8, <2>9, <2>10, <2>11
<1>3. QED  BY <1>1, <1>2, TripleCases

\* The selections of the C functions override each other so that the triple is
\* the one the early returns of the Ruby functions give, whatever the operands:
\* on no curve and for no pair of triples can a table or an accumulator tell
\* which backend made it.
LEMMA SelectionsAreEarlyReturns ==
  ASSUME NEW j, NEW l
  PROVE  /\ jp_double_internal(j) = jp_double(j)
         /\ jp_add_internal(j, l) = jp_add(j, l)
<1>1. jp_double_internal(j) = jp_double(j)
  BY DEF jp_double_internal, jp_double, Select
<1>2. CASE j.z = 0
  BY <1>1, <1>2 DEF jp_add_internal, jp_add, Select
<1>3. CASE j.z # 0 /\ l.z = 0
  BY <1>1, <1>3 DEF jp_add_internal, jp_add, Select
<1>4. CASE j.z # 0 /\ l.z # 0 /\ H(j, l) = 0
  BY <1>1, <1>4 DEF jp_add_internal, jp_add, Select
<1>5. CASE j.z # 0 /\ l.z # 0 /\ H(j, l) # 0
  BY <1>1, <1>5 DEF jp_add_internal, jp_add, Select
<1>6. QED  BY <1>1, <1>2, <1>3, <1>4, <1>5

\* The functions of lib/secp256k1.rb and of jacobian.c compute the group law on
\* all triples of the curve's points, equal, opposite and infinite operands
\* included, in every prime field and on every curve of odd order.
THEOREM FormulasAreTheGroupLaw ==
  \A j, l \in CurveTriples :
    /\ jp_to_affine(j) \in AffinePoints
    /\ \A sum \in {jp_add(j, l), jp_add_internal(j, l)} :
         /\ sum \in CurveTriples
         /\ jp_to_affine(sum) = ChordTangent(jp_to_affine(j), jp_to_affine(l))
    /\ \A double \in {jp_double(j), jp_double_internal(j)} :
         /\ double \in CurveTriples
         /\ jp_to_affine(double) = ChordTangent(jp_to_affine(j), jp_to_affine(j))
    /\ \A neg \in {jp_neg(j), jp_neg_internal(j)} :
         /\ neg \in CurveTriples
         /\ jp_to_affine(neg) = Negated(jp_to_affine(j))
<1> TAKE j, l \in CurveTriples
<1>1. jp_to_affine(j) \in AffinePoints
  BY TriplesStand
<1>2. /\ jp_add_internal(j, l) = jp_add(j, l)
      /\ jp_double_internal(j) = jp_double(j)
  BY SelectionsAreEarlyReturns
<1>3. /\ jp_add(j, l) \in CurveTriples
      /\ jp_to_affine(jp_add(j, l)) = ChordTangent(jp_to_affine(j), jp_to_affine(l))
  BY AddIsChord
<1>4. /\ jp_double(j) \in CurveTriples
      /\ jp_to_affine(jp_double(j)) = ChordTangent(jp_to_affine(j), jp_to_affine(j))
  BY DoubleIsTangent
<1>5. \A neg \in {jp_neg(j), jp_neg_internal(j)} :
        neg \in CurveTriples /\ jp_to_affine(neg) = Negated(jp_to_affine(j))
  BY NegIsOpposite
<1>6. QED  BY <1>1, <1>2, <1>3, <1>4, <1>5

-----------------------------------------------------------------------------
(* Multiples *)

\* A set of natural numbers has a least one.
LEMMA Least ==
  ASSUME NEW T, T \subseteq Nat, T # {}
  PROVE  \E n \in T : \A m \in T : n <= m
<1> DEFINE R == {ss \in Nat \X Nat : ss[1] < ss[2]}
<1>1. IsWellFoundedOn(R, Nat)
  BY NatLessThanWellFounded DEF OpToRel
<1> HIDE DEF R
<1>2. PICK n \in T : \A m \in T : ~ (<<m, n>> \in R)
  BY <1>1, WFMin
<1>3. \A m \in T : ~ (m < n)
  BY <1>2 DEF R
<1>4. QED  BY <1>3

\* A sequence defined by its first value and its steps exists, for every length.
Iterated(f, s0, step, m) == f[0] = s0 /\ \A n \in 1..m : f[n] = step[n][f[n - 1]]

LEMMA Iterates ==
  ASSUME NEW S, NEW s0 \in S, NEW step \in [Nat -> [S -> S]], NEW m \in Nat
  PROVE  \E f \in [0..m -> S] : Iterated(f, s0, step, m)
<1> USE DEF Iterated
<1> DEFINE Goes(l) ==
             \E f \in [0..l -> S] : f[0] = s0 /\ \A n \in 1..l : f[n] = step[n][f[n - 1]]
           T == {l \in Nat : ~Goes(l)}
<1>1. SUFFICES ASSUME T # {} PROVE FALSE
  OBVIOUS
<1>2. PICK l \in T : \A n \in T : l <= n
  <2>1. T \subseteq Nat
    OBVIOUS
  <2> HIDE DEF T
  <2>2. QED  BY <1>1, <2>1, Least
<1>3. Goes(l)
  <2>1. CASE l = 0
    <3> DEFINE f == [n \in 0..0 |-> s0]
    <3>1. f \in [0..0 -> S] /\ f[0] = s0 /\ 1..0 = {}
      OBVIOUS
    <3> HIDE DEF f
    <3>2. QED  BY <2>1, <3>1
  <2>2. CASE l # 0
    <3>0. l \in Nat
      BY <1>2
    <3>1. l \in Nat /\ l - 1 \in Nat /\ l - 1 \notin T
      <4> HIDE DEF T
      <4>1. QED  BY <1>2, <2>2, <3>0
    <3>2. PICK f \in [0..l - 1 -> S] :
            f[0] = s0 /\ \A n \in 1..l - 1 : f[n] = step[n][f[n - 1]]
      BY <3>1
    <3> DEFINE g == [n \in 0..l |-> IF n = l THEN step[l][f[l - 1]] ELSE f[n]]
    <3>3. g \in [0..l -> S]
      BY <3>1, <3>2
    <3>4. g[0] = s0
      BY <2>2, <3>1, <3>2
    <3>5. ASSUME NEW n \in 1..l PROVE g[n] = step[n][g[n - 1]]
      <4>1. n \in 0..l /\ n - 1 \in 0..l - 1 /\ n - 1 \in 0..l /\ n - 1 # l
        BY <3>1
      <4>2. g[n - 1] = f[n - 1] /\ g[n] = IF n = l THEN step[l][f[l - 1]] ELSE f[n]
        BY <4>1
      <4>3. n # l => n \in 1..l - 1
        BY <3>1
      <4> HIDE DEF g
      <4>4. QED  BY <3>2, <4>2, <4>3
    <3> HIDE DEF g
    <3>6. QED  BY <3>3, <3>4, <3>5
  <2>3. QED  BY <2>1, <2>2
<1>4. QED  BY <1>2, <1>3

\* The multiples of a point are points, each the sum of the one before it and
\* the point.
LEMMA MultiplesFacts ==
  ASSUME NEW pt \in FinitePoints
  PROVE  /\ MultiplesOf[pt] \in [0..N - 1 -> AffinePoints]
         /\ MultiplesOf[pt][0] = None
         /\ \A n \in 1..N - 1 : MultiplesOf[pt][n] = ChordTangent(MultiplesOf[pt][n - 1], pt)
<1> DEFINE Def(f) == f = [n \in 0..N - 1 |->
                            IF n = 0 THEN None ELSE ChordTangent(f[n - 1], pt)]
           step == [n \in Nat |-> [qt \in AffinePoints |-> ChordTangent(qt, pt)]]
           M == CHOOSE f : Def(f)
<1>1. None \in AffinePoints /\ pt \in AffinePoints /\ N - 1 \in Nat
  BY NAssumption DEF FinitePoints, AffinePoints
<1>2. step \in [Nat -> [AffinePoints -> AffinePoints]]
  BY <1>1, GroupCloses
<1>3. \E f : Def(f)
  <2>1. PICK f \in [0..N - 1 -> AffinePoints] :
          f[0] = None /\ \A n \in 1..N - 1 : f[n] = step[n][f[n - 1]]
    <3> HIDE DEF step
    <3>1. \E f \in [0..N - 1 -> AffinePoints] : Iterated(f, None, step, N - 1)
      BY <1>1, <1>2, Iterates
    <3>2. QED  BY <3>1 DEF Iterated
  <2>2. ASSUME NEW n \in 0..N - 1
        PROVE  f[n] = IF n = 0 THEN None ELSE ChordTangent(f[n - 1], pt)
    <3>1. CASE n = 0
      BY <2>1, <3>1
    <3>2. CASE n # 0
      <4>1. n \in 1..N - 1 /\ n - 1 \in 0..N - 1
        BY <1>1, <3>2
      <4>2. f[n] = step[n][f[n - 1]] /\ f[n - 1] \in AffinePoints
        BY <2>1, <4>1
      <4>3. QED  BY <3>2, <4>2
    <3>3. QED  BY <3>1, <3>2
  <2>3. QED  BY <2>2
<1>4. Def(M)
  <2> HIDE DEF Def
  <2>1. QED  BY <1>3
<1>5. MultiplesOf[pt] = M
  BY DEF MultiplesOf, FinitePoints
<1> HIDE DEF M
<1>6. M[0] = None /\ \A n \in 1..N - 1 : M[n] = ChordTangent(M[n - 1], pt)
  BY <1>1, <1>4
<1>7. \A n \in 0..N - 1 : M[n] \in AffinePoints
  <2> DEFINE T == {n \in 0..N - 1 : M[n] \notin AffinePoints}
  <2>1. SUFFICES ASSUME T # {} PROVE FALSE
    OBVIOUS
  <2>2. PICK l \in T : \A n \in T : l <= n
    <3>1. T \subseteq Nat
      BY <1>1
    <3> HIDE DEF T
    <3>2. QED  BY <2>1, <3>1, Least
  <2>3. CASE l = 0
    BY <1>1, <1>6, <2>2, <2>3
  <2>4. CASE l # 0
    <3>1. l \in 1..N - 1 /\ l - 1 \in 0..N - 1 /\ l - 1 \notin T
      BY <1>1, <2>2, <2>4
    <3>2. M[l] = ChordTangent(M[l - 1], pt) /\ M[l - 1] \in AffinePoints
      BY <1>6, <3>1
    <3>3. QED  BY <1>1, <2>2, <3>2, GroupCloses
  <2>5. QED  BY <2>3, <2>4
<1>8. QED  BY <1>4, <1>5, <1>6, <1>7

=============================================================================
