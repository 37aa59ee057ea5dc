-------------------------- MODULE LimbReduceProofs --------------------------
(***************************************************************************)
(* The limb loops of field.c and scalar.c for words of any size and every  *)
(* pair of moduli that the assumptions admit: they lose no carry and no    *)
(* limb, fold as FoldReduce folds numbers, and so return the residue.      *)
(*                                                                         *)
(* The last parts are about the wrappers that the loops serve: a call at   *)
(* the Ruby/C boundary returns what the Ruby function returns, and powers, *)
(* by Fermat's little theorem, are the inverses and roots asked for.       *)
(***************************************************************************)
EXTENDS LimbReduce, FiniteSetTheorems, WellFoundedInduction, TLAPS

-----------------------------------------------------------------------------
(* Division with remainder *)

\* Multiplication distributes over addition.
LEMMA Distribute ==
  ASSUME NEW a \in Int, NEW b \in Int, NEW c \in Int
  PROVE  /\ a * (b + c) = a * b + a * c
         /\ a * (b - c) = a * b - a * c
         /\ a * b \in Int
         /\ a * b = b * a
OBVIOUS

\* Division with remainder, by its quotient and remainder.
LEMMA DivMod ==
  ASSUME NEW a \in Nat, NEW m \in Nat \ {0}
  PROVE  \E d \in Nat, u \in 0..m - 1 :
           a = m * d + u /\ a \div m = d /\ a % m = u
<1>1. /\ a = m * (a \div m) + (a % m)
      /\ a \div m \in Nat
      /\ a % m \in 0..m - 1
  OBVIOUS
<1>2. QED  BY <1>1

\* Quotient and remainder are unique.
LEMMA DivModUnique ==
  ASSUME NEW m \in Nat \ {0}, NEW q \in Int, NEW u \in 0..m - 1,
         NEW a \in Nat, a = m * q + u
  PROVE  a % m = u /\ a \div m = q
<1>1. PICK d \in Nat, s \in 0..m - 1 : a = m * d + s /\ a \div m = d /\ a % m = s
  BY DivMod
<1> DEFINE c == q - d
<1>2. c \in Int /\ m * c = s - u
  BY <1>1
<1>3. ~(c >= 1)
  <2>1. SUFFICES ASSUME c >= 1 PROVE FALSE
    OBVIOUS
  <2>2. m * c = m + m * (c - 1) /\ c - 1 \in Nat /\ m * (c - 1) \in Nat
    BY <1>2, <2>1
  <2>3. QED  BY <1>1, <1>2, <2>2
<1>4. ~(c <= 0 - 1)
  <2>1. SUFFICES ASSUME c <= 0 - 1 PROVE FALSE
    OBVIOUS
  <2> DEFINE n == 0 - c - 1
  <2>2. n \in Nat /\ c = 0 - n - 1 /\ m * n \in Nat
    BY <1>2, <2>1
  <2>3. m * c = (0 - m * n) - m
    BY <2>2
  <2> HIDE DEF n, c
  <2>4. QED  BY <1>1, <1>2, <2>2, <2>3
<1>5. c = 0
  BY <1>2, <1>3, <1>4
<1>6. QED  BY <1>1, <1>2, <1>5

\* Numbers that differ by a multiple of m have the same remainder.
LEMMA ModShift ==
  ASSUME NEW m \in Nat \ {0}, NEW a \in Nat, NEW b \in Nat, NEW q \in Int,
         a = b + m * q
  PROVE  a % m = b % m
<1>0. \A x \in Nat, y \in Int, v \in 0..m - 1 : x = m * y + v => x % m = v
  BY DivModUnique
<1>1. PICK d \in Nat, u \in 0..m - 1 : b = m * d + u /\ b % m = u
  BY DivMod
<1> DEFINE e == q + d
<1>2. e \in Int /\ a = m * e + u
  <2>1. m * (q + d) = m * q + m * d
    OBVIOUS
  <2>2. QED  BY <1>1, <2>1
<1> HIDE DEF e
<1>3. a % m = u
  BY ONLY <1>0, <1>2, a \in Nat, u \in 0..m - 1
<1>4. QED  BY <1>1, <1>3

\* Remainders may be taken before adding.
LEMMA ModAdd ==
  ASSUME NEW m \in Nat \ {0}, NEW a \in Nat, NEW b \in Nat
  PROVE  ((a % m) + b) % m = (a + b) % m
<1>1. PICK d \in Nat, u \in 0..m - 1 : a = m * d + u /\ a % m = u
  BY DivMod
<1>2. a + b = (u + b) + m * d
  BY <1>1, Distribute
<1>3. u + b \in Nat /\ a + b \in Nat /\ d \in Int
  BY <1>1
<1>4. \A x, y \in Nat, e \in Int : x = y + m * e => x % m = y % m
  BY ModShift
<1>5. (a + b) % m = (u + b) % m
  BY <1>1, <1>2, <1>3, <1>4
<1>6. QED  BY <1>1, <1>5

\* Both remainders may be taken before adding,
LEMMA ModSum ==
  ASSUME NEW m \in Nat \ {0}, NEW a \in Nat, NEW b \in Nat
  PROVE  ((a % m) + (b % m)) % m = (a + b) % m
<1>1. a % m \in Nat /\ b % m \in Nat
  OBVIOUS
<1>2. ((a % m) + (b % m)) % m = (a + (b % m)) % m
  BY <1>1, ModAdd
<1>3. ((b % m) + a) % m = (b + a) % m
  BY ModAdd
<1>4. a + (b % m) = (b % m) + a /\ a + b = b + a
  BY <1>1
<1>5. QED  BY <1>2, <1>3, <1>4

\* and before multiplying.
LEMMA ModProduct ==
  ASSUME NEW m \in Nat \ {0}, NEW a \in Nat, NEW b \in Nat
  PROVE  ((a % m) * (b % m)) % m = (a * b) % m
<1>1. PICK d \in Nat, u \in 0..m - 1 : a = m * d + u /\ a % m = u
  BY DivMod
<1>2. PICK e \in Nat, v \in 0..m - 1 : b = m * e + v /\ b % m = v
  BY DivMod
<1> DEFINE q == d * (m * e + v) + u * e
<1>3. m \in Int /\ u \in Nat /\ v \in Nat
  OBVIOUS
<1>4. (m * d + u) * (m * e + v) = u * v + m * q
  BY <1>3
<1>5. q \in Int /\ u * v \in Nat /\ a * b \in Nat
  BY <1>3
<1> HIDE DEF q
<1>6. a * b = u * v + m * q
  BY <1>1, <1>2, <1>4
<1>7. \A x, y \in Nat, z \in Int : x = y + m * z => x % m = y % m
  BY ModShift
<1>8. (a * b) % m = (u * v) % m
  BY ONLY <1>5, <1>6, <1>7
<1>9. QED  BY <1>1, <1>2, <1>8

-----------------------------------------------------------------------------
(* One turn of a loop over limbs *)

LEMMA WordFacts ==
  /\ Word \in Nat \ {0} /\ Word > 3
  /\ Word * Word \in Nat \ {0} /\ Word * Word >= 4 * Word
  /\ Word * Word * Word * Word \in Nat \ {0}
  /\ Two256 \in Nat \ {0} /\ Two256 >= 64 * Word
  /\ Two256 = (Word * Word) * (Word * Word)
  /\ \A x \in Int : Word * (Word * (Word * (Word * x))) = Two256 * x
<1>1. Word \in Nat \ {0} /\ Word > 3
  BY WordAssumption
<1> DEFINE w == Word
           w2 == w * w
           w3 == w2 * w
<1>2. w2 \in Nat /\ w2 >= 4 * w
  BY <1>1
<1>3. w3 \in Nat /\ w3 >= 4 * w2 /\ w3 = w * w2
  BY <1>1, <1>2
<1>4. Two256 = w3 * w /\ Two256 \in Nat /\ Two256 >= 4 * w3
  BY <1>1, <1>3 DEF Two256
<1>5. Two256 = w2 * w2
  BY <1>1 DEF Two256
<1>6. ASSUME NEW x \in Int PROVE w * (w * (w * (w * x))) = Two256 * x
  BY <1>1 DEF Two256
<1>7. QED  BY <1>1, <1>2, <1>3, <1>4, <1>5, <1>6 DEF Two256

\* An accumulator splits into the limb that is stored and the carry.
LEMMA AccFacts ==
  ASSUME NEW x \in Nat, x < Word * Word
  PROVE  /\ Wide(x) = x
         /\ Low(x) \in Limb /\ High(x) \in Limb
         /\ x = Word * High(x) + Low(x)
<1>1. PICK h \in Nat, d \in 0..Word - 1 :
        x = Word * h + d /\ x \div Word = h /\ x % Word = d
  BY WordFacts, DivMod
<1>2. h < Word
  <2>1. SUFFICES ASSUME h >= Word PROVE FALSE
    BY <1>1, WordFacts
  <2>2. Word * h >= Word * Word
    BY <2>1, <1>1, WordFacts
  <2>3. QED  BY <1>1, <2>2, WordFacts
<1>3. Wide(x) = x
  <2>1. x = (Word * Word) * 0 + x /\ x \in 0..Word * Word - 1
    BY WordFacts
  <2>2. QED  BY <2>1, WordFacts, DivModUnique DEF Wide
<1>4. QED  BY <1>1, <1>2, <1>3, WordFacts DEF Low, High, Limb

\* A limb below a number.
Above(a, x) == a + Word * x

LEMMA ValueIsAbove ==
  \A x : Value(x) = Above(x[0], Above(x[1], Above(x[2], x[3])))
BY DEF Value, Above

\* Together with what comes in, f is d and k times m more, which is handed on.
Carries(f, in, d, k, m) ==
  f \in Int /\ in \in Int /\ d \in Int /\ k \in Int /\ m \in Int /\ f + in = d + m * k

LEMMA AboveCarries ==
  ASSUME NEW c, NEW in, NEW e, NEW h, NEW f, NEW d, NEW k, NEW m,
         Carries(c, in, e, h, Word), Carries(f, h, d, k, m)
  PROVE  Carries(Above(c, f), in, Above(e, d), k, Word * m)
<1>1. /\ c \in Int /\ in \in Int /\ e \in Int /\ h \in Int /\ c + in = e + Word * h
      /\ f \in Int /\ d \in Int /\ k \in Int /\ m \in Int /\ f + h = d + m * k
      /\ Word \in Int
  BY DEF Carries
<1>2. Word * (f + h) = Word * f + Word * h
  BY <1>1, Distribute
<1>3. Word * (d + m * k) = Word * d + Word * (m * k)
  BY <1>1, Distribute
<1>4. Word * (m * k) = (Word * m) * k
  BY <1>1
<1>5. Word * f \in Int /\ Word * h \in Int /\ Word * d \in Int /\ (Word * m) * k \in Int
  BY <1>1
<1>6. QED  BY <1>1, <1>2, <1>3, <1>4, <1>5 DEF Carries, Above

\* Four limbs that hand on.
LEMMA ValueCarries ==
  ASSUME NEW f, NEW d, NEW h0, NEW h1, NEW h2, NEW h3,
         Carries(f[0], 0, d[0], h0, Word), Carries(f[1], h0, d[1], h1, Word),
         Carries(f[2], h1, d[2], h2, Word), Carries(f[3], h2, d[3], h3, Word)
  PROVE  Carries(Value(f), 0, Value(d), h3, Two256)
<1>1. Carries(Above(f[2], f[3]), h1, Above(d[2], d[3]), h3, Word * Word)
  BY AboveCarries
<1>2. Carries(Above(f[1], Above(f[2], f[3])), h0, Above(d[1], Above(d[2], d[3])), h3,
              Word * (Word * Word))
  BY <1>1, AboveCarries
<1>3. Carries(Value(f), 0, Value(d), h3, Word * (Word * (Word * Word)))
  BY <1>2, AboveCarries, ValueIsAbove
<1>4. Word * (Word * (Word * Word)) = Two256
  BY WordFacts DEF Two256
<1>5. QED  BY <1>3, <1>4

Term == 0..Word * Word - Word
Limbs4 == [0..3 -> Limb]
Limbs8 == [0..7 -> Limb]

LEMMA LimbInt == \A x \in Limb : x \in Nat /\ x <= Word - 1
BY WordFacts DEF Limb

LEMMA FourFacts ==
  ASSUME NEW a, NEW b, NEW c, NEW d
  PROVE  /\ Four(a, b, c, d)[0] = a /\ Four(a, b, c, d)[1] = b
         /\ Four(a, b, c, d)[2] = c /\ Four(a, b, c, d)[3] = d
         /\ \A S : {a, b, c, d} \subseteq S => Four(a, b, c, d) \in [0..3 -> S]
BY DEF Four

\* The lowest limb split off, and the carry taken for the highest one.
LEMMA WindowFacts ==
  ASSUME NEW d \in Limbs4, NEW c \in Limb
  PROVE  Value(d) + Two256 * c = d[0] + Word * Value(Four(d[1], d[2], d[3], c))
<1> DEFINE x3 == Above(d[3], c)
           x2 == Above(d[2], x3)
           x1 == Above(d[1], x2)
           W == Word
<1>1. /\ W \in Int /\ c \in Int /\ d[0] \in Int /\ d[1] \in Int /\ d[2] \in Int
      /\ d[3] \in Int
  BY WordFacts, LimbInt DEF Limbs4
<1>2. \A x \in Int : Carries(x, 0, x, 0, W)
  BY <1>1 DEF Carries
<1>3. Carries(x3, 0, d[3], c, W)
  BY <1>1 DEF Carries, Above
<1> HIDE DEF x3
<1>4. Carries(x2, 0, Above(d[2], d[3]), c, W * W)
  BY <1>1, <1>2, <1>3, AboveCarries
<1> HIDE DEF x2
<1>5. Carries(x1, 0, Above(d[1], Above(d[2], d[3])), c, W * (W * W))
  BY <1>1, <1>2, <1>4, AboveCarries
<1> HIDE DEF x1
<1>6. Carries(Above(d[0], x1), 0, Value(d), c, W * (W * (W * W)))
  BY <1>1, <1>2, <1>5, AboveCarries, ValueIsAbove
<1>7. W * (W * (W * W)) = Two256
  BY WordFacts DEF Two256
<1>8. Above(d[0], x1) = Value(d) + Two256 * c
  <2>1. Carries(Above(d[0], x1), 0, Value(d), c, Two256)
    BY <1>6, <1>7
  <2>2. QED  BY <2>1 DEF Carries
<1>9. Value(Four(d[1], d[2], d[3], c)) = x1
  BY FourFacts, ValueIsAbove DEF x1, x2, x3
<1>10. QED  BY <1>8, <1>9 DEF Above

\* The loop keeps the number: what leaves the limbs is in the carry.
LEMMA ChainFacts ==
  ASSUME NEW f, f[0] \in Term, f[1] \in Term, f[2] \in Term, f[3] \in Term
  PROVE  LET sum == Chain(f, 0)
         IN  /\ sum.d \in Limbs4 /\ sum.carry \in Limb
             /\ Value(f) = Value(sum.d) + Two256 * sum.carry
<1> DEFINE acc0 == Wide(f[0] + 0)
           acc1 == Wide(f[1] + High(acc0))
           acc2 == Wide(f[2] + High(acc1))
           acc3 == Wide(f[3] + High(acc2))
           d == Four(Low(acc0), Low(acc1), Low(acc2), Low(acc3))
<1>1. ASSUME NEW x \in Term, NEW h \in Limb
      PROVE  LET acc == Wide(x + h)
             IN  /\ Low(acc) \in Limb /\ High(acc) \in Limb
                 /\ Carries(x, h, Low(acc), High(acc), Word)
  <2>1. x + h \in Nat /\ x + h < Word * Word /\ x \in Int /\ h \in Int
    BY WordFacts DEF Term, Limb
  <2> DEFINE y == x + h
  <2>2. y \in Nat /\ y < Word * Word
    BY <2>1
  <2> HIDE DEF y
  <2>3. Wide(y) = y /\ Low(y) \in Limb /\ High(y) \in Limb /\ y = Word * High(y) + Low(y)
    BY <2>2, AccFacts
  <2>4. x + h = Low(y) + Word * High(y) /\ Word \in Int /\ Low(y) \in Int /\ High(y) \in Int
    BY <2>3, LimbInt, WordFacts DEF y
  <2>5. Carries(x, h, Low(y), High(y), Word)
    BY <2>1, <2>4 DEF Carries
  <2>6. QED  BY <2>3, <2>5 DEF y
<1>2. 0 \in Limb
  BY WordFacts DEF Limb
<1>3. Low(acc0) \in Limb /\ High(acc0) \in Limb /\ Carries(f[0], 0, Low(acc0), High(acc0), Word)
  BY <1>1, <1>2
<1> HIDE DEF acc0
<1>4. /\ Low(acc1) \in Limb /\ High(acc1) \in Limb
      /\ Carries(f[1], High(acc0), Low(acc1), High(acc1), Word)
  BY <1>1, <1>3
<1> HIDE DEF acc1
<1>5. /\ Low(acc2) \in Limb /\ High(acc2) \in Limb
      /\ Carries(f[2], High(acc1), Low(acc2), High(acc2), Word)
  BY <1>1, <1>4
<1> HIDE DEF acc2
<1>6. /\ Low(acc3) \in Limb /\ High(acc3) \in Limb
      /\ Carries(f[3], High(acc2), Low(acc3), High(acc3), Word)
  BY <1>1, <1>5
<1> HIDE DEF acc3
<1>7. Chain(f, 0) = [d |-> d, carry |-> High(acc3)]
  BY DEF Chain, acc0, acc1, acc2, acc3
<1>8. /\ d[0] = Low(acc0) /\ d[1] = Low(acc1) /\ d[2] = Low(acc2) /\ d[3] = Low(acc3)
      /\ d \in Limbs4
  BY <1>3, <1>4, <1>5, <1>6, FourFacts DEF Limbs4
<1> HIDE DEF d
<1>9. Value(f) = Value(d) + Two256 * High(acc3)
  <2>1. /\ Carries(f[0], 0, d[0], High(acc0), Word)
        /\ Carries(f[1], High(acc0), d[1], High(acc1), Word)
        /\ Carries(f[2], High(acc1), d[2], High(acc2), Word)
        /\ Carries(f[3], High(acc2), d[3], High(acc3), Word)
    BY <1>3, <1>4, <1>5, <1>6, <1>8
  <2>2. Carries(Value(f), 0, Value(d), High(acc3), Two256)
    BY ONLY <2>1, ValueCarries, Zenon
  <2>3. QED  BY <2>2 DEF Carries
<1>10. QED  BY <1>6, <1>7, <1>8, <1>9

-----------------------------------------------------------------------------
(* Loops over limbs *)

LEMMA ValueBounds ==
  ASSUME NEW x \in Limbs4
  PROVE  /\ Value(x) \in 0..Two256 - 1
         /\ x[3] <= Word - 1 /\ x[0] + Word * (x[1] + Word * x[2]) < Word * Word * Word
<1> DEFINE w == Word
           w2 == w * w
           w3 == w * w2
<1>1. /\ w \in Nat \ {0}
      /\ \A j \in 0..3 : x[j] \in Nat /\ x[j] <= w - 1
  BY WordFacts, LimbInt DEF Limbs4
<1>2. Word * Word * Word = w3 /\ Two256 = w * w3 /\ w2 \in Nat /\ w3 \in Nat
  BY <1>1, WordFacts DEF Two256
<1>3. ASSUME NEW a \in Nat, NEW b \in Nat, NEW m \in Nat, a <= w - 1, b <= m - 1
      PROVE  a + w * b \in Nat /\ a + w * b <= w * m - 1
  <2>1. w * b <= w * (m - 1) /\ w * (m - 1) = w * m - w * 1
    BY <1>1, <1>3, Distribute
  <2>2. w * b \in Nat /\ w * m \in Nat
    BY <1>1, <1>3
  <2>3. QED  BY <1>1, <1>3, <2>1, <2>2
<1> DEFINE y3 == x[2] + w * x[3]
           y2 == x[1] + w * y3
           z2 == x[1] + w * x[2]
<1>4. y3 \in Nat /\ y3 <= w2 - 1
  BY <1>1, <1>3
<1>5. z2 \in Nat /\ z2 <= w2 - 1
  BY <1>1, <1>3
<1> HIDE DEF y3, z2, w2
<1>6. y2 \in Nat /\ y2 <= w3 - 1
  BY <1>1, <1>2, <1>3, <1>4
<1>7. x[0] + w * z2 <= w3 - 1
  BY <1>1, <1>2, <1>3, <1>5
<1> HIDE DEF y2, w3
<1>8. x[0] + w * y2 \in Nat /\ x[0] + w * y2 <= w * w3 - 1
  BY <1>1, <1>2, <1>3, <1>6
<1>9. Value(x) = x[0] + w * y2
  BY DEF Value, y2, y3
<1>10. x[0] + Word * (x[1] + Word * x[2]) <= w3 - 1 /\ x[0] + Word * (x[1] + Word * x[2]) \in Int
  BY <1>1, <1>5, <1>7 DEF z2
<1>11. QED  BY <1>1, <1>2, <1>8, <1>9, <1>10

\* f is h times x, plus y.
MulAdd(h, f, x, y) ==
  h \in Int /\ f \in Int /\ x \in Int /\ y \in Int /\ f = h * x + y

LEMMA AboveMulAdd ==
  ASSUME NEW h, NEW c, NEW a, NEW b, NEW f, NEW x, NEW y,
         MulAdd(h, c, a, b), MulAdd(h, f, x, y)
  PROVE  MulAdd(h, Above(c, f), Above(a, x), Above(b, y))
<1>0. Word \in Int
  BY WordFacts
<1>1. /\ h \in Int /\ a \in Int /\ b \in Int /\ x \in Int /\ y \in Int
      /\ c = h * a + b /\ f = h * x + y
  BY DEF MulAdd
<1>2. Word * (h * x + y) = Word * (h * x) + Word * y
  BY <1>0, <1>1, Distribute
<1>3. h * (a + Word * x) = h * a + h * (Word * x)
  BY <1>0, <1>1, Distribute
<1>4. Word * (h * x) = h * (Word * x)
  BY <1>0, <1>1
<1>5. h * a \in Int /\ Word * x \in Int /\ Word * y \in Int /\ h * (Word * x) \in Int
  BY <1>0, <1>1
<1>6. QED  BY <1>1, <1>2, <1>3, <1>4, <1>5 DEF Above, MulAdd

\* Multiplying and adding limb by limb multiplies and adds the numbers.
LEMMA ValueMulAdd ==
  ASSUME NEW h, NEW f, NEW x, NEW y, \A j \in 0..3 : MulAdd(h, f[j], x[j], y[j])
  PROVE  MulAdd(h, Value(f), Value(x), Value(y))
<1>2. /\ MulAdd(h, f[0], x[0], y[0]) /\ MulAdd(h, f[1], x[1], y[1])
      /\ MulAdd(h, f[2], x[2], y[2]) /\ MulAdd(h, f[3], x[3], y[3])
  OBVIOUS
<1>3. MulAdd(h, Above(f[2], f[3]), Above(x[2], x[3]), Above(y[2], y[3]))
  BY <1>2, AboveMulAdd
<1>4. MulAdd(h, Above(f[1], Above(f[2], f[3])), Above(x[1], Above(x[2], x[3])),
             Above(y[1], Above(y[2], y[3])))
  BY <1>2, <1>3, AboveMulAdd
<1>5. QED  BY <1>2, <1>4, AboveMulAdd, ValueIsAbove

\* A loop that multiplies by a limb, adds and carries.
LEMMA MulAddFacts ==
  ASSUME NEW h \in Limb, NEW x \in Limbs4, NEW y \in Limbs4, NEW f,
         \A j \in 0..3 : f[j] = h * x[j] + y[j]
  PROVE  LET sum == Chain(f, 0)
         IN  /\ sum.d \in Limbs4 /\ sum.carry \in Limb
             /\ h * Value(x) + Value(y) = Value(sum.d) + Two256 * sum.carry
<1>1. ASSUME NEW a \in Limb, NEW b \in Limb, NEW c \in Limb PROVE a * b + c \in Term
  <2> DEFINE w == Word
  <2>1. w \in Nat \ {0} /\ a \in 0..w - 1 /\ b \in 0..w - 1 /\ c \in 0..w - 1
    BY WordFacts, LimbInt
  <2>2. a * b <= (w - 1) * (w - 1) /\ a * b \in Nat
    BY <2>1
  <2>3. (w - 1) * (w - 1) = (w * w - w) - (w - 1) /\ w * w \in Int
    BY <2>1
  <2>4. QED  BY <2>1, <2>2, <2>3 DEF Term
<1>2. \A j \in 0..3 : f[j] \in Term
  BY <1>1 DEF Limbs4
<1>3. Value(f) = h * Value(x) + Value(y)
  <2>1. ASSUME NEW j \in 0..3 PROVE MulAdd(h, f[j], x[j], y[j])
    BY LimbInt DEF Limbs4, MulAdd
  <2>2. QED  BY <2>1, ValueMulAdd DEF MulAdd
<1>4. QED  BY <1>2, <1>3, ChainFacts

\* What % makes of a number that is less than a modulus below zero.
LEMMA WrapsOnce ==
  ASSUME NEW m \in Nat \ {0}, NEW a \in Int, NEW s \in 0..m - 1, a = m * (-1) + s
  PROVE  a % m = s
OBVIOUS

\* A difference that wrapped below zero shows it in its top bit.
LEMMA BorrowFacts ==
  ASSUME NEW x \in Int, -Word <= x, x < Word
  PROVE  LET acc == Wide(x)
         IN  /\ Low(acc) \in Limb /\ Borrow(acc) \in {0, 1}
             /\ x = Low(acc) - Word * Borrow(acc)
<1> DEFINE w == Word
           w2 == w * w
<1>1. w \in Nat \ {0} /\ w > 3 /\ w2 \in Nat \ {0} /\ w2 >= 4 * w /\ w2 = w * w
  BY WordFacts
<1>2. CASE x >= 0
  <2>1. x \in Nat /\ x < w2
    BY <1>1, <1>2
  <2>2. Wide(x) = x /\ Low(x) \in Limb /\ x % w = x
    <3>1. x = w * 0 + x /\ x \in 0..w - 1
      BY <1>1, <1>2
    <3>2. QED  BY <1>1, <2>1, <3>1, AccFacts, DivModUnique
  <2>3. (2 * x) \div w2 = 0
    <3>1. 2 * x = w2 * 0 + 2 * x /\ 2 * x \in 0..w2 - 1
      BY <1>1, <1>2
    <3>2. QED  BY <1>1, <3>1, DivModUnique
  <2>4. QED  BY <1>1, <2>2, <2>3 DEF Low, Borrow
<1>3. CASE x < 0
  <2> DEFINE y == w2 + x
  <2>1. y \in Nat /\ y < w2
    BY <1>1, <1>3
  <2>2. Wide(x) = y
    <3>1. y \in 0..w2 - 1 /\ x = w2 * (-1) + y
      BY <1>1, <2>1
    <3>2. w2 \in Nat \ {0}
      BY <1>1
    <3> HIDE DEF y, w2
    <3>3. x % w2 = y
      BY ONLY <3>1, <3>2, x \in Int, WrapsOnce
    <3>4. QED  BY <3>3 DEF Wide, w2
  <2>3. y % w = x + w
    <3>1. w * (w - 1) = w * w - w * 1 /\ x + w \in 0..w - 1
      BY <1>1, <1>3, Distribute
    <3>2. y = w * (w - 1) + (x + w) /\ w - 1 \in Int
      BY <1>1, <3>1
    <3>3. w \in Nat \ {0} /\ y \in Nat
      BY <1>1, <2>1
    <3> HIDE DEF y, w
    <3>4. QED  BY ONLY <3>1, <3>2, <3>3, DivModUnique
  <2>4. (2 * y) \div w2 = 1
    <3>1. 2 * y = w2 * 1 + (w2 + 2 * x) /\ w2 + 2 * x \in 0..w2 - 1 /\ 2 * y \in Nat
      BY <1>1, <1>3
    <3>2. QED  BY <1>1, <3>1, DivModUnique
  <2>5. x + w \in Limb
    BY <1>1, <1>3 DEF Limb
  <2>6. QED  BY <1>1, <2>2, <2>3, <2>4, <2>5 DEF Low, Borrow
<1>4. QED  BY <1>2, <1>3

\* The subtraction borrows exactly when it must, and keeps the number modulo 2^256.
LEMMA SubFacts ==
  ASSUME NEW a \in Limbs4, NEW b \in Limbs4
  PROVE  LET diff == uint256_sub(a, b)
         IN  /\ diff.d \in Limbs4
             /\ diff.borrow = IF Value(a) < Value(b) THEN 1 ELSE 0
             /\ Value(diff.d) = IF Value(a) < Value(b)
                                THEN (Value(a) - Value(b)) + Two256 ELSE Value(a) - Value(b)
<1> DEFINE acc0 == Wide(a[0] - b[0])
           acc1 == Wide(a[1] - b[1] - Borrow(acc0))
           acc2 == Wide(a[2] - b[2] - Borrow(acc1))
           acc3 == Wide(a[3] - b[3] - Borrow(acc2))
           d == Four(Low(acc0), Low(acc1), Low(acc2), Low(acc3))
           f == [j \in 0..3 |-> a[j] - b[j]]
           w == Borrow(acc3)
<1>1. ASSUME NEW x \in Limb, NEW y \in Limb, NEW g \in {0, 1}
      PROVE  LET acc == Wide(x - y - g)
             IN  /\ Low(acc) \in Limb /\ Borrow(acc) \in {0, 1}
                 /\ Carries(x - y, 0 - g, Low(acc), 0 - Borrow(acc), Word)
  <2> DEFINE z == x - y - g
  <2>1. z \in Int /\ -Word <= z /\ z < Word /\ x \in Int /\ y \in Int /\ Word \in Int
    BY LimbInt, WordFacts
  <2>2. z = (x - y) + (0 - g)
    BY <2>1
  <2> HIDE DEF z
  <2>3. /\ Low(Wide(z)) \in Limb /\ Borrow(Wide(z)) \in {0, 1}
        /\ z = Low(Wide(z)) - Word * Borrow(Wide(z))
    BY <2>1, BorrowFacts
  <2>4. Low(Wide(z)) \in Int
    BY <2>3, LimbInt
  <2> DEFINE l == Low(Wide(z))
             v == Borrow(Wide(z))
  <2> HIDE DEF l, v
  <2>5. (x - y) + (0 - g) = l + Word * (0 - v) /\ 0 - v \in Int /\ l \in Int
    BY <2>1, <2>2, <2>3, <2>4 DEF l, v
  <2>6. Carries(x - y, 0 - g, l, 0 - v, Word)
    BY <2>1, <2>5 DEF Carries
  <2>7. QED  BY <2>3, <2>6 DEF l, v, z
<1>2. \A j \in 0..3 : a[j] \in Limb /\ b[j] \in Limb
  BY DEF Limbs4
<1>3. /\ Low(acc0) \in Limb /\ Borrow(acc0) \in {0, 1}
      /\ Carries(a[0] - b[0], 0, Low(acc0), 0 - Borrow(acc0), Word)
  <2>0. a[0] \in Int /\ b[0] \in Int
    BY <1>2, LimbInt
  <2>1. a[0] - b[0] - 0 = a[0] - b[0]
    BY <2>0
  <2>a. 0 - 0 = 0
    OBVIOUS
  <2>2. /\ Low(Wide(a[0] - b[0] - 0)) \in Limb /\ Borrow(Wide(a[0] - b[0] - 0)) \in {0, 1}
        /\ Carries(a[0] - b[0], 0 - 0, Low(Wide(a[0] - b[0] - 0)),
                   0 - Borrow(Wide(a[0] - b[0] - 0)), Word)
    BY <1>1, <1>2
  <2>3. QED  BY <2>1, <2>a, <2>2
<1> HIDE DEF acc0
<1>4. /\ Low(acc1) \in Limb /\ Borrow(acc1) \in {0, 1}
      /\ Carries(a[1] - b[1], 0 - Borrow(acc0), Low(acc1), 0 - Borrow(acc1), Word)
  BY <1>1, <1>2, <1>3
<1> HIDE DEF acc1
<1>5. /\ Low(acc2) \in Limb /\ Borrow(acc2) \in {0, 1}
      /\ Carries(a[2] - b[2], 0 - Borrow(acc1), Low(acc2), 0 - Borrow(acc2), Word)
  BY <1>1, <1>2, <1>4
<1> HIDE DEF acc2
<1>6. /\ Low(acc3) \in Limb /\ Borrow(acc3) \in {0, 1}
      /\ Carries(a[3] - b[3], 0 - Borrow(acc2), Low(acc3), 0 - Borrow(acc3), Word)
  BY <1>1, <1>2, <1>5
<1> HIDE DEF acc3
<1>7. uint256_sub(a, b) = [d |-> d, borrow |-> Borrow(acc3)]
  BY DEF uint256_sub, acc0, acc1, acc2, acc3
<1>8. /\ d[0] = Low(acc0) /\ d[1] = Low(acc1) /\ d[2] = Low(acc2) /\ d[3] = Low(acc3)
      /\ d \in Limbs4
  BY <1>3, <1>4, <1>5, <1>6, FourFacts DEF Limbs4
<1>9. /\ f[0] = a[0] - b[0] /\ f[1] = a[1] - b[1]
      /\ f[2] = a[2] - b[2] /\ f[3] = a[3] - b[3]
  OBVIOUS
<1>10. MulAdd(-1, Value(f), Value(b), Value(a))
  <2>1. ASSUME NEW j \in 0..3 PROVE MulAdd(-1, f[j], b[j], a[j])
    <3>1. a[j] \in Int /\ b[j] \in Int /\ f[j] = a[j] - b[j]
      BY <1>2, LimbInt
    <3>2. QED  BY <3>1 DEF MulAdd
  <2>2. QED  BY <2>1, ValueMulAdd
<1> HIDE DEF d, f
<1>11. Carries(Value(f), 0, Value(d), 0 - Borrow(acc3), Two256)
  <2>1. /\ Carries(f[0], 0, d[0], 0 - Borrow(acc0), Word)
        /\ Carries(f[1], 0 - Borrow(acc0), d[1], 0 - Borrow(acc1), Word)
        /\ Carries(f[2], 0 - Borrow(acc1), d[2], 0 - Borrow(acc2), Word)
        /\ Carries(f[3], 0 - Borrow(acc2), d[3], 0 - Borrow(acc3), Word)
    BY <1>3, <1>4, <1>5, <1>6, <1>8, <1>9
  <2>2. QED  BY ONLY <2>1, ValueCarries, Zenon
<1> HIDE DEF w
<1>12. /\ Value(a) - Value(b) = Value(d) - Two256 * w
       /\ Value(a) \in Int /\ Value(b) \in Int /\ Value(d) \in Int
  <2>1. /\ Value(f) = (-1) * Value(b) + Value(a)
        /\ Value(a) \in Int /\ Value(b) \in Int /\ Value(d) \in Int
        /\ Value(f) + 0 = Value(d) + Two256 * (0 - Borrow(acc3))
    BY <1>10, <1>11 DEF MulAdd, Carries
  <2>2. w \in {0, 1} /\ Two256 \in Int /\ w = Borrow(acc3)
    BY <1>6, WordFacts DEF w
  <2>3. QED  BY <2>1, <2>2
<1>13. Value(a) \in 0..Two256 - 1 /\ Value(b) \in 0..Two256 - 1 /\ Value(d) \in 0..Two256 - 1
  BY <1>8, ValueBounds
<1>14. w \in {0, 1} /\ Two256 \in Nat
  BY <1>6, WordFacts DEF w
<1>15. CASE w = 0
  BY <1>7, <1>8, <1>12, <1>13, <1>14, <1>15 DEF w
<1>16. CASE w = 1
  BY <1>7, <1>8, <1>12, <1>13, <1>14, <1>16 DEF w
<1>17. QED  BY <1>14, <1>15, <1>16

\* A number below 2^256 is what its limbs stand for.
LEMMA FromIntFacts ==
  ASSUME NEW v \in 0..Two256 - 1
  PROVE  FromInt(v) \in Limbs4 /\ Value(FromInt(v)) = v
<1> DEFINE q1 == v \div Word
           q2 == q1 \div Word
           q3 == q2 \div Word
           q4 == q3 \div Word
           d == FromInt(v)
<1>1. ASSUME NEW x \in Nat
      PROVE  /\ x \div Word \in Nat /\ x % Word \in Limb
             /\ Carries((x % Word) + Word * (x \div Word), 0, x % Word, x \div Word, Word)
             /\ x = (x % Word) + Word * (x \div Word)
  <2>1. PICK q \in Nat, m \in 0..Word - 1 : x = Word * q + m /\ x \div Word = q /\ x % Word = m
    BY WordFacts, DivMod
  <2>2. QED  BY <2>1, WordFacts DEF Limb, Carries
<1>2. v \in Nat
  BY WordFacts
<1>3. q1 \in Nat /\ v % Word \in Limb /\ v = Above(v % Word, q1)
  BY <1>1, <1>2 DEF Above
<1> HIDE DEF q1
<1>4. q2 \in Nat /\ q1 % Word \in Limb /\ q1 = Above(q1 % Word, q2)
  BY <1>1, <1>3 DEF Above
<1> HIDE DEF q2
<1>5. q3 \in Nat /\ q2 % Word \in Limb /\ q2 = Above(q2 % Word, q3)
  BY <1>1, <1>4 DEF Above
<1> HIDE DEF q3
<1>6. q4 \in Nat /\ q3 % Word \in Limb /\ q3 = Above(q3 % Word, q4)
  BY <1>1, <1>5 DEF Above
<1> HIDE DEF q4
<1>7. d = Four(v % Word, q1 % Word, q2 % Word, q3 % Word)
  BY DEF FromInt, q1, q2, q3
<1>8. /\ d[0] = v % Word /\ d[1] = q1 % Word /\ d[2] = q2 % Word /\ d[3] = q3 % Word
      /\ d \in Limbs4
  BY <1>3, <1>4, <1>5, <1>6, <1>7, FourFacts DEF Limbs4
<1> HIDE DEF d
<1>9. /\ \A x \in Int : Carries(x, 0, x, 0, Word)
      /\ Carries(q3, 0, d[3], q4, Word)
  BY <1>1, <1>5, <1>6, <1>8, LimbInt, WordFacts DEF Carries, Above
<1>10. Carries(Above(d[0], Above(d[1], Above(d[2], q3))), 0, Value(d), q4, Two256)
  <2>1. d[0] \in Int /\ d[1] \in Int /\ d[2] \in Int
    BY <1>8, LimbInt DEF Limbs4
  <2>2. Carries(Above(d[2], q3), 0, Above(d[2], d[3]), q4, Word * Word)
    BY <1>9, <2>1, AboveCarries
  <2>3. Carries(Above(d[1], Above(d[2], q3)), 0, Above(d[1], Above(d[2], d[3])), q4,
                Word * (Word * Word))
    BY <1>9, <2>1, <2>2, AboveCarries
  <2>4. Word * (Word * (Word * Word)) = Two256
    BY WordFacts DEF Two256
  <2>5. Carries(Above(d[0], Above(d[1], Above(d[2], q3))), 0, Value(d), q4,
                Word * (Word * (Word * Word)))
    BY <1>9, <2>1, <2>3, AboveCarries, ValueIsAbove
  <2>6. QED  BY <2>4, <2>5
<1>11. v = Value(d) + Two256 * q4
  <2>1. v = Above(d[0], Above(d[1], Above(d[2], q3)))
    BY <1>3, <1>4, <1>5, <1>8
  <2>2. QED  BY <2>1, <1>10 DEF Carries
<1>12. q4 = 0
  <2>1. Value(d) \in Nat /\ Two256 \in Nat
    BY <1>8, ValueBounds, WordFacts
  <2>2. SUFFICES ASSUME q4 >= 1 PROVE FALSE
    BY <1>6
  <2>3. Two256 * q4 >= Two256
    BY <1>6, <2>1, <2>2
  <2>4. QED  BY <1>2, <1>6, <1>11, <2>1, <2>3
<1>13. QED  BY <1>2, <1>8, <1>11, <1>12, ValueBounds, WordFacts DEF d

-----------------------------------------------------------------------------
(* Loops of loops: one turn for each limb of a multiplier *)

\* h times x and what is there make the limbs that are left behind and, of
\* weight m, those that the next turn adds to.
Turns(x, h, window, left, next, m) ==
  /\ x \in Int /\ h \in Int /\ window \in Int /\ left \in Int /\ next \in Int /\ m \in Int
  /\ h * x + window = left + m * next

LEMMA AboveTurns ==
  ASSUME NEW x, NEW h, NEW v, NEW d, NEW n, NEW hs, NEW ds, NEW ns, NEW m,
         Turns(x, h, v, d, n, Word), Turns(x, hs, n, ds, ns, m)
  PROVE  Turns(x, Above(h, hs), v, Above(d, ds), ns, Word * m)
<1>1. /\ x \in Int /\ h \in Int /\ v \in Int /\ d \in Int /\ n \in Int
      /\ hs \in Int /\ ds \in Int /\ ns \in Int /\ m \in Int /\ Word \in Int
      /\ h * x + v = d + Word * n /\ hs * x + n = ds + m * ns
  BY DEF Turns
<1>2. Word * (hs * x + n) = Word * (hs * x) + Word * n
  BY <1>1, Distribute
<1>3. Word * (ds + m * ns) = Word * ds + Word * (m * ns)
  BY <1>1, Distribute
<1>4. Word * (m * ns) = (Word * m) * ns
  BY <1>1
<1>5. (h + Word * hs) * x = h * x + Word * (hs * x)
  <2>1. x * (h + Word * hs) = x * h + x * (Word * hs)
    BY <1>1, Distribute
  <2>2. x * (Word * hs) = Word * (hs * x)
    BY <1>1
  <2>3. Word * hs \in Int
    BY <1>1
  <2>4. x * (h + Word * hs) = (h + Word * hs) * x /\ x * h = h * x
    BY <1>1, <2>3, Distribute
  <2>5. QED  BY <2>1, <2>2, <2>4
<1>6. /\ h * x \in Int /\ Word * (hs * x) \in Int /\ Word * n \in Int /\ Word * ds \in Int
      /\ (Word * m) * ns \in Int /\ Word * m \in Int /\ Word * hs \in Int
  BY <1>1
<1>7. QED  BY <1>1, <1>2, <1>3, <1>4, <1>5, <1>6 DEF Above, Turns

\* Four turns.
LEMMA ValueTurns ==
  ASSUME NEW x, NEW h, NEW d, NEW v0, NEW v1, NEW v2, NEW v3, NEW v4,
         Turns(x, h[0], v0, d[0], v1, Word), Turns(x, h[1], v1, d[1], v2, Word),
         Turns(x, h[2], v2, d[2], v3, Word), Turns(x, h[3], v3, d[3], v4, Word)
  PROVE  Turns(x, Value(h), v0, Value(d), v4, Two256)
<1>1. Turns(x, Above(h[2], h[3]), v2, Above(d[2], d[3]), v4, Word * Word)
  BY AboveTurns
<1>2. Turns(x, Above(h[1], Above(h[2], h[3])), v1, Above(d[1], Above(d[2], d[3])), v4,
            Word * (Word * Word))
  BY <1>1, AboveTurns
<1>3. Turns(x, Value(h), v0, Value(d), v4, Word * (Word * (Word * Word)))
  BY <1>2, AboveTurns, ValueIsAbove
<1>4. Word * (Word * (Word * Word)) = Two256
  BY WordFacts DEF Two256
<1>5. QED  BY <1>3, <1>4

\* The four limbs that turn i adds to.
Window(s, i) == Four(s[i], s[i + 1], s[i + 2], s[i + 3])

\* What turn i leaves alone, and what it has not reached yet.
Turned(s, next, i) ==
  /\ next \in Limbs8
  /\ \A n \in 0..i - 1 : next[n] = s[n]
  /\ \A n \in i + 5..7 : next[n] = 0

CNLimbs == Four(CN_LO, CN_MID, 1, 0)

LEMMA CNFacts ==
  /\ CNLimbs \in Limbs4 /\ Value(CNLimbs) = C_N
  /\ C_N \in Nat /\ C_N < Word * Word * Word
<1>1. CN_LO \in Nat /\ CN_LO <= Word - 1 /\ CN_MID \in Nat /\ CN_MID <= Word - 1
  BY LimbsAssumption, LimbInt
<1>2. CNLimbs \in Limbs4
  <2>1. {CN_LO, CN_MID, 1, 0} \subseteq Limb
    BY LimbsAssumption, WordFacts DEF Limb
  <2>2. QED  BY <2>1, FourFacts DEF CNLimbs, Limbs4
<1> DEFINE w == Word
<1>3. w \in Nat /\ w > 3
  BY WordFacts
<1>4. Value(CNLimbs) = CN_LO + w * (CN_MID + w * (1 + w * 0))
  BY FourFacts DEF Value, CNLimbs
<1>5. w * (CN_MID + w * (1 + w * 0)) = w * CN_MID + w * w
  <2>1. 1 + w * 0 = 1 /\ w * 1 = w
    BY <1>3
  <2>2. w * (CN_MID + w) = w * CN_MID + w * w
    BY <1>1, <1>3, Distribute
  <2>3. QED  BY <2>1, <2>2
<1>6. w * CN_MID <= w * w - w /\ w * CN_MID \in Nat /\ w * w \in Nat
  <2>1. w * CN_MID <= w * (w - 1) /\ w * (w - 1) = w * w - w * 1
    BY <1>1, <1>3, Distribute
  <2>2. QED  BY <1>1, <1>3, <2>1
<1>7. w * w * w >= 4 * (w * w)
  BY <1>3, <1>6
<1>8. w * w >= 4 * w
  BY <1>3
<1>9. w * w * w \in Nat
  BY <1>3
<1>10. QED
  BY <1>1, <1>2, <1>3, <1>4, <1>5, <1>6, <1>7, <1>8, <1>9 DEF C_N

\* One turn of the two loops of scalar_reduce_limbs, where the limb above the
\* window is still empty: only the last one has nowhere to put its carry.
LEMMA FoldLimbFacts ==
  ASSUME NEW s \in Limbs8, NEW h \in Limb, NEW i \in 0..3,
         \A n \in i + 4..7 : s[n] = 0
  PROVE  LET next == FoldLimb(s, h, i)
         IN  /\ Turned(s, next, i)
             /\ i < 3 => Turns(C_N, h, Value(Window(s, i)), next[i],
                               Value(Window(next, i + 1)), Word)
             /\ i = 3 => /\ next[7] = 0
                         /\ \E c \in Limb :
                              Turns(C_N, h, Value(Window(s, 3)), next[3],
                                    Value(Four(next[4], next[5], next[6], c)), Word)
<1> DEFINE f == Four(h * CN_LO + s[i], h * CN_MID + s[i + 1], h + s[i + 2], s[i + 3])
           y == Window(s, i)
           sum == Chain(f, 0)
           d == sum.d
           c == sum.carry
           next == FoldLimb(s, h, i)
<1>1. /\ s[i] \in Limb /\ s[i + 1] \in Limb /\ s[i + 2] \in Limb /\ s[i + 3] \in Limb
  BY DEF Limbs8
<1>2. y \in Limbs4
  BY <1>1, FourFacts DEF Window, Limbs4
<1>3. \A j \in 0..3 : f[j] = h * CNLimbs[j] + y[j]
  <2>1. h * 1 = h /\ h * 0 = 0 /\ h \in Int /\ s[i + 3] \in Int
    BY <1>1, LimbInt
  <2>2. f[3] = h * 0 + s[i + 3]
    BY <2>1, FourFacts
  <2>3. f[2] = h * 1 + s[i + 2] /\ f[1] = h * CN_MID + s[i + 1] /\ f[0] = h * CN_LO + s[i]
    BY <2>1, FourFacts
  <2>4. \A j \in 0..3 : j = 0 \/ j = 1 \/ j = 2 \/ j = 3
    OBVIOUS
  <2>5. QED  BY <2>2, <2>3, <2>4, FourFacts DEF CNLimbs, Window
<1> HIDE DEF f, y
<1>4. /\ d \in Limbs4 /\ c \in Limb
      /\ h * C_N + Value(y) = Value(d) + Two256 * c
  BY <1>2, <1>3, CNFacts, MulAddFacts
<1>5. Value(d) + Two256 * c = d[0] + Word * Value(Four(d[1], d[2], d[3], c))
  BY <1>4, WindowFacts
<1>6. /\ h \in Int /\ C_N \in Int /\ Value(y) \in Int /\ d[0] \in Int /\ Word \in Int
  BY <1>2, <1>4, CNFacts, ValueBounds, LimbInt, WordFacts DEF Limbs4
<1>7. Value(Four(d[1], d[2], d[3], c)) \in Int
  <2>1. Four(d[1], d[2], d[3], c) \in Limbs4
    BY <1>4, FourFacts DEF Limbs4
  <2>2. QED  BY <2>1, ValueBounds
<1>8. Turns(C_N, h, Value(y), d[0], Value(Four(d[1], d[2], d[3], c)), Word)
  BY <1>4, <1>5, <1>6, <1>7 DEF Turns
<1>9. next = [n \in 0..7 |-> CASE n \in i..i + 3 -> d[n - i]
                               [] n = i + 4 /\ i < 3 -> Low(s[n] + c)
                               [] OTHER -> s[n]]
  BY DEF FoldLimb, f
<1> HIDE DEF d, c, next
<1>10. /\ next[i] = d[0] /\ next[i + 1] = d[1] /\ next[i + 2] = d[2] /\ next[i + 3] = d[3]
  <2>1. \A n \in i..i + 3 : next[n] = d[n - i]
    BY <1>9
  <2>2. i - i = 0 /\ i + 1 - i = 1 /\ i + 2 - i = 2 /\ i + 3 - i = 3
    OBVIOUS
  <2>3. /\ i \in i..i + 3 /\ i + 1 \in i..i + 3 /\ i + 2 \in i..i + 3
        /\ i + 3 \in i..i + 3
    OBVIOUS
  <2>4. /\ next[i] = d[i - i] /\ next[i + 1] = d[i + 1 - i]
        /\ next[i + 2] = d[i + 2 - i] /\ next[i + 3] = d[i + 3 - i]
    BY <2>1, <2>3
  <2>5. QED  BY <2>2, <2>4
<1>11. i < 3 => next[i + 4] = c
  <2>1. SUFFICES ASSUME i < 3 PROVE next[i + 4] = c
    OBVIOUS
  <2>2. s[i + 4] + c = c /\ c \in Nat /\ c < Word * Word
    <3>0. i + 4 \in i + 4..7
      BY <2>1
    <3>1. s[i + 4] = 0 /\ c \in Nat /\ c < Word
      BY <1>4, <3>0, LimbInt, WordFacts
    <3>2. QED  BY <3>1, WordFacts
  <2>3. Low(c) = c
    <3>1. c = Word * 0 + c /\ c \in 0..Word - 1
      BY <1>4, <2>2, LimbInt, WordFacts
    <3>2. QED  BY <2>2, <3>1, DivModUnique, WordFacts DEF Low
  <2>4. next[i + 4] = Low(s[i + 4] + c)
    BY <1>9, <2>1
  <2>5. QED  BY <2>2, <2>3, <2>4
<1>12. /\ \A n \in 0..i - 1 : next[n] = s[n]
       /\ \A n \in i + 5..7 : next[n] = s[n]
       /\ i = 3 => next[7] = s[7]
  BY <1>9
<1>13. next \in Limbs8
  <2>1. ASSUME NEW n \in 0..7 PROVE next[n] \in Limb
    <3>1. CASE n \in i..i + 3
      <4>1. n = i \/ n = i + 1 \/ n = i + 2 \/ n = i + 3
        BY <3>1
      <4>2. QED  BY <1>4, <1>10, <4>1 DEF Limbs4
    <3>2. CASE n = i + 4 /\ i < 3
      BY <1>4, <1>11, <3>2
    <3>3. CASE n \in 0..i - 1 \/ n \in i + 5..7 \/ (i = 3 /\ n = 7)
      BY <1>12, <3>3 DEF Limbs8
    <3>4. QED  BY <3>1, <3>2, <3>3
  <2>2. next = [n \in 0..7 |-> next[n]]
    BY <1>9
  <2>3. QED  BY <2>1, <2>2 DEF Limbs8
<1>14. Turned(s, next, i)
  BY <1>12, <1>13 DEF Turned
<1>15. i < 3 => Window(next, i + 1) = Four(d[1], d[2], d[3], c)
  <2>1. i + 1 + 1 = i + 2 /\ i + 1 + 2 = i + 3 /\ i + 1 + 3 = i + 4
    OBVIOUS
  <2>2. QED  BY <1>10, <1>11, <2>1 DEF Window
<1>16. i = 3 => /\ next[7] = 0
                /\ Four(next[4], next[5], next[6], c) = Four(d[1], d[2], d[3], c)
  BY <1>10, <1>12
<1>17. QED  BY <1>4, <1>8, <1>10, <1>14, <1>15, <1>16 DEF y, next

\* A limb is its own low part.
LEMMA LowFacts ==
  ASSUME NEW c \in Limb
  PROVE  0 + c = c /\ Low(c) = c /\ High(c) = 0 /\ 0 \in Limb
<1>1. c \in Nat /\ c = Word * 0 + c /\ c \in 0..Word - 1
  BY WordFacts DEF Limb
<1>2. c % Word = c /\ c \div Word = 0
  BY <1>1, DivModUnique, WordFacts
<1>3. QED  BY <1>1, <1>2, WordFacts DEF Low, High, Limb

\* One row of the schoolbook product.
LEMMA RowFacts ==
  ASSUME NEW s \in Limbs8, NEW a \in Limbs4, NEW b \in Limbs4, NEW i \in 0..3,
         \A n \in i + 4..7 : s[n] = 0
  PROVE  LET next == Row(s, a, b, i)
         IN  /\ Turned(s, next, i)
             /\ Turns(Value(b), a[i], Value(Window(s, i)), next[i],
                      Value(Window(next, i + 1)), Word)
<1> DEFINE f == [j \in 0..3 |-> a[i] * b[j] + s[i + j]]
           y == Window(s, i)
           sum == Chain(f, 0)
           d == sum.d
           c == sum.carry
           acc == s[i + 4] + c
           next == Row(s, a, b, i)
<1>1. /\ s[i] \in Limb /\ s[i + 1] \in Limb /\ s[i + 2] \in Limb /\ s[i + 3] \in Limb
      /\ a[i] \in Limb
  BY DEF Limbs8, Limbs4
<1>2. y \in Limbs4
  BY <1>1, FourFacts DEF Window, Limbs4
<1>3. \A j \in 0..3 : f[j] = a[i] * b[j] + y[j]
  <2>1. \A j \in 0..3 : j = 0 \/ j = 1 \/ j = 2 \/ j = 3
    OBVIOUS
  <2>2. i + 0 = i
    OBVIOUS
  <2>3. \A j \in 0..3 : s[i + j] = y[j]
    BY <2>1, <2>2, FourFacts DEF Window
  <2>4. QED  BY <2>3
<1> HIDE DEF f, y
<1>4. /\ d \in Limbs4 /\ c \in Limb
      /\ a[i] * Value(b) + Value(y) = Value(d) + Two256 * c
  BY <1>1, <1>2, <1>3, MulAddFacts
<1>5. Value(d) + Two256 * c = d[0] + Word * Value(Four(d[1], d[2], d[3], c))
  BY <1>4, WindowFacts
<1>6. /\ a[i] \in Int /\ Value(b) \in Int /\ Value(y) \in Int /\ d[0] \in Int /\ Word \in Int
  BY <1>1, <1>2, <1>4, ValueBounds, LimbInt, WordFacts DEF Limbs4
<1>7. Value(Four(d[1], d[2], d[3], c)) \in Int
  <2>1. Four(d[1], d[2], d[3], c) \in Limbs4
    BY <1>4, FourFacts DEF Limbs4
  <2>2. QED  BY <2>1, ValueBounds
<1>8. Turns(Value(b), a[i], Value(y), d[0], Value(Four(d[1], d[2], d[3], c)), Word)
  BY <1>4, <1>5, <1>6, <1>7 DEF Turns
<1>9. next = [n \in 0..7 |-> CASE n \in i..i + 3 -> d[n - i]
                               [] n = i + 4 -> Low(acc)
                               [] n = i + 5 -> Low(s[n] + High(acc))
                               [] OTHER -> s[n]]
  BY DEF Row, f
<1>10. acc = c /\ Low(acc) = c /\ High(acc) = 0
  <2>1. s[i + 4] = 0
    BY <1>1
  <2>2. QED  BY <1>4, <2>1, LowFacts
<1> HIDE DEF d, c, acc, next
<1>11. /\ next[i] = d[0] /\ next[i + 1] = d[1] /\ next[i + 2] = d[2] /\ next[i + 3] = d[3]
  <2>1. \A n \in i..i + 3 : next[n] = d[n - i]
    BY <1>9
  <2>2. i - i = 0 /\ i + 1 - i = 1 /\ i + 2 - i = 2 /\ i + 3 - i = 3
    OBVIOUS
  <2>3. /\ i \in i..i + 3 /\ i + 1 \in i..i + 3 /\ i + 2 \in i..i + 3
        /\ i + 3 \in i..i + 3
    OBVIOUS
  <2>4. /\ next[i] = d[i - i] /\ next[i + 1] = d[i + 1 - i]
        /\ next[i + 2] = d[i + 2 - i] /\ next[i + 3] = d[i + 3 - i]
    BY <2>1, <2>3
  <2>5. QED  BY <2>2, <2>4
<1>12. next[i + 4] = c
  BY <1>9, <1>10
<1>13. /\ \A n \in 0..i - 1 : next[n] = s[n]
       /\ \A n \in i + 5..7 : next[n] = 0
  <2>1. \A n \in 0..i - 1 : next[n] = s[n]
    BY <1>9
  <2>2. ASSUME NEW n \in i + 5..7 PROVE next[n] = 0
    <3>1. s[n] = 0
      OBVIOUS
    <3>2. 0 + 0 = 0 /\ Low(0) = 0
      BY <1>4, LowFacts
    <3>3. CASE n = i + 5
      <4>1. next[n] = Low(s[n] + High(acc))
        BY <1>9, <3>3
      <4>2. QED  BY <1>10, <3>1, <3>2, <4>1
    <3>4. CASE n > i + 5
      BY <1>9, <3>1, <3>4
    <3>5. QED  BY <3>3, <3>4
  <2>3. QED  BY <2>1, <2>2
<1>14. next \in Limbs8
  <2>1. ASSUME NEW n \in 0..7 PROVE next[n] \in Limb
    <3>1. CASE n \in i..i + 3
      <4>1. n = i \/ n = i + 1 \/ n = i + 2 \/ n = i + 3
        BY <3>1
      <4>2. QED  BY <1>4, <1>11, <4>1 DEF Limbs4
    <3>2. CASE n = i + 4
      BY <1>4, <1>12, <3>2
    <3>3. CASE n \in 0..i - 1
      BY <1>13, <3>3 DEF Limbs8
    <3>4. CASE n \in i + 5..7
      BY <1>13, <3>4, LowFacts, <1>4
    <3>5. QED  BY <3>1, <3>2, <3>3, <3>4
  <2>2. next = [n \in 0..7 |-> next[n]]
    BY <1>9
  <2>3. QED  BY <2>1, <2>2 DEF Limbs8
<1>15. Turned(s, next, i)
  BY <1>13, <1>14 DEF Turned
<1>16. Window(next, i + 1) = Four(d[1], d[2], d[3], c)
  <2>1. i + 1 + 1 = i + 2 /\ i + 1 + 2 = i + 3 /\ i + 1 + 3 = i + 4
    OBVIOUS
  <2>2. QED  BY <1>11, <1>12, <2>1 DEF Window
<1>17. QED  BY <1>8, <1>11, <1>15, <1>16 DEF y, next

\* What four turns leave behind stays where it is.
LEMMA FourTurned ==
  ASSUME NEW s0 \in Limbs8, NEW s1, NEW s2, NEW s3, NEW s4,
         Turned(s0, s1, 0), Turned(s1, s2, 1), Turned(s2, s3, 2), Turned(s3, s4, 3)
  PROVE  /\ s1 \in Limbs8 /\ s2 \in Limbs8 /\ s3 \in Limbs8 /\ s4 \in Limbs8
         /\ s1[0] = s4[0] /\ s2[1] = s4[1] /\ s3[2] = s4[2]
<1>1. s1 \in Limbs8 /\ s2 \in Limbs8 /\ s3 \in Limbs8 /\ s4 \in Limbs8
  BY DEF Turned
<1>2. /\ s2[0] = s1[0] /\ s3[0] = s2[0] /\ s4[0] = s3[0]
      /\ s3[1] = s2[1] /\ s4[1] = s3[1] /\ s4[2] = s3[2]
  BY DEF Turned
<1>3. QED  BY <1>1, <1>2

\* The eight limbs of the schoolbook product are the product.
LEMMA ProductFacts ==
  ASSUME NEW a \in Limbs4, NEW b \in Limbs4
  PROVE  Product(a, b) \in Limbs8 /\ Value8(Product(a, b)) = Value(a) * Value(b)
<1> DEFINE p0 == [n \in 0..7 |-> 0]
           p1 == Row(p0, a, b, 0)
           p2 == Row(p1, a, b, 1)
           p3 == Row(p2, a, b, 2)
           p4 == Row(p3, a, b, 3)
           x == Value(b)
<1>1. p0 \in Limbs8 /\ \A n \in 4..7 : p0[n] = 0
  BY WordFacts DEF Limbs8, Limb
<1>2. p4 = Product(a, b)
  BY DEF Product
<1>3. Value(Window(p0, 0)) = 0
  <2>1. Window(p0, 0) = Four(0, 0, 0, 0)
    BY DEF Window
  <2>2. Value(Four(0, 0, 0, 0)) = 0 + Word * (0 + Word * (0 + Word * 0))
    BY FourFacts DEF Value
  <2>3. QED  BY <2>1, <2>2, WordFacts
<1> HIDE DEF p0
<1>4. Turned(p0, p1, 0) /\ Turns(x, a[0], Value(Window(p0, 0)), p1[0], Value(Window(p1, 1)), Word)
  <2>1. \A n \in 0 + 4..7 : p0[n] = 0
    BY <1>1
  <2>2. 0 + 1 = 1 /\ 0 \in 0..3
    OBVIOUS
  <2>3. QED  BY <1>1, <2>1, <2>2, RowFacts
<1> HIDE DEF p1
<1>5. Turned(p1, p2, 1) /\ Turns(x, a[1], Value(Window(p1, 1)), p2[1], Value(Window(p2, 2)), Word)
  <2>1. p1 \in Limbs8 /\ \A n \in 1 + 4..7 : p1[n] = 0
    BY <1>4 DEF Turned
  <2>2. 1 + 1 = 2 /\ 1 \in 0..3
    OBVIOUS
  <2>3. QED  BY <2>1, <2>2, RowFacts
<1> HIDE DEF p2
<1>6. Turned(p2, p3, 2) /\ Turns(x, a[2], Value(Window(p2, 2)), p3[2], Value(Window(p3, 3)), Word)
  <2>1. p2 \in Limbs8 /\ \A n \in 2 + 4..7 : p2[n] = 0
    BY <1>5 DEF Turned
  <2>2. 2 + 1 = 3 /\ 2 \in 0..3
    OBVIOUS
  <2>3. QED  BY <2>1, <2>2, RowFacts
<1> HIDE DEF p3
<1>7. Turned(p3, p4, 3) /\ Turns(x, a[3], Value(Window(p3, 3)), p4[3], Value(Window(p4, 4)), Word)
  <2>1. p3 \in Limbs8 /\ \A n \in 3 + 4..7 : p3[n] = 0
    BY <1>6 DEF Turned
  <2>2. 3 + 1 = 4 /\ 3 \in 0..3
    OBVIOUS
  <2>3. QED  BY <2>1, <2>2, RowFacts
<1> HIDE DEF p4
<1>8. p4 \in Limbs8 /\ p1[0] = p4[0] /\ p2[1] = p4[1] /\ p3[2] = p4[2]
  BY <1>1, <1>4, <1>5, <1>6, <1>7, FourTurned
<1>9. Turns(x, Value(a), Value(Window(p0, 0)), Value(p4), Value(Window(p4, 4)), Two256)
  BY <1>4, <1>5, <1>6, <1>7, <1>8, ValueTurns
<1>10. Value(Window(p4, 4)) = Value(Upper(p4))
  BY FourFacts DEF Window, Upper, Value
<1>11. Value8(p4) = Value(a) * x
  <2>1. Value(a) * x + 0 = Value(p4) + Two256 * Value(Upper(p4)) /\ Value(a) \in Int /\ x \in Int
    BY <1>3, <1>9, <1>10 DEF Turns
  <2>2. QED  BY <2>1 DEF Value8
<1>12. QED  BY <1>2, <1>8, <1>11

\* The loop over the upper limbs folds: it multiplies them by c_N and adds them
\* to the lower ones, and the carry that has nowhere to go is none.
LEMMA FoldHighFacts ==
  ASSUME t \in Limbs8
  PROVE  /\ FoldHigh \in Limbs8 /\ FoldHigh[7] = 0
         /\ Value8(FoldHigh) = Value(Upper(t)) * C_N + Value(t)
<1> DEFINE s0 == [n \in 0..7 |-> IF n < 4 THEN t[n] ELSE 0]
           s1 == FoldLimb(s0, t[4], 0)
           s2 == FoldLimb(s1, t[5], 1)
           s3 == FoldLimb(s2, t[6], 2)
           s4 == FoldLimb(s3, t[7], 3)
           h == Upper(t)
<1>1. s0 \in Limbs8 /\ \A n \in 4..7 : s0[n] = 0
  BY WordFacts DEF Limbs8, Limb
<1>2. s4 = FoldHigh
  BY DEF FoldHigh
<1>3. Value(Window(s0, 0)) = Value(t)
  BY FourFacts DEF Window, Value
<1> HIDE DEF s0
<1>4. /\ h[0] = t[4] /\ h[1] = t[5] /\ h[2] = t[6] /\ h[3] = t[7]
      /\ h \in Limbs4
      /\ t[4] \in Limb /\ t[5] \in Limb /\ t[6] \in Limb /\ t[7] \in Limb
  BY DEF Upper, Limbs8, Limbs4
<1> HIDE DEF h
<1>5. /\ Turned(s0, s1, 0)
      /\ Turns(C_N, h[0], Value(Window(s0, 0)), s1[0], Value(Window(s1, 1)), Word)
  <2>1. \A n \in 0 + 4..7 : s0[n] = 0
    BY <1>1
  <2>2. 0 + 1 = 1 /\ 0 \in 0..3 /\ 0 < 3
    OBVIOUS
  <2>3. QED  BY <1>1, <1>4, <2>1, <2>2, FoldLimbFacts
<1> HIDE DEF s1
<1>6. /\ Turned(s1, s2, 1)
      /\ Turns(C_N, h[1], Value(Window(s1, 1)), s2[1], Value(Window(s2, 2)), Word)
  <2>1. s1 \in Limbs8 /\ \A n \in 1 + 4..7 : s1[n] = 0
    BY <1>5 DEF Turned
  <2>2. 1 + 1 = 2 /\ 1 \in 0..3 /\ 1 < 3
    OBVIOUS
  <2>3. QED  BY <1>4, <2>1, <2>2, FoldLimbFacts
<1> HIDE DEF s2
<1>7. /\ Turned(s2, s3, 2)
      /\ Turns(C_N, h[2], Value(Window(s2, 2)), s3[2], Value(Window(s3, 3)), Word)
  <2>1. s2 \in Limbs8 /\ \A n \in 2 + 4..7 : s2[n] = 0
    BY <1>6 DEF Turned
  <2>2. 2 + 1 = 3 /\ 2 \in 0..3 /\ 2 < 3
    OBVIOUS
  <2>3. QED  BY <1>4, <2>1, <2>2, FoldLimbFacts
<1> HIDE DEF s3
<1>8. /\ Turned(s3, s4, 3) /\ s4[7] = 0
      /\ \E c \in Limb :
           Turns(C_N, h[3], Value(Window(s3, 3)), s4[3],
                 Value(Four(s4[4], s4[5], s4[6], c)), Word)
  <2>1. s3 \in Limbs8 /\ \A n \in 3 + 4..7 : s3[n] = 0
    BY <1>7 DEF Turned
  <2>2. 3 \in 0..3
    OBVIOUS
  <2>3. QED  BY <1>4, <2>1, <2>2, FoldLimbFacts
<1> HIDE DEF s4
<1>9. PICK c \in Limb :
        Turns(C_N, h[3], Value(Window(s3, 3)), s4[3], Value(Four(s4[4], s4[5], s4[6], c)), Word)
  BY <1>8
<1>10. s4 \in Limbs8 /\ s1[0] = s4[0] /\ s2[1] = s4[1] /\ s3[2] = s4[2]
  BY <1>1, <1>5, <1>6, <1>7, <1>8, FourTurned
<1> DEFINE top == Four(s4[4], s4[5], s4[6], c)
<1>11. Turns(C_N, Value(h), Value(Window(s0, 0)), Value(s4), Value(top), Two256)
  BY <1>5, <1>6, <1>7, <1>9, <1>10, ValueTurns
<1>12. /\ Value(h) * C_N + Value(t) = Value(s4) + Two256 * Value(top)
       /\ Value(h) \in 0..Two256 - 1 /\ Value(t) \in 0..Two256 - 1
       /\ Value(s4) \in 0..Two256 - 1
       /\ top \in Limbs4 /\ Value(top) \in Nat
  <2>1. /\ s4[4] \in Limb /\ s4[5] \in Limb /\ s4[6] \in Limb
        /\ top \in Limbs4
    BY <1>10, FourFacts DEF Limbs8, Limbs4
  <2>2. \A y \in Limbs8 : \E z \in Limbs4 : Value(z) = Value(y)
    <3>1. SUFFICES ASSUME NEW y \in Limbs8 PROVE \E z \in Limbs4 : Value(z) = Value(y)
      OBVIOUS
    <3>2. [n \in 0..3 |-> y[n]] \in Limbs4 /\ Value([n \in 0..3 |-> y[n]]) = Value(y)
      BY DEF Limbs8, Limbs4, Value
    <3>3. QED  BY <3>2
  <2>3. \A y \in Limbs8 : Value(y) \in 0..Two256 - 1
    BY <2>2, ValueBounds
  <2>4. QED  BY <1>3, <1>4, <1>10, <1>11, <2>1, <2>3, ValueBounds DEF Turns
<1>13. c = 0
  <2> DEFINE w3 == Word * Word * Word
             v == Value(top)
             u == Value(h)
  <2>1. v <= C_N
    <3>1. SUFFICES ASSUME v >= C_N + 1 PROVE FALSE
      BY <1>12, CNFacts
    <3> DEFINE R == Two256
    <3>2. R \in Nat \ {0} /\ u \in Nat /\ u <= R - 1 /\ C_N \in Nat /\ v \in Nat
      BY <1>12, WordFacts, CNFacts
    <3> HIDE DEF R, u, v
    <3>3. u * C_N <= (R - 1) * C_N /\ u * C_N \in Int
      BY <3>2
    <3>4. (R - 1) * C_N = R * C_N - C_N /\ R * C_N \in Int
      BY <3>2
    <3>5. R * v >= R * (C_N + 1) /\ R * (C_N + 1) = R * C_N + R /\ R * v \in Int
      BY <3>1, <3>2
    <3>6. /\ u * C_N + Value(t) = Value(s4) + R * v
          /\ Value(t) \in Int /\ Value(t) <= R - 1 /\ Value(s4) \in Nat
      BY <1>12, WordFacts DEF R, u, v
    <3>7. QED  BY <3>2, <3>3, <3>4, <3>5, <3>6
  <2>2. SUFFICES ASSUME c >= 1 PROVE FALSE
    BY LimbInt
  <2>3. v >= w3 * c /\ w3 * c >= w3
    <3>1. /\ top[0] = s4[4] /\ top[1] = s4[5] /\ top[2] = s4[6] /\ top[3] = c
      BY FourFacts
    <3>2. /\ s4[4] \in Nat /\ s4[5] \in Nat /\ s4[6] \in Nat /\ c \in Nat /\ Word \in Nat
      BY <1>10, LimbInt, WordFacts DEF Limbs8
    <3>3. Value(top) = s4[4] + Word * (s4[5] + Word * (s4[6] + Word * c))
      BY <3>1 DEF Value
    <3> DEFINE a0 == s4[4]
               a1 == s4[5]
               a2 == s4[6]
    <3> HIDE DEF a0, a1, a2, top
    <3>4. PICK b0 \in Nat, b1 \in Nat, b2 \in Nat, e \in Nat, w \in Nat :
            b0 = a0 /\ b1 = a1 /\ b2 = a2 /\ e = c /\ w = Word
      BY <3>2 DEF a0, a1, a2
    <3>5. b0 + w * (b1 + w * (b2 + w * e)) >= w * w * w * e
      <4>1. w * (b2 + w * e) >= w * (w * e) /\ w * (w * e) \in Nat /\ w * (b2 + w * e) \in Nat
        BY <3>4
      <4> DEFINE k == w * (b2 + w * e)
                 l == w * (w * e)
      <4> HIDE DEF k, l
      <4>2. w * (b1 + k) >= w * l /\ w * l \in Nat /\ w * (b1 + k) \in Nat
        BY <4>1 DEF k, l
      <4>3. w * (w * (w * e)) = w * w * w * e
        OBVIOUS
      <4>4. QED  BY <4>2, <4>3 DEF k, l
    <3>6. w * w * w * e >= w * w * w
      <4>1. e >= 1 /\ w * w * w \in Nat
        BY <2>2, <3>4
      <4> DEFINE q == w * w * w
      <4> HIDE DEF q
      <4>2. q * e >= q
        BY <4>1 DEF q
      <4>3. QED  BY <4>2 DEF q
    <3>7. QED  BY <3>3, <3>4, <3>5, <3>6 DEF a0, a1, a2
  <2>4. w3 \in Nat /\ C_N < w3 /\ C_N \in Nat /\ v \in Nat /\ w3 * c \in Int
    BY <1>12, CNFacts, WordFacts, LimbInt
  <2> HIDE DEF v, w3
  <2>5. QED  BY <2>1, <2>3, <2>4
<1>14. Value(top) = Value(Upper(s4))
  BY <1>8, <1>13, FourFacts DEF Upper, Value
<1>15. QED  BY <1>2, <1>8, <1>10, <1>12, <1>14 DEF Value8, h

-----------------------------------------------------------------------------
(* What each loop does to the number *)

\* The lower half is the number modulo 2^256, the upper half the quotient.
LEMMA SplitFacts ==
  ASSUME NEW lo \in 0..Two256 - 1, NEW hi \in Nat
  PROVE  /\ (lo + Two256 * hi) % Two256 = lo /\ (lo + Two256 * hi) \div Two256 = hi
         /\ lo + Two256 * hi \in Nat
<1> DEFINE R == Two256
           x == lo + R * hi
<1>1. R \in Nat \ {0} /\ hi \in Int /\ lo \in 0..R - 1 /\ lo \in Nat
  BY WordFacts
<1> HIDE DEF R
<1>2. R * hi \in Nat
  BY <1>1
<1>3. x \in Nat /\ x = R * hi + lo
  BY <1>1, <1>2
<1> HIDE DEF x
<1>4. x % R = lo /\ x \div R = hi
  BY <1>1, <1>3, DivModUnique
<1>5. QED  BY <1>3, <1>4 DEF x, R

LEMMA HalvesFacts ==
  ASSUME NEW s \in Limbs8
  PROVE  /\ Value(s) \in 0..Two256 - 1
         /\ Upper(s) \in Limbs4 /\ Value(Upper(s)) \in 0..Two256 - 1
         /\ Value8(s) % Two256 = Value(s) /\ Value8(s) \div Two256 = Value(Upper(s))
         /\ Value8(s) \in Nat
         /\ [n \in 0..3 |-> s[n]] \in Limbs4 /\ Value([n \in 0..3 |-> s[n]]) = Value(s)
<1>1. [n \in 0..3 |-> s[n]] \in Limbs4 /\ Value([n \in 0..3 |-> s[n]]) = Value(s)
  BY DEF Limbs8, Limbs4, Value
<1>2. Value(s) \in 0..Two256 - 1
  BY <1>1, ValueBounds
<1>3. Upper(s) \in Limbs4
  BY DEF Upper, Limbs8, Limbs4
<1>4. Value(Upper(s)) \in 0..Two256 - 1
  BY <1>3, ValueBounds
<1>5. Value(Upper(s)) \in Nat
  BY <1>4, WordFacts
<1>6. QED  BY <1>1, <1>2, <1>3, <1>4, <1>5, SplitFacts DEF Value8

\* The upper half is one limb when the others are empty.
LEMMA OneLimbAbove ==
  ASSUME NEW s \in Limbs8, s[5] = 0, s[6] = 0, s[7] = 0
  PROVE  Value(Upper(s)) = s[4]
<1>1. Value(Upper(s)) = s[4] + Word * (s[5] + Word * (s[6] + Word * s[7]))
  BY DEF Upper, Value
<1>2. s[4] \in Int /\ Word * 0 = 0 /\ 0 + 0 = 0
  BY LimbInt, WordFacts DEF Limbs8
<1>3. QED  BY <1>1, <1>2

\* And they are when it is small.
LEMMA SmallAbove ==
  ASSUME NEW s \in Limbs8, Value(Upper(s)) < Word
  PROVE  s[5] = 0 /\ s[6] = 0 /\ s[7] = 0
<1>1. PICK w \in Nat, a \in Nat, b \in Nat, c \in Nat, d \in Nat :
        w = Word /\ a = s[4] /\ b = s[5] /\ c = s[6] /\ d = s[7] /\ w > 3
  BY LimbInt, WordFacts DEF Limbs8
<1>2. Value(Upper(s)) = a + w * (b + w * (c + w * d))
  BY <1>1 DEF Upper, Value
<1>3. ASSUME NEW x \in Nat, NEW y \in Nat, x + w * y < w PROVE y = 0
  <2>1. SUFFICES ASSUME y >= 1 PROVE FALSE
    OBVIOUS
  <2>2. w * y >= w /\ w * y \in Nat
    BY <1>1, <2>1
  <2>3. QED  BY <1>1, <1>3, <2>2
<1>4. b + w * (c + w * d) \in Nat /\ c + w * d \in Nat
  BY <1>1
<1>5. b + w * (c + w * d) = 0
  BY <1>1, <1>2, <1>3, <1>4
<1>6. b = 0 /\ w * (c + w * d) = 0
  <2>1. w * (c + w * d) \in Nat
    BY <1>4
  <2>2. QED  BY <1>5, <2>1
<1>7. c + w * d = 0
  BY <1>1, <1>4, <1>6
<1>8. c = 0 /\ w * d = 0
  <2>1. w * d \in Nat
    BY <1>1
  <2>2. QED  BY <1>7, <2>1
<1>9. d = 0
  BY <1>1, <1>8
<1>10. QED  BY <1>1, <1>6, <1>8, <1>9

\* field.c's first loop
LEMMA FieldFirstFoldFacts ==
  ASSUME t \in Limbs8
  PROVE  LET fold == Chain([j \in 0..3 |-> t[4 + j] * FRED_C + t[j]], 0)
             next == [n \in 0..7 |-> CASE n < 4 -> fold.d[n]
                                       [] n = 4 -> fold.carry
                                       [] OTHER -> 0]
         IN  /\ next \in Limbs8 /\ next[5] = 0 /\ next[6] = 0 /\ next[7] = 0
             /\ Value8(next) = Value(t) + Value(Upper(t)) * FRED_C
<1> DEFINE f == [j \in 0..3 |-> t[4 + j] * FRED_C + t[j]]
           low == [n \in 0..3 |-> t[n]]
           fold == Chain(f, 0)
           d == fold.d
           c == fold.carry
           next == [n \in 0..7 |-> CASE n < 4 -> d[n] [] n = 4 -> c [] OTHER -> 0]
<1>1. /\ Upper(t) \in Limbs4 /\ low \in Limbs4 /\ Value(low) = Value(t)
      /\ Value(Upper(t)) \in Int /\ Value(t) \in Int
      /\ FRED_C \in Limb /\ FRED_C \in Int
  BY HalvesFacts, LimbsAssumption, LimbInt
<1>2. \A j \in 0..3 : f[j] = FRED_C * Upper(t)[j] + low[j]
  <2>1. SUFFICES ASSUME NEW j \in 0..3 PROVE f[j] = FRED_C * Upper(t)[j] + low[j]
    OBVIOUS
  <2>2. t[4 + j] \in Limb
    BY DEF Limbs8
  <2>3. t[4 + j] \in Int /\ Upper(t)[j] = t[4 + j]
    BY <2>2, LimbInt DEF Upper
  <2>4. t[4 + j] * FRED_C = FRED_C * t[4 + j]
    BY <1>1, <2>3, Distribute
  <2>5. QED  BY <2>3, <2>4
<1> HIDE DEF f, low
<1>3. /\ d \in Limbs4 /\ c \in Limb
      /\ FRED_C * Value(Upper(t)) + Value(low) = Value(d) + Two256 * c
  BY <1>1, <1>2, MulAddFacts
<1> HIDE DEF d, c
<1>4. next \in Limbs8
  BY <1>3, LowFacts DEF Limbs8, Limbs4
<1>5. /\ next[0] = d[0] /\ next[1] = d[1] /\ next[2] = d[2] /\ next[3] = d[3]
      /\ next[4] = c /\ next[5] = 0 /\ next[6] = 0 /\ next[7] = 0
  OBVIOUS
<1> HIDE DEF next
<1>6. Value(next) = Value(d) /\ Value(Upper(next)) = c
  <2>1. Value(next) = Value(d)
    BY <1>5 DEF Value
  <2>2. QED  BY <1>4, <1>5, <2>1, OneLimbAbove
<1>7. FRED_C * Value(Upper(t)) = Value(Upper(t)) * FRED_C /\ FRED_C * Value(Upper(t)) \in Int
  BY <1>1, Distribute
<1>8. Value8(next) = Value(t) + Value(Upper(t)) * FRED_C
  BY <1>1, <1>3, <1>6, <1>7 DEF Value8
<1>9. QED  BY <1>4, <1>5, <1>8 DEF next, d, c, f

\* field.c's second and third folds
LEMMA AddSmallFacts ==
  ASSUME NEW s, \A j \in 0..3 : s[j] \in Limb, NEW x \in Limb
  PROVE  LET sum == AddSmall(s, x)
         IN  /\ sum.d \in Limbs4 /\ sum.carry \in Limb
             /\ Value(sum.d) + Two256 * sum.carry = Value(s) + x * FRED_C
<1> DEFINE fold == Wide(x * FRED_C)
           low == Low(fold)
           high == High(fold)
           small == Four(low, high, 0, 0)
           y == [j \in 0..3 |-> s[j]]
           f == Four(s[0] + low, s[1] + high, s[2], s[3])
<1>1. x * FRED_C \in Nat /\ x * FRED_C < Word * Word
  <2>1. /\ x \in Nat /\ x <= Word - 1 /\ FRED_C \in Nat /\ FRED_C <= Word - 1 /\ Word \in Nat
        /\ Word > 3
    BY LimbInt, LimbsAssumption, WordFacts
  <2>2. x * FRED_C <= (Word - 1) * (Word - 1) /\ x * FRED_C \in Nat
    BY <2>1
  <2>3. (Word - 1) * (Word - 1) = (Word * Word - Word) - (Word - 1) /\ Word * Word \in Nat
    BY <2>1
  <2>4. QED  BY <2>1, <2>2, <2>3
<1>2. fold = x * FRED_C /\ low \in Limb /\ high \in Limb /\ fold = Word * high + low
  <2> DEFINE p == x * FRED_C
  <2> HIDE DEF p
  <2>1. p \in Nat /\ p < Word * Word
    BY <1>1 DEF p
  <2>2. Wide(p) = p /\ Low(p) \in Limb /\ High(p) \in Limb /\ p = Word * High(p) + Low(p)
    BY <2>1, AccFacts
  <2>3. QED  BY <2>2 DEF p
<1> HIDE DEF fold, low, high
<1>3. small \in Limbs4 /\ Value(small) = x * FRED_C
  <2>1. {low, high, 0} \subseteq Limb
    BY <1>2, LowFacts
  <2>2. small \in Limbs4
    BY <2>1, FourFacts DEF Limbs4
  <2>3. Value(small) = low + Word * (high + Word * (0 + Word * 0))
    BY FourFacts DEF Value
  <2>4. low \in Int /\ high \in Int /\ Word \in Int /\ Word * 0 = 0
    BY <1>2, LimbInt, WordFacts
  <2>5. QED  BY <1>2, <2>2, <2>3, <2>4
<1>4. y \in Limbs4 /\ Value(y) = Value(s)
  BY DEF Limbs4, Value
<1>5. 1 \in Limb
  BY WordFacts DEF Limb
<1>6. \A j \in 0..3 : f[j] = 1 * small[j] + y[j]
  <2>1. /\ s[0] \in Int /\ s[1] \in Int /\ s[2] \in Int /\ s[3] \in Int
        /\ low \in Int /\ high \in Int
    BY <1>2, LimbInt
  <2>2. /\ s[0] + low = 1 * low + s[0] /\ s[1] + high = 1 * high + s[1]
        /\ s[2] = 1 * 0 + s[2] /\ s[3] = 1 * 0 + s[3]
    BY <2>1
  <2>3. \A j \in 0..3 : j = 0 \/ j = 1 \/ j = 2 \/ j = 3
    OBVIOUS
  <2>4. QED  BY <2>2, <2>3, FourFacts
<1> HIDE DEF small, y, f
<1>7. /\ Chain(f, 0).d \in Limbs4 /\ Chain(f, 0).carry \in Limb
      /\ 1 * Value(small) + Value(y) = Value(Chain(f, 0).d) + Two256 * Chain(f, 0).carry
  BY <1>3, <1>4, <1>5, <1>6, MulAddFacts
<1>8. AddSmall(s, x) = Chain(f, 0)
  BY DEF AddSmall, f, low, high, fold
<1>9. 1 * Value(small) + Value(y) = Value(s) + x * FRED_C
  <2>1. Value(small) \in Int /\ Value(y) \in Int
    BY <1>3, <1>4, ValueBounds
  <2>2. QED  BY <1>3, <1>4, <2>1
<1>10. QED  BY <1>7, <1>8, <1>9

\* scalar.c's residual fold
LEMMA ResidualFoldFacts ==
  ASSUME t \in Limbs8
  PROVE  LET sum == Chain(Four(t[4] * CN_LO + t[0], t[4] * CN_MID + t[1],
                               t[4] + t[2], t[3]), 0)
         IN  /\ sum.d \in Limbs4 /\ sum.carry \in Limb
             /\ Value(sum.d) + Two256 * sum.carry = Value(t) + t[4] * C_N
<1> DEFINE f == Four(t[4] * CN_LO + t[0], t[4] * CN_MID + t[1], t[4] + t[2], t[3])
           y == [n \in 0..3 |-> t[n]]
           h == t[4]
<1>1. h \in Limb /\ y \in Limbs4 /\ Value(y) = Value(t) /\ Value(t) \in Int
  BY HalvesFacts DEF Limbs8
<1>2. \A j \in 0..3 : f[j] = h * CNLimbs[j] + y[j]
  <2>1. h \in Int /\ t[0] \in Int /\ t[1] \in Int /\ t[2] \in Int /\ t[3] \in Int
    BY <1>1, LimbInt DEF Limbs8
  <2>2. h * 1 = h /\ h * 0 + t[3] = t[3]
    BY <2>1
  <2>3. \A j \in 0..3 : j = 0 \/ j = 1 \/ j = 2 \/ j = 3
    OBVIOUS
  <2>4. QED  BY <2>2, <2>3, FourFacts DEF CNLimbs
<1> HIDE DEF f, y
<1>3. /\ Chain(f, 0).d \in Limbs4 /\ Chain(f, 0).carry \in Limb
      /\ h * C_N + Value(y) = Value(Chain(f, 0).d) + Two256 * Chain(f, 0).carry
  BY <1>1, <1>2, CNFacts, MulAddFacts
<1>4. h * C_N + Value(t) = Value(t) + h * C_N
  <2>1. h * C_N \in Int
    BY <1>1, LimbInt, CNFacts
  <2>2. QED  BY <1>1, <2>1
<1>5. QED  BY <1>1, <1>3, <1>4 DEF f

\* The two moduli.
LEMMA ModuliFacts ==
  /\ FRED_C \in Nat \ {0} /\ FRED_C < Two256
  /\ FRED_C * FRED_C \in Nat /\ FRED_C * FRED_C + 2 * FRED_C <= Two256 /\ 4 * FRED_C <= Two256
  /\ C_N \in Nat \ {0} /\ C_N < Two256
  /\ FIELD_P \in Limbs4 /\ Value(FIELD_P) = Two256 - FRED_C
  /\ CURVE_N \in Limbs4 /\ Value(CURVE_N) = Two256 - C_N
<1> DEFINE w == Word
           w2 == w * w
           C == FRED_C
<1>1. /\ w \in Nat /\ w > 3 /\ C \in Nat /\ C >= 1 /\ C <= w - 1
      /\ w2 \in Nat /\ w2 >= 4 * w /\ w2 = w * w
  BY LimbsAssumption, LimbInt, WordFacts
<1>2. Two256 \in Nat /\ Two256 >= 64 * w /\ Two256 = w2 * w2
  BY WordFacts
<1>3. C * C <= (w - 1) * (w - 1) /\ C * C \in Nat
  BY <1>1
<1>4. (w - 1) * (w - 1) = (w2 - w) - (w - 1)
  BY <1>1
<1>5. w2 * w2 >= 4 * w2
  BY <1>1
<1>6. C * C + 2 * C <= Two256
  BY <1>1, <1>2, <1>3, <1>4, <1>5
<1>7. C < Two256 /\ 4 * C <= Two256
  BY <1>1, <1>2
<1>8. C_N \in Nat \ {0} /\ C_N < Two256
  <2>1. C_N \in Nat /\ 4 * C_N <= Two256
    BY CNFacts, ScalarAssumption
  <2>2. C_N >= 1
    <3>1. CN_LO \in Nat /\ CN_MID \in Nat
      BY LimbsAssumption, LimbInt
    <3>2. w * CN_MID \in Nat
      BY <1>1, <3>1
    <3>3. QED  BY <1>1, <3>1, <3>2 DEF C_N
  <2>3. QED  BY <1>2, <2>1, <2>2
<1>9. Two256 - C \in 0..Two256 - 1 /\ Two256 - C_N \in 0..Two256 - 1
  BY <1>1, <1>2, <1>7, <1>8
<1>10. QED
  BY <1>1, <1>3, <1>6, <1>7, <1>8, <1>9, FromIntFacts DEF FIELD_P, CURVE_N

-----------------------------------------------------------------------------
(* The reductions as folds of numbers *)

FieldFolds == INSTANCE FoldReduceProofs WITH
  R <- Two256, C <- FRED_C, Folds <- 3, Inputs <- Nat, v <- Folded, folds <- FoldsDone
ScalarFolds == INSTANCE FoldReduceProofs WITH
  R <- Two256, C <- C_N, Folds <- 3, Inputs <- Nat, v <- Folded, folds <- FoldsDone

\* Both constants are small enough for three folds.
LEMMA FoldsAssumed ==
  /\ FieldFolds!RAssumption /\ FieldFolds!InputsAssumption /\ FieldFolds!FoldsAssumption
  /\ ScalarFolds!RAssumption /\ ScalarFolds!InputsAssumption /\ ScalarFolds!FoldsAssumption
<1>1. Two256 \in Nat
  BY WordFacts
<1>2. FieldFolds!RAssumption /\ ScalarFolds!RAssumption
  BY <1>1, ModuliFacts DEF FieldFolds!RAssumption, ScalarFolds!RAssumption
<1>3. FieldFolds!InputsAssumption /\ ScalarFolds!InputsAssumption
  BY DEF FieldFolds!InputsAssumption, ScalarFolds!InputsAssumption
<1>4. FieldFolds!FoldsAssumption
  <2>1. FRED_C * FRED_C <= 2 * Two256 /\ 4 * FRED_C <= Two256
    BY <1>1, ModuliFacts
  <2>2. QED  BY <2>1 DEF FieldFolds!FoldsAssumption
<1>5. ScalarFolds!FoldsAssumption
  BY ScalarAssumption DEF ScalarFolds!FoldsAssumption
<1>6. QED  BY <1>2, <1>3, <1>4, <1>5

\* A step that folds the number of the field.
LEMMA FieldFolding ==
  ASSUME FieldFolds!IInv, FoldsDone \in {0, 1, 2}, FoldsDone' = FoldsDone + 1,
         input' = input,
         Folded' = (Folded % Two256) + (Folded \div Two256) * FRED_C
  PROVE  Field!Fold /\ FieldFolds!IInv'
<1>1. FieldFolds!Fold /\ Field!Fold
  BY DEF FieldFolds!Fold, Field!Fold
<1>2. QED  BY <1>1, FoldsAssumed, FieldFolds!FoldHolds

\* And of the scalars.
LEMMA ScalarFolding ==
  ASSUME ScalarFolds!IInv, FoldsDone \in {0, 1, 2}, FoldsDone' = FoldsDone + 1,
         input' = input,
         Folded' = (Folded % Two256) + (Folded \div Two256) * C_N
  PROVE  Scalar!Fold /\ ScalarFolds!IInv'
<1>1. ScalarFolds!Fold /\ Scalar!Fold
  BY DEF ScalarFolds!Fold, Scalar!Fold
<1>2. QED  BY <1>1, FoldsAssumed, ScalarFolds!FoldHolds

-----------------------------------------------------------------------------
(* The inductive invariant *)

Labels == {"entered", "folded", "foldedTwice", "foldedThrice", "done"}

Typing ==
  /\ modulo \in {"P", "N"} /\ pc \in Labels
  /\ t \in Limbs8 /\ r \in Limbs4 /\ carry \in Limb

\* The carry is that of the last loop into r, and the field's first loop
\* leaves five limbs.
Emptied ==
  /\ pc \in {"entered", "folded"} => carry = 0
  /\ modulo = "N" /\ pc = "foldedTwice" => carry = 0
  /\ modulo = "P" /\ pc = "folded" => t[5] = 0 /\ t[6] = 0 /\ t[7] = 0

\* The limbs stand for a number that has been folded so often.
Numeric == IF modulo = "P" THEN FieldFolds!IInv ELSE ScalarFolds!IInv

LInv ==
  /\ Typing
  /\ Emptied
  /\ CarriesDie
  /\ DroppedLimbsEmpty
  /\ Numeric

\* A step of FoldReduce, on the number that the limbs stand for.
FoldsNumber == IF modulo = "P" THEN Field!Next ELSE Scalar!Next

\* What the call hands over is at most two words, and the limbs hold it.
LEMMA EnteredFacts ==
  ASSUME Init
  PROVE  /\ Typing /\ pc = "entered" /\ carry = 0
         /\ input \in Nat /\ input < Two256 * Two256
         /\ Value8(t) = input
<1>1. PICK m \in {"P", "N"} :
        \/ \E a, b \in Factors : Entered(m, a * b, Product(FromInt(a), FromInt(b)))
        \/ \E x \in Numbers :
             Entered(m, x, Halves(FromInt(x % Two256), FromInt(x \div Two256)))
  BY DEF Init
<1>2. Two256 \in Nat \ {0} /\ Two256 * Two256 \in Nat
  BY WordFacts
<1>3. Zero \in Limbs4 /\ 0 \in Limb
  <2>1. {0, 0, 0, 0} \subseteq Limb
    BY WordFacts DEF Limb
  <2>2. QED  BY <2>1, FourFacts DEF Zero, Limbs4
<1>4. ASSUME NEW x \in Nat, NEW limbs \in Limbs8, Entered(m, x, limbs),
             x < Two256 * Two256, Value8(limbs) = x
      PROVE  /\ Typing /\ pc = "entered" /\ carry = 0
             /\ input \in Nat /\ input < Two256 * Two256
             /\ Value8(t) = input
  BY <1>3, <1>4 DEF Entered, Typing, Labels
<1>5. CASE \E a, b \in Factors : Entered(m, a * b, Product(FromInt(a), FromInt(b)))
  <2>1. PICK a \in Factors, b \in Factors :
          Entered(m, a * b, Product(FromInt(a), FromInt(b)))
    BY <1>5
  <2>2. a \in 0..Two256 - 1 /\ b \in 0..Two256 - 1
    BY InputsAssumption
  <2>3. /\ Product(FromInt(a), FromInt(b)) \in Limbs8
        /\ Value8(Product(FromInt(a), FromInt(b))) = a * b
    BY <2>2, FromIntFacts, ProductFacts
  <2>4. a * b \in Nat /\ a * b < Two256 * Two256
    <3>1. PICK w \in Nat : w = Two256 /\ a <= w - 1 /\ b <= w - 1 /\ w >= 1 /\ a \in Nat /\ b \in Nat
      BY <1>2, <2>2
    <3>2. a * b <= (w - 1) * (w - 1) /\ a * b \in Nat
      BY <3>1
    <3>3. (w - 1) * (w - 1) = (w * w - w) - (w - 1) /\ w * w \in Nat
      BY <3>1
    <3>4. QED  BY <3>1, <3>2, <3>3
  <2>5. QED  BY <1>4, <2>1, <2>3, <2>4
<1>6. CASE \E x \in Numbers :
             Entered(m, x, Halves(FromInt(x % Two256), FromInt(x \div Two256)))
  <2>1. PICK x \in Numbers :
          Entered(m, x, Halves(FromInt(x % Two256), FromInt(x \div Two256)))
    BY <1>6
  <2>2. x \in Nat /\ x < Two256 * Two256
    BY <1>2, InputsAssumption
  <2>3. PICK hi \in Nat, lo \in 0..Two256 - 1 :
          x = Two256 * hi + lo /\ x \div Two256 = hi /\ x % Two256 = lo
    BY <1>2, <2>2, DivMod
  <2>4. hi \in 0..Two256 - 1
    <3>1. PICK w \in Nat : w = Two256 /\ w >= 1 /\ lo \in Nat
      BY <1>2, <2>3
    <3>2. SUFFICES ASSUME hi >= w PROVE FALSE
      BY <3>1
    <3>3. w * hi >= w * w /\ w * hi \in Nat /\ w * w \in Nat
      BY <3>1, <3>2
    <3>4. QED  BY <2>2, <2>3, <3>1, <3>3
  <2> DEFINE l == FromInt(lo)
             h == FromInt(hi)
             limbs == Halves(l, h)
  <2>5. l \in Limbs4 /\ Value(l) = lo /\ h \in Limbs4 /\ Value(h) = hi
    BY <2>3, <2>4, FromIntFacts
  <2> HIDE DEF l, h
  <2>6. limbs \in Limbs8
    BY <2>5 DEF Halves, Limbs4, Limbs8
  <2>7. Value(limbs) = Value(l) /\ Value(Upper(limbs)) = Value(h)
    BY DEF Halves, Value, Upper
  <2>8. Value8(limbs) = lo + Two256 * hi
    BY <2>5, <2>7 DEF Value8
  <2>9. Value8(limbs) = x
    BY <1>2, <2>3, <2>8
  <2>10. Entered(m, x, limbs)
    BY <2>1, <2>3 DEF l, h
  <2>11. QED  BY <1>4, <2>2, <2>6, <2>9, <2>10
<1>7. QED  BY <1>1, <1>5, <1>6

\* The invariant holds at the call, which is where the folds begin.
LEMMA EntryHolds ==
  ASSUME Init
  PROVE  LInv /\ IF modulo = "P" THEN Field!Init ELSE Scalar!Init
<1>1. /\ Typing /\ pc = "entered" /\ carry = 0
      /\ input \in Nat /\ input < Two256 * Two256
      /\ Folded = input /\ FoldsDone = 0
  BY EnteredFacts DEF Folded, FoldsDone
<1>2. Field!Init /\ Scalar!Init
  BY <1>1 DEF Field!Init, Scalar!Init
<1>3. FieldFolds!IInv /\ ScalarFolds!IInv
  BY <1>1 DEF FieldFolds!IInv, FieldFolds!TypeOK, FieldFolds!Congruent,
              FieldFolds!Narrows, FieldFolds!Reduced,
              ScalarFolds!IInv, ScalarFolds!TypeOK, ScalarFolds!Congruent,
              ScalarFolds!Narrows, ScalarFolds!Reduced
<1>4. Emptied /\ CarriesDie /\ DroppedLimbsEmpty
  BY <1>1 DEF Emptied, CarriesDie, DroppedLimbsEmpty
<1>5. QED  BY <1>1, <1>2, <1>3, <1>4 DEF LInv, Numeric

-----------------------------------------------------------------------------
(* The steps of field.c *)

\* A carry above a number of four limbs is bounded by what they make together.
LEMMA CarryBound ==
  ASSUME NEW x \in 0..Two256 - 1, NEW c \in Nat, NEW n \in Nat, x + Two256 * c < Two256 * n
  PROVE  c < n
<1>1. PICK w \in Nat : w = Two256 /\ w >= 1 /\ x \in Nat
  BY WordFacts
<1>2. SUFFICES ASSUME c >= n PROVE FALSE
  OBVIOUS
<1>3. w * c >= w * n /\ w * c \in Nat /\ w * n \in Nat
  BY <1>1, <1>2
<1>4. QED  BY <1>1, <1>3

LEMMA FieldFirstFoldHolds ==
  ASSUME LInv, FieldFirstFold PROVE LInv' /\ FoldsNumber
<1>1. /\ modulo = "P" /\ pc = "entered" /\ t \in Limbs8 /\ r \in Limbs4 /\ carry = 0
      /\ 0 \in Limb /\ FieldFolds!IInv
      /\ modulo' = "P" /\ input' = input /\ r' = r /\ carry' = carry /\ pc' = "folded"
  BY DEF LInv, Typing, Emptied, Numeric, FieldFirstFold, Go
<1>2. /\ t' \in Limbs8 /\ t'[5] = 0 /\ t'[6] = 0 /\ t'[7] = 0
      /\ Value8(t') = Value(t) + Value(Upper(t)) * FRED_C
  BY <1>1, FieldFirstFoldFacts DEF FieldFirstFold
<1>3. Folded = Value8(t) /\ FoldsDone = 0 /\ Folded' = Value8(t') /\ FoldsDone' = 1
  BY <1>1 DEF Folded, FoldsDone
<1>4. Folded % Two256 = Value(t) /\ Folded \div Two256 = Value(Upper(t))
  BY <1>1, <1>3, HalvesFacts
<1>5. Field!Fold /\ FieldFolds!IInv'
  BY <1>1, <1>2, <1>3, <1>4, FieldFolding
<1>6. Typing' /\ Emptied' /\ CarriesDie' /\ DroppedLimbsEmpty'
  BY <1>1, <1>2 DEF Typing, Labels, Emptied, CarriesDie, DroppedLimbsEmpty
<1>7. Numeric' /\ FoldsNumber
  BY <1>1, <1>5 DEF Numeric, FoldsNumber, Field!Next
<1>8. QED  BY <1>6, <1>7 DEF LInv

\* "carry is at most 1" after the second fold
LEMMA FieldSecondFoldHolds ==
  ASSUME LInv, FieldSecondFold PROVE LInv' /\ FoldsNumber
<1>1. /\ modulo = "P" /\ pc = "folded" /\ t \in Limbs8 /\ t[4] \in Limb
      /\ \A j \in 0..3 : t[j] \in Limb
      /\ t[5] = 0 /\ t[6] = 0 /\ t[7] = 0 /\ FieldFolds!IInv
      /\ modulo' = "P" /\ input' = input /\ t' = t /\ pc' = "foldedTwice"
      /\ r' = AddSmall(t, t[4]).d /\ carry' = AddSmall(t, t[4]).carry
  BY DEF LInv, Typing, Emptied, Numeric, FieldSecondFold, Go, Limbs8
<1>2. /\ r' \in Limbs4 /\ carry' \in Limb
      /\ Value(r') + Two256 * carry' = Value(t) + t[4] * FRED_C
  BY <1>1, AddSmallFacts
<1>3. /\ Folded = Value8(t) /\ FoldsDone = 1
      /\ Folded' = Value(r') + Two256 * carry' /\ FoldsDone' = 2
  BY <1>1 DEF Folded, FoldsDone
<1>4. Folded % Two256 = Value(t) /\ Folded \div Two256 = t[4]
  BY <1>1, <1>3, HalvesFacts, OneLimbAbove
<1>5. Field!Fold /\ FieldFolds!IInv'
  BY <1>1, <1>2, <1>3, <1>4, FieldFolding
<1>6. carry' <= 1
  <2>1. Folded' < Two256 + FRED_C * FRED_C
    BY <1>3, <1>5 DEF FieldFolds!IInv, FieldFolds!Narrows
  <2>2. Value(r') \in 0..Two256 - 1 /\ carry' \in Nat /\ Folded' \in Int
    BY <1>2, <1>5, ValueBounds, LimbInt DEF FieldFolds!IInv, FieldFolds!TypeOK
  <2>3. Folded' < Two256 * 2
    BY <2>1, <2>2, ModuliFacts, WordFacts
  <2>4. QED  BY <1>3, <2>2, <2>3, CarryBound
<1>7. Typing' /\ Emptied' /\ CarriesDie' /\ DroppedLimbsEmpty'
  BY <1>1, <1>2, <1>6 DEF Typing, Labels, Emptied, CarriesDie, DroppedLimbsEmpty
<1>8. Numeric' /\ FoldsNumber
  BY <1>1, <1>5 DEF Numeric, FoldsNumber, Field!Next
<1>9. QED  BY <1>7, <1>8 DEF LInv

\* "Now carry is guaranteed 0": what carried out of the second fold left less
\* than C^2 behind, and there is room for one more C.
LEMMA FieldThirdFoldHolds ==
  ASSUME LInv, FieldThirdFold PROVE LInv' /\ FoldsNumber
<1>1. /\ modulo = "P" /\ pc = "foldedTwice" /\ t \in Limbs8 /\ r \in Limbs4
      /\ carry \in Limb /\ carry \in Nat /\ carry <= 1 /\ FieldFolds!IInv
      /\ modulo' = "P" /\ input' = input /\ t' = t /\ pc' = "foldedThrice"
      /\ r' = AddSmall(r, carry).d /\ carry' = AddSmall(r, carry).carry
  BY LimbInt DEF LInv, Typing, CarriesDie, Numeric, FieldThirdFold, Go
<1>2. /\ r' \in Limbs4 /\ carry' \in Limb
      /\ Value(r') + Two256 * carry' = Value(r) + carry * FRED_C
  BY <1>1, AddSmallFacts DEF Limbs4
<1>3. /\ Folded = Value(r) + Two256 * carry /\ FoldsDone = 2
      /\ Folded' = Value(r') + Two256 * carry' /\ FoldsDone' = 3
  BY <1>1 DEF Folded, FoldsDone
<1>4. /\ Value(r) \in 0..Two256 - 1 /\ Value(r') \in 0..Two256 - 1
      /\ carry' \in Nat /\ Two256 \in Nat
  BY <1>1, <1>2, ValueBounds, LimbInt, WordFacts
<1>5. Folded % Two256 = Value(r) /\ Folded \div Two256 = carry
  BY <1>1, <1>3, <1>4, SplitFacts
<1>6. Field!Fold /\ FieldFolds!IInv'
  BY <1>1, <1>2, <1>3, <1>5, FieldFolding
<1>7. Value(r) + carry * FRED_C < Two256
  <2>1. CASE carry = 0
    BY <1>4, <2>1, ModuliFacts
  <2>2. CASE carry = 1
    <3>1. Folded < Two256 + FRED_C * FRED_C
      BY <1>1, <1>3 DEF FieldFolds!IInv, FieldFolds!Narrows
    <3>2. Value(r) < FRED_C * FRED_C
      BY <1>3, <1>4, <2>2, <3>1, ModuliFacts
    <3>3. QED  BY <1>4, <2>2, <3>2, ModuliFacts
  <2>3. QED  BY <1>1, <2>1, <2>2
<1>8. carry' = 0
  <2>1. Value(r') + Two256 * carry' < Two256 * 1
    BY <1>2, <1>4, <1>7
  <2>2. QED  BY <1>4, <2>1, CarryBound
<1>9. Typing' /\ Emptied' /\ CarriesDie' /\ DroppedLimbsEmpty'
  BY <1>1, <1>2, <1>8 DEF Typing, Labels, Emptied, CarriesDie, DroppedLimbsEmpty
<1>10. Numeric' /\ FoldsNumber
  BY <1>1, <1>6 DEF Numeric, FoldsNumber, Field!Next
<1>11. QED  BY <1>9, <1>10 DEF LInv

LEMMA FieldSubtractHolds ==
  ASSUME LInv, FieldSubtract PROVE LInv' /\ FoldsNumber
<1> DEFINE diff == uint256_sub(r, FIELD_P)
<1>1. /\ modulo = "P" /\ pc = "foldedThrice" /\ t \in Limbs8 /\ r \in Limbs4
      /\ carry = 0 /\ carry \in Limb /\ FieldFolds!IInv
      /\ modulo' = "P" /\ input' = input /\ t' = t /\ carry' = carry /\ pc' = "done"
      /\ r' = IF diff.borrow # 0 THEN r ELSE diff.d
  BY DEF LInv, Typing, CarriesDie, Numeric, FieldSubtract, Go
<1>2. /\ diff.d \in Limbs4
      /\ diff.borrow = (IF Value(r) < Value(FIELD_P) THEN 1 ELSE 0)
      /\ Value(diff.d) = (IF Value(r) < Value(FIELD_P)
                          THEN (Value(r) - Value(FIELD_P)) + Two256
                          ELSE Value(r) - Value(FIELD_P))
  BY <1>1, ModuliFacts, SubFacts
<1> HIDE DEF diff
<1>3. /\ Value(r) \in 0..Two256 - 1 /\ Two256 \in Nat /\ FRED_C \in Nat
      /\ Value(FIELD_P) = Two256 - FRED_C
  BY <1>1, ValueBounds, WordFacts, ModuliFacts
<1>4. Folded = Value(r) /\ FoldsDone = 3 /\ Folded' = Value(r') /\ FoldsDone' = 4
  BY <1>1, <1>3 DEF Folded, FoldsDone
<1>5. r' \in Limbs4 /\ Value(r') = (IF Value(r) >= Two256 - FRED_C
                                   THEN Value(r) - (Two256 - FRED_C) ELSE Value(r))
  <2>1. CASE Value(r) < Value(FIELD_P)
    BY <1>1, <1>2, <1>3, <2>1
  <2>2. CASE ~(Value(r) < Value(FIELD_P))
    BY <1>1, <1>2, <1>3, <2>2
  <2>3. QED  BY <2>1, <2>2
<1>6. FieldFolds!Subtract /\ Field!Subtract
  BY <1>1, <1>4, <1>5 DEF FieldFolds!Subtract, FieldFolds!M, Field!Subtract, Field!M
<1>7. FieldFolds!IInv'
  BY <1>1, <1>6, FoldsAssumed, FieldFolds!SubtractHolds
<1>8. Typing' /\ Emptied' /\ CarriesDie' /\ DroppedLimbsEmpty'
  BY <1>1, <1>5 DEF Typing, Labels, Emptied, CarriesDie, DroppedLimbsEmpty
<1>9. Numeric' /\ FoldsNumber
  BY <1>1, <1>6, <1>7 DEF Numeric, FoldsNumber, Field!Next
<1>10. QED  BY <1>8, <1>9 DEF LInv

-----------------------------------------------------------------------------
(* The steps of scalar.c *)

LEMMA ScalarFirstFoldHolds ==
  ASSUME LInv, ScalarFirstFold PROVE LInv' /\ FoldsNumber
<1>1. /\ modulo = "N" /\ pc = "entered" /\ t \in Limbs8 /\ r \in Limbs4 /\ carry = 0
      /\ carry \in Limb /\ carry <= 1 /\ ScalarFolds!IInv
      /\ modulo' = "N" /\ input' = input /\ r' = r /\ carry' = carry /\ pc' = "folded"
      /\ t' = FoldHigh
  BY DEF LInv, Typing, Emptied, Numeric, DroppedLimbsEmpty, ScalarFirstFold, Go
<1>2. /\ t' \in Limbs8 /\ t'[7] = 0
      /\ Value8(t') = Value(Upper(t)) * C_N + Value(t)
  BY <1>1, FoldHighFacts
<1>3. Folded = Value8(t) /\ FoldsDone = 0 /\ Folded' = Value8(t') /\ FoldsDone' = 1
  BY <1>1 DEF Folded, FoldsDone
<1>4. /\ Folded % Two256 = Value(t) /\ Folded \div Two256 = Value(Upper(t))
      /\ Value8(t') = Value(t) + Value(Upper(t)) * C_N
  <2>1. Folded % Two256 = Value(t) /\ Folded \div Two256 = Value(Upper(t))
    BY <1>1, <1>3, HalvesFacts
  <2>2. PICK lo \in Nat, hi \in Nat, c \in Nat :
          lo = Value(t) /\ hi = Value(Upper(t)) /\ c = C_N
    <3>1. /\ Value(t) \in 0..Two256 - 1 /\ Value(Upper(t)) \in 0..Two256 - 1
          /\ C_N \in Nat
      BY <1>1, HalvesFacts, ModuliFacts
    <3>2. Value(t) \in Nat /\ Value(Upper(t)) \in Nat
      BY <3>1, WordFacts
    <3>3. QED  BY ONLY <3>1, <3>2
  <2>3. hi * c + lo = lo + hi * c
    BY <2>2
  <2>4. QED  BY <1>2, <2>1, <2>2, <2>3
<1>5. Scalar!Fold /\ ScalarFolds!IInv'
  BY <1>1, <1>3, <1>4, ScalarFolding
<1>6. Typing' /\ Emptied' /\ CarriesDie' /\ DroppedLimbsEmpty'
  BY <1>1, <1>2 DEF Typing, Labels, Emptied, CarriesDie, DroppedLimbsEmpty
<1>7. Numeric' /\ FoldsNumber
  BY <1>1, <1>5 DEF Numeric, FoldsNumber, Scalar!Next
<1>8. QED  BY <1>6, <1>7 DEF LInv

\* After the second loop the number is below 2^256 + c_N^2, which leaves at
\* most 2 for the limbs above: t[5], t[6] and t[7] are empty.
LEMMA ScalarSecondFoldHolds ==
  ASSUME LInv, ScalarSecondFold PROVE LInv' /\ FoldsNumber
<1>1. /\ modulo = "N" /\ pc = "folded" /\ t \in Limbs8 /\ r \in Limbs4 /\ carry = 0
      /\ carry \in Limb /\ carry <= 1 /\ ScalarFolds!IInv
      /\ modulo' = "N" /\ input' = input /\ r' = r /\ carry' = carry
      /\ pc' = "foldedTwice" /\ t' = FoldHigh
  BY DEF LInv, Typing, Emptied, Numeric, DroppedLimbsEmpty, ScalarSecondFold, Go
<1>2. t' \in Limbs8 /\ Value8(t') = Value(Upper(t)) * C_N + Value(t)
  BY <1>1, FoldHighFacts
<1>3. Folded = Value8(t) /\ FoldsDone = 1 /\ Folded' = Value8(t') /\ FoldsDone' = 2
  BY <1>1 DEF Folded, FoldsDone
<1>4. /\ Folded % Two256 = Value(t) /\ Folded \div Two256 = Value(Upper(t))
      /\ Value8(t') = Value(t) + Value(Upper(t)) * C_N
  <2>1. Folded % Two256 = Value(t) /\ Folded \div Two256 = Value(Upper(t))
    BY <1>1, <1>3, HalvesFacts
  <2>2. PICK lo \in Nat, hi \in Nat, c \in Nat :
          lo = Value(t) /\ hi = Value(Upper(t)) /\ c = C_N
    <3>1. /\ Value(t) \in 0..Two256 - 1 /\ Value(Upper(t)) \in 0..Two256 - 1
          /\ C_N \in Nat
      BY <1>1, HalvesFacts, ModuliFacts
    <3>2. Value(t) \in Nat /\ Value(Upper(t)) \in Nat
      BY <3>1, WordFacts
    <3>3. QED  BY ONLY <3>1, <3>2
  <2>3. hi * c + lo = lo + hi * c
    BY <2>2
  <2>4. QED  BY <1>2, <2>1, <2>2, <2>3
<1>5. Scalar!Fold /\ ScalarFolds!IInv'
  BY <1>1, <1>3, <1>4, ScalarFolding
<1>6. t'[5] = 0 /\ t'[6] = 0 /\ t'[7] = 0
  <2>1. Folded' < Two256 + C_N * C_N
    BY <1>3, <1>5 DEF ScalarFolds!IInv, ScalarFolds!Narrows
  <2> DEFINE upper == Upper(t')
             low == Value(t')
             high == Value(upper)
  <2>2. low \in 0..Two256 - 1 /\ high \in 0..Two256 - 1 /\ Value8(t') = low + Two256 * high
    BY <1>2, HalvesFacts DEF Value8
  <2> HIDE DEF upper, low, high
  <2>3. low + Two256 * high < Two256 * 3
    <3>1. C_N * C_N \in Int
      BY ModuliFacts
    <3>2. high \in Nat /\ Two256 * high \in Int
      BY <2>2, WordFacts
    <3>3. QED  BY <1>3, <2>1, <2>2, <3>1, <3>2, ScalarAssumption, WordFacts
  <2>4. high < Word
    <3>1. high \in Nat
      BY <2>2, WordFacts
    <3>2. high < 3
      BY <2>2, <2>3, <3>1, CarryBound
    <3>3. QED  BY <3>1, <3>2, WordFacts
  <2>5. QED  BY <1>2, <2>4, SmallAbove DEF high, upper
<1>7. Typing' /\ Emptied' /\ CarriesDie' /\ DroppedLimbsEmpty'
  BY <1>1, <1>2, <1>6 DEF Typing, Labels, Emptied, CarriesDie, DroppedLimbsEmpty
<1>8. Numeric' /\ FoldsNumber
  BY <1>1, <1>5 DEF Numeric, FoldsNumber, Scalar!Next
<1>9. QED  BY <1>7, <1>8 DEF LInv

\* What is above the limb t[4] is empty, and what comes out is below 2N, so
\* that topcarry is one bit.
LEMMA ScalarResidualFoldHolds ==
  ASSUME LInv, ScalarResidualFold PROVE LInv' /\ FoldsNumber
<1>1. /\ modulo = "N" /\ pc = "foldedTwice" /\ t \in Limbs8
      /\ t[5] = 0 /\ t[6] = 0 /\ t[7] = 0 /\ ScalarFolds!IInv
      /\ modulo' = "N" /\ input' = input /\ t' = t /\ pc' = "foldedThrice"
  BY DEF LInv, Typing, Numeric, DroppedLimbsEmpty, ScalarResidualFold, Go
<1>2. /\ r' \in Limbs4 /\ carry' \in Limb
      /\ Value(r') + Two256 * carry' = Value(t) + t[4] * C_N
  BY <1>1, ResidualFoldFacts DEF ScalarResidualFold
<1>3. /\ Folded = Value8(t) /\ FoldsDone = 2
      /\ Folded' = Value(r') + Two256 * carry' /\ FoldsDone' = 3
  BY <1>1 DEF Folded, FoldsDone
<1>4. Folded % Two256 = Value(t) /\ Folded \div Two256 = t[4]
  BY <1>1, <1>3, HalvesFacts, OneLimbAbove
<1>5. Scalar!Fold /\ ScalarFolds!IInv'
  BY <1>1, <1>2, <1>3, <1>4, ScalarFolding
<1>6. carry' <= 1
  <2>1. Folded' < 2 * (Two256 - C_N)
    BY <1>3, <1>5 DEF ScalarFolds!IInv, ScalarFolds!Narrows, ScalarFolds!M
  <2>2. Value(r') \in 0..Two256 - 1 /\ carry' \in Nat /\ Folded' \in Int
    BY <1>2, <1>5, ValueBounds, LimbInt DEF ScalarFolds!IInv, ScalarFolds!TypeOK
  <2>3. Folded' < Two256 * 2
    BY <2>1, <2>2, ModuliFacts, WordFacts
  <2>4. QED  BY <1>3, <2>2, <2>3, CarryBound
<1>7. Typing' /\ Emptied' /\ CarriesDie' /\ DroppedLimbsEmpty'
  BY <1>1, <1>2, <1>6 DEF Typing, Labels, Emptied, CarriesDie, DroppedLimbsEmpty
<1>8. Numeric' /\ FoldsNumber
  BY <1>1, <1>5 DEF Numeric, FoldsNumber, Scalar!Next
<1>9. QED  BY <1>7, <1>8 DEF LInv

\* keep_reduced: with topcarry the number is at least N, although r alone is
\* below it; the difference wraps, and is right.
LEMMA ScalarSubtractHolds ==
  ASSUME LInv, ScalarSubtract PROVE LInv' /\ FoldsNumber
<1> DEFINE diff == uint256_sub(r, CURVE_N)
<1>1. /\ modulo = "N" /\ pc = "foldedThrice" /\ t \in Limbs8 /\ r \in Limbs4
      /\ carry \in Limb /\ carry <= 1 /\ ScalarFolds!IInv
      /\ modulo' = "N" /\ input' = input /\ t' = t /\ carry' = carry /\ pc' = "done"
      /\ r' = IF carry # 0 \/ diff.borrow = 0 THEN diff.d ELSE r
  BY DEF LInv, Typing, DroppedLimbsEmpty, Numeric, ScalarSubtract, Go
<1>2. /\ diff.d \in Limbs4
      /\ diff.borrow = (IF Value(r) < Value(CURVE_N) THEN 1 ELSE 0)
      /\ Value(diff.d) = (IF Value(r) < Value(CURVE_N)
                          THEN (Value(r) - Value(CURVE_N)) + Two256
                          ELSE Value(r) - Value(CURVE_N))
  BY <1>1, ModuliFacts, SubFacts
<1> HIDE DEF diff
<1>3. /\ Value(r) \in 0..Two256 - 1 /\ Two256 \in Nat /\ C_N \in Nat /\ C_N < Two256
      /\ Value(CURVE_N) = Two256 - C_N
  BY <1>1, ValueBounds, WordFacts, ModuliFacts
<1>4. /\ Folded = Value(r) + Two256 * carry /\ FoldsDone = 3
      /\ Folded' = Value(r') /\ FoldsDone' = 4
  BY <1>1 DEF Folded, FoldsDone
<1>5. Folded < 2 * (Two256 - C_N)
  BY <1>1, <1>4 DEF ScalarFolds!IInv, ScalarFolds!Narrows, ScalarFolds!M
<1>6. carry = 0 \/ carry = 1
  BY <1>1, LimbInt
<1>7. r' \in Limbs4 /\ Folded' = (IF Folded >= Two256 - C_N
                                 THEN Folded - (Two256 - C_N) ELSE Folded)
  <2>1. CASE carry = 1
    <3>1. Folded = Value(r) + Two256
      BY <1>3, <1>4, <2>1
    <3>2. Value(r) < Two256 - C_N /\ Folded >= Two256 - C_N
      BY <1>3, <1>5, <3>1
    <3>3. r' = diff.d /\ Value(diff.d) = (Value(r) - (Two256 - C_N)) + Two256
      BY <1>1, <1>2, <1>3, <2>1, <3>2
    <3>4. QED  BY <1>2, <1>3, <1>4, <3>1, <3>2, <3>3
  <2>2. CASE carry = 0 /\ Value(r) < Value(CURVE_N)
    <3>1. Folded = Value(r) /\ r' = r
      BY <1>1, <1>2, <1>3, <1>4, <2>2
    <3>2. QED  BY <1>1, <1>3, <1>4, <2>2, <3>1
  <2>3. CASE carry = 0 /\ ~(Value(r) < Value(CURVE_N))
    <3>1. Folded = Value(r) /\ r' = diff.d
      BY <1>1, <1>2, <1>3, <1>4, <2>3
    <3>2. QED  BY <1>2, <1>3, <1>4, <2>3, <3>1
  <2>4. QED  BY <1>6, <2>1, <2>2, <2>3
<1>8. ScalarFolds!Subtract /\ Scalar!Subtract
  BY <1>1, <1>4, <1>7 DEF ScalarFolds!Subtract, ScalarFolds!M, Scalar!Subtract, Scalar!M
<1>9. ScalarFolds!IInv'
  BY <1>1, <1>8, FoldsAssumed, ScalarFolds!SubtractHolds
<1>10. Typing' /\ Emptied' /\ CarriesDie' /\ DroppedLimbsEmpty'
  BY <1>1, <1>7 DEF Typing, Labels, Emptied, CarriesDie, DroppedLimbsEmpty
<1>11. Numeric' /\ FoldsNumber
  BY <1>1, <1>8, <1>9 DEF Numeric, FoldsNumber, Scalar!Next
<1>12. QED  BY <1>10, <1>11 DEF LInv

-----------------------------------------------------------------------------
(* The theorems *)

LEMMA NextHolds == ASSUME LInv, Next PROVE LInv' /\ FoldsNumber
<1>1. CASE FieldFirstFold
  BY <1>1, FieldFirstFoldHolds
<1>2. CASE FieldSecondFold
  BY <1>2, FieldSecondFoldHolds
<1>3. CASE FieldThirdFold
  BY <1>3, FieldThirdFoldHolds
<1>4. CASE FieldSubtract
  BY <1>4, FieldSubtractHolds
<1>5. CASE ScalarFirstFold
  BY <1>5, ScalarFirstFoldHolds
<1>6. CASE ScalarSecondFold
  BY <1>6, ScalarSecondFoldHolds
<1>7. CASE ScalarResidualFold
  BY <1>7, ScalarResidualFoldHolds
<1>8. CASE ScalarSubtract
  BY <1>8, ScalarSubtractHolds
<1>9. QED
  BY <1>1, <1>2, <1>3, <1>4, <1>5, <1>6, <1>7, <1>8 DEF Next

LEMMA StutterHolds == ASSUME LInv, UNCHANGED vars PROVE LInv'
<1>1. /\ modulo' = modulo /\ input' = input /\ t' = t /\ r' = r
      /\ carry' = carry /\ pc' = pc
  BY DEF vars
<1>2. Folded' = Folded /\ FoldsDone' = FoldsDone
  BY <1>1 DEF Folded, FoldsDone
<1>3. Numeric'
  BY <1>1, <1>2 DEF LInv, Numeric,
     FieldFolds!IInv, FieldFolds!TypeOK, FieldFolds!Congruent, FieldFolds!Narrows,
     FieldFolds!Reduced, FieldFolds!M, ScalarFolds!IInv, ScalarFolds!TypeOK,
     ScalarFolds!Congruent, ScalarFolds!Narrows, ScalarFolds!Reduced, ScalarFolds!M
<1>4. Typing' /\ Emptied' /\ CarriesDie' /\ DroppedLimbsEmpty'
  BY <1>1 DEF LInv, Typing, Emptied, CarriesDie, DroppedLimbsEmpty
<1>5. QED  BY <1>3, <1>4 DEF LInv

\* The limbs, the carries and the number they stand for are in order at every
\* step of both functions.
THEOREM LimbInvariant == Spec => []LInv
<1>1. Init => LInv
  BY EntryHolds
<1>2. LInv /\ [Next]_vars => LInv'
  BY NextHolds, StutterHolds
<1>3. QED  BY <1>1, <1>2, PTL DEF Spec

\* fred_internal: the carry of the second fold is at most 1 and that of the
\* third is 0, as the comments of field.c say, for limbs of any width.
THEOREM CarriesVanish == Spec => []CarriesDie
<1>1. LInv => CarriesDie
  BY DEF LInv
<1>2. QED  BY <1>1, LimbInvariant, PTL

\* scalar_reduce_limbs: the limbs and carries that its loops do not look at are
\* zero, and topcarry is one bit.
THEOREM NothingDropped == Spec => []DroppedLimbsEmpty
<1>1. LInv => DroppedLimbsEmpty
  BY DEF LInv
<1>2. QED  BY <1>1, LimbInvariant, PTL

\* The loops over limbs implement FoldReduce with three folds: every step is a
\* fold, or the subtraction, of the number that the limbs stand for.
THEOREM LimbsFoldNumbers == Spec => FoldsNumbers
<1>1. Init => IF modulo = "P" THEN Field!Init ELSE Scalar!Init
  BY EntryHolds
<1>2. LInv /\ [Next]_vars => [FoldsNumber]_vars
  BY NextHolds
<1>3. QED
  BY <1>1, <1>2, LimbInvariant, PTL DEF Spec, FoldsNumbers, FoldsNumber

\* fmul_internal, fred_internal, scalar_mul_internal and scalar_reduce return
\* the product, or their argument, modulo P or N.
THEOREM LimbsReduce == Spec => []IsReduction
<1>1. LInv => IsReduction
  <2>1. ASSUME LInv, modulo = "P" PROVE IsReduction
    BY <2>1 DEF LInv, Numeric, IsReduction, FieldFolds!IInv, FieldFolds!Reduced,
       FieldFolds!M, Field!Reduced, Field!M
  <2>2. ASSUME LInv, modulo # "P" PROVE IsReduction
    BY <2>2 DEF LInv, Numeric, IsReduction, ScalarFolds!IInv, ScalarFolds!Reduced,
       ScalarFolds!M, Scalar!Reduced, Scalar!M
  <2>3. QED  BY <2>1, <2>2
<1>2. QED  BY <1>1, LimbInvariant, PTL

-----------------------------------------------------------------------------
(* Powers modulo a prime *)

\* A set of natural numbers has a least one.
LEMMA Least ==
  ASSUME NEW T, T \subseteq Nat, T # {}
  PROVE  \E n \in T : \A m \in T : n <= m
<1> DEFINE R == {ss \in Nat \X Nat : ss[1] < ss[2]}
<1>1. IsWellFoundedOn(R, Nat)
  BY NatLessThanWellFounded DEF OpToRel
<1> HIDE DEF R
<1>2. PICK n \in T : \A m \in T : ~ (<<m, n>> \in R)
  BY <1>1, WFMin
<1>3. \A m \in T : ~ (m < n)
  BY <1>2 DEF R
<1>4. QED  BY <1>3


Times(u, v, m) == (u * v) % m

\* Every residue but zero has an inverse: m is prime.
Prime(m) ==
  /\ m \in Nat /\ m > 1
  /\ \A u \in 1..m - 1 : \E v \in 1..m - 1 : Times(u, v, m) = 1

LEMMA TimesFacts ==
  ASSUME NEW m \in Nat, m > 1
  PROVE  /\ 1 \in 0..m - 1
         /\ \A u, v \in 0..m - 1 : Times(u, v, m) \in 0..m - 1 /\ Times(u, v, m) = Times(v, u, m)
         /\ \A u \in 0..m - 1 : Times(1, u, m) = u /\ Times(u, 1, m) = u /\ Times(0, u, m) = 0
         /\ \A u, v, w \in 0..m - 1 :
              Times(Times(u, v, m), w, m) = Times(u, Times(v, w, m), m)
<1>1. m \in Nat \ {0} /\ 1 \in 0..m - 1
  OBVIOUS
<1>2. \A u \in 0..m - 1 : u \in Nat /\ u % m = u /\ 1 * u = u /\ u * 1 = u /\ 0 * u = 0
  OBVIOUS
<1>3. 0 % m = 0
  OBVIOUS
<1>4. \A u, v \in 0..m - 1 : Times(u, v, m) \in 0..m - 1 /\ Times(u, v, m) = Times(v, u, m)
  <2> SUFFICES ASSUME NEW u \in 0..m - 1, NEW v \in 0..m - 1
               PROVE  Times(u, v, m) \in 0..m - 1 /\ Times(u, v, m) = Times(v, u, m)
    OBVIOUS
  <2>1. u * v \in Nat /\ u * v = v * u
    OBVIOUS
  <2>2. \A x \in Nat : x % m \in 0..m - 1
    BY <1>1
  <2>3. QED  BY <2>1, <2>2 DEF Times
<1>5. \A u, v, w \in 0..m - 1 :
        Times(Times(u, v, m), w, m) = Times(u, Times(v, w, m), m)
  <2> SUFFICES ASSUME NEW u \in 0..m - 1, NEW v \in 0..m - 1, NEW w \in 0..m - 1
               PROVE  Times(Times(u, v, m), w, m) = Times(u, Times(v, w, m), m)
    OBVIOUS
  <2>1. /\ u * v \in Nat /\ v * w \in Nat /\ (u * v) * w = u * (v * w)
        /\ u \in Nat /\ w \in Nat /\ u % m = u /\ w % m = w
    BY <1>2
  <2>2. \A x, y \in Nat : ((x % m) * (y % m)) % m = (x * y) % m
    BY <1>1, ModProduct
  <2>3. (((u * v) % m) * w) % m = ((u * v) * w) % m
    BY ONLY <2>1, <2>2
  <2>4. (u * ((v * w) % m)) % m = (u * (v * w)) % m
    BY ONLY <2>1, <2>2
  <2>5. QED  BY <2>1, <2>3, <2>4 DEF Times
<1>6. QED  BY <1>1, <1>2, <1>3, <1>4, <1>5 DEF Times

\* A factor other than zero can be cancelled.
LEMMA Cancelling ==
  ASSUME NEW m, Prime(m), NEW u \in 1..m - 1
  PROVE  /\ \A v, w \in 0..m - 1 : Times(v, u, m) = Times(w, u, m) => v = w
         /\ \A v \in 1..m - 1 : Times(v, u, m) \in 1..m - 1
<1>1. m \in Nat /\ m > 1 /\ \A v \in 1..m - 1 : v \in 0..m - 1
  BY DEF Prime
<1>2. PICK c \in 1..m - 1 : Times(u, c, m) = 1
  BY DEF Prime
<1>3. \A v \in 0..m - 1 : Times(Times(v, u, m), c, m) = v
  <2> SUFFICES ASSUME NEW v \in 0..m - 1 PROVE Times(Times(v, u, m), c, m) = v
    OBVIOUS
  <2>1. Times(Times(v, u, m), c, m) = Times(v, Times(u, c, m), m)
    BY <1>1, TimesFacts
  <2>2. QED  BY <1>1, <1>2, <2>1, TimesFacts
<1>4. \A v, w \in 0..m - 1 : Times(v, u, m) = Times(w, u, m) => v = w
  BY <1>3
<1>5. \A v \in 1..m - 1 : Times(v, u, m) \in 1..m - 1
  <2> SUFFICES ASSUME NEW v \in 1..m - 1 PROVE Times(v, u, m) \in 1..m - 1
    OBVIOUS
  <2>1. /\ Times(v, u, m) \in 0..m - 1 /\ Times(0, u, m) = 0 /\ 0 \in 0..m - 1
        /\ v \in 0..m - 1 /\ v # 0
    BY <1>1, TimesFacts
  <2>2. Times(v, u, m) # 0
    BY <1>4, <2>1
  <2>3. QED  BY <1>1, <2>1, <2>2
<1>6. QED  BY <1>4, <1>5

\* The powers of a residue, further than any exponent of the code goes.
PowersOf(f, u, m) ==
  /\ f \in [0..2 * m -> 0..m - 1]
  /\ f[0] = 1
  /\ \A n \in 1..2 * m : f[n] = Times(f[n - 1], u, m)

LEMMA PowersExist ==
  ASSUME NEW m \in Nat, m > 1, NEW u \in 0..m - 1
  PROVE  \E f : PowersOf(f, u, m)
<1> DEFINE Goes(l) ==
             \E f \in [0..l -> 0..m - 1] :
               f[0] = 1 /\ \A n \in 1..l : f[n] = Times(f[n - 1], u, m)
           T == {l \in Nat : ~Goes(l)}
<1>1. SUFFICES ASSUME T # {} PROVE FALSE
  <2>1. 2 * m \in Nat
    OBVIOUS
  <2>2. QED  BY <2>1 DEF PowersOf
<1>2. PICK l \in T : \A n \in T : l <= n
  <2>1. T \subseteq Nat
    OBVIOUS
  <2> HIDE DEF T
  <2>2. QED  BY <1>1, <2>1, Least
<1>3. Goes(l)
  <2>0. l \in Nat
    BY <1>2
  <2>1. CASE l = 0
    <3> DEFINE f == [n \in 0..0 |-> 1]
    <3>1. f \in [0..0 -> 0..m - 1] /\ f[0] = 1 /\ 1..0 = {}
      OBVIOUS
    <3> HIDE DEF f
    <3>2. QED  BY <2>1, <3>1
  <2>2. CASE l # 0
    <3>1. l - 1 \in Nat /\ l - 1 \notin T
      <4> HIDE DEF T
      <4>1. QED  BY <1>2, <2>0, <2>2
    <3>2. PICK f \in [0..l - 1 -> 0..m - 1] :
            f[0] = 1 /\ \A n \in 1..l - 1 : f[n] = Times(f[n - 1], u, m)
      BY <3>1
    <3> DEFINE g == [n \in 0..l |-> IF n = l THEN Times(f[l - 1], u, m) ELSE f[n]]
    <3>3. g \in [0..l -> 0..m - 1]
      <4>1. l - 1 \in 0..l - 1
        BY <3>1
      <4>2. Times(f[l - 1], u, m) \in 0..m - 1
        BY <3>2, <4>1, TimesFacts
      <4>3. \A n \in 0..l : n # l => n \in 0..l - 1
        BY <3>1
      <4>4. QED  BY <3>2, <4>2, <4>3
    <3>4. g[0] = 1
      BY <2>0, <2>2, <3>2
    <3>5. ASSUME NEW n \in 1..l PROVE g[n] = Times(g[n - 1], u, m)
      <4>1. n \in 0..l /\ n - 1 \in 0..l /\ n - 1 # l
        BY <2>0
      <4>2. g[n - 1] = f[n - 1]
        BY <4>1
      <4>3. g[n] = IF n = l THEN Times(f[l - 1], u, m) ELSE f[n]
        BY <4>1
      <4>4. n # l => n \in 1..l - 1
        BY <2>0
      <4> HIDE DEF g
      <4>5. QED  BY <3>2, <4>2, <4>3, <4>4
    <3> HIDE DEF g
    <3>6. QED  BY <3>3, <3>4, <3>5
  <2>3. QED  BY <2>1, <2>2
<1>4. QED  BY <1>2, <1>3

\* Exponents add.
LEMMA PowerOfSum ==
  ASSUME NEW m \in Nat, m > 1, NEW u \in 0..m - 1, NEW f, PowersOf(f, u, m),
         NEW i \in Nat, NEW j \in Nat, i + j <= 2 * m
  PROVE  f[i + j] = Times(f[i], f[j], m)
<1> DEFINE T == {n \in 0..j : f[i + n] # Times(f[i], f[n], m)}
<1>1. SUFFICES ASSUME T # {} PROVE FALSE
  <2>1. j \in 0..j
    OBVIOUS
  <2>2. QED  BY <2>1
<1>2. PICK l \in T : \A n \in T : l <= n
  <2>1. T \subseteq Nat
    OBVIOUS
  <2> HIDE DEF T
  <2>2. QED  BY <1>1, <2>1, Least
<1>3. /\ f[0] = 1 /\ \A n \in 0..2 * m : f[n] \in 0..m - 1
      /\ \A n \in 1..2 * m : f[n] = Times(f[n - 1], u, m)
  BY DEF PowersOf
<1>4. l \in 0..j /\ i \in 0..2 * m
  OBVIOUS
<1>5. CASE l = 0
  <2>1. i + 0 = i /\ Times(f[i], 1, m) = f[i]
    <3>1. f[i] \in 0..m - 1
      BY <1>3, <1>4
    <3>2. \A v \in 0..m - 1 : Times(v, 1, m) = v
      BY TimesFacts
    <3>3. QED  BY <3>1, <3>2
  <2>2. f[i + l] = Times(f[i], f[l], m)
    BY <1>3, <1>5, <2>1
  <2>3. QED  BY <1>2, <2>2
<1>6. CASE l # 0
  <2>1. /\ l - 1 \in 0..j /\ l - 1 \notin T /\ l \in 1..2 * m /\ i + l \in 1..2 * m
        /\ (i + l) - 1 = i + (l - 1) /\ l - 1 \in 0..2 * m
    BY <1>2, <1>4, <1>6
  <2>2. f[i + (l - 1)] = Times(f[i], f[l - 1], m)
    BY <2>1
  <2>3. f[i + l] = Times(f[i + (l - 1)], u, m) /\ f[l] = Times(f[l - 1], u, m)
    BY <1>3, <2>1
  <2>4. Times(Times(f[i], f[l - 1], m), u, m) = Times(f[i], Times(f[l - 1], u, m), m)
    <3>1. f[i] \in 0..m - 1 /\ f[l - 1] \in 0..m - 1
      BY <1>3, <1>4, <2>1
    <3>2. \A v, w, x \in 0..m - 1 :
            Times(Times(v, w, m), x, m) = Times(v, Times(w, x, m), m)
      BY TimesFacts
    <3>3. QED  BY <3>1, <3>2
  <2>5. f[i + l] = Times(f[i], f[l], m)
    BY <2>2, <2>3, <2>4
  <2>6. QED  BY <1>2, <2>5
<1>7. QED  BY <1>5, <1>6

\* The powers of a square are the squares of the powers.
LEMMA PowerOfSquare ==
  ASSUME NEW m \in Nat, m > 1, NEW u \in 0..m - 1, NEW f, PowersOf(f, u, m),
         NEW g, PowersOf(g, Times(u, u, m), m), NEW j \in 0..2 * m
  PROVE  g[j] = Times(f[j], f[j], m)
<1> DEFINE T == {n \in 0..2 * m : g[n] # Times(f[n], f[n], m)}
           s == Times(u, u, m)
<1>1. SUFFICES ASSUME T # {} PROVE FALSE
  OBVIOUS
<1>2. PICK l \in T : \A n \in T : l <= n
  <2>1. T \subseteq Nat
    OBVIOUS
  <2> HIDE DEF T
  <2>2. QED  BY <1>1, <2>1, Least
<1>3. /\ f[0] = 1 /\ \A n \in 0..2 * m : f[n] \in 0..m - 1
      /\ \A n \in 1..2 * m : f[n] = Times(f[n - 1], u, m)
      /\ g[0] = 1 /\ \A n \in 1..2 * m : g[n] = Times(g[n - 1], s, m)
  BY DEF PowersOf
<1>4. CASE l = 0
  <2>1. 1 = Times(1, 1, m)
    BY TimesFacts
  <2>2. QED  BY <1>2, <1>3, <1>4, <2>1
<1>5. CASE l # 0
  <2>1. l - 1 \in 0..2 * m /\ l - 1 \notin T /\ l \in 1..2 * m
    BY <1>2, <1>5
  <2> DEFINE v == f[l - 1]
  <2>2. g[l] = Times(Times(v, v, m), s, m) /\ f[l] = Times(v, u, m) /\ v \in 0..m - 1
    BY <1>3, <2>1
  <2> HIDE DEF v
  <2>3. Times(Times(v, v, m), Times(u, u, m), m) = Times(Times(v, u, m), Times(v, u, m), m)
    <3>1. Times(v, v, m) \in 0..m - 1 /\ Times(u, u, m) \in 0..m - 1
          /\ Times(v, u, m) \in 0..m - 1 /\ Times(v, u, m) = Times(u, v, m)
      BY <2>2, TimesFacts
    <3>2. Times(Times(v, v, m), Times(u, u, m), m) = Times(v, Times(v, Times(u, u, m), m), m)
      BY <2>2, <3>1, TimesFacts
    <3>3. Times(v, Times(u, u, m), m) = Times(Times(v, u, m), u, m)
      BY <2>2, TimesFacts
    <3>4. Times(Times(v, u, m), u, m) = Times(u, Times(v, u, m), m)
      BY <3>1, TimesFacts
    <3>5. Times(v, Times(u, Times(v, u, m), m), m) = Times(Times(v, u, m), Times(v, u, m), m)
      BY <2>2, <3>1, TimesFacts
    <3>6. QED  BY <3>2, <3>3, <3>4, <3>5
  <2>4. QED  BY <1>2, <2>2, <2>3
<1>6. QED  BY <1>4, <1>5

\* Powers of a residue other than zero are not zero either.
LEMMA PowersAreUnits ==
  ASSUME NEW m, Prime(m), NEW u \in 1..m - 1, NEW f, PowersOf(f, u, m), NEW j \in 0..2 * m
  PROVE  f[j] \in 1..m - 1
<1> DEFINE T == {n \in 0..2 * m : f[n] \notin 1..m - 1}
<1>0. m \in Nat /\ m > 1
  BY DEF Prime
<1>1. SUFFICES ASSUME T # {} PROVE FALSE
  OBVIOUS
<1>2. PICK l \in T : \A n \in T : l <= n
  <2>1. T \subseteq Nat
    OBVIOUS
  <2> HIDE DEF T
  <2>2. QED  BY <1>1, <2>1, Least
<1>3. f[0] = 1 /\ \A n \in 1..2 * m : f[n] = Times(f[n - 1], u, m)
  BY DEF PowersOf
<1>4. CASE l = 0
  BY <1>0, <1>2, <1>3, <1>4
<1>5. CASE l # 0
  <2>1. l - 1 \in 0..2 * m /\ l - 1 \notin T /\ l \in 1..2 * m
    BY <1>0, <1>2, <1>5
  <2>2. f[l - 1] \in 1..m - 1 /\ f[l] = Times(f[l - 1], u, m)
    BY <1>3, <2>1
  <2>3. QED  BY <1>2, <2>2, Cancelling
<1>6. QED  BY <1>4, <1>5

\* Equal powers are a power of 1 apart.
LEMMA PowersApart ==
  ASSUME NEW m, Prime(m), NEW u \in 1..m - 1, NEW f, PowersOf(f, u, m),
         NEW i \in 0..2 * m, NEW j \in 0..2 * m, i < j, f[i] = f[j]
  PROVE  f[j - i] = 1
<1>1. m \in Nat /\ m > 1 /\ u \in 0..m - 1
  BY DEF Prime
<1>2. /\ j - i \in Nat /\ i \in Nat /\ (j - i) + i = j /\ j <= 2 * m /\ j - i \in 0..2 * m
  BY <1>1
<1>3. f[j] = Times(f[j - i], f[i], m)
  <2>1. (j - i) + i <= 2 * m
    BY <1>2
  <2>2. f[(j - i) + i] = Times(f[j - i], f[i], m)
    BY <1>1, <1>2, <2>1, PowerOfSum
  <2>3. QED  BY <1>2, <2>2
<1>4. f[i] \in 1..m - 1 /\ f[j - i] \in 1..m - 1
  BY <1>2, PowersAreUnits
<1>5. f[i] \in 0..m - 1 /\ f[j - i] \in 0..m - 1 /\ 1 \in 0..m - 1
  BY <1>1, <1>4
<1>6. Times(1, f[i], m) = Times(f[j - i], f[i], m)
  BY <1>1, <1>3, <1>5, TimesFacts
<1>7. QED  BY <1>4, <1>5, <1>6, Cancelling

\* A residue other than zero has an order: the least exponent of a power 1.
HasOrder(f, d, m) ==
  d \in 1..m /\ f[d] = 1 /\ \A n \in 1..d - 1 : f[n] # 1

LEMMA OrderExists ==
  ASSUME NEW m, Prime(m), NEW u \in 1..m - 1, NEW f, PowersOf(f, u, m)
  PROVE  \E d : HasOrder(f, d, m)
<1> DEFINE T == {n \in 1..m : f[n] = 1}
<1>0. m \in Nat /\ m > 1 /\ 0..m - 1 \subseteq 0..2 * m
  BY DEF Prime
<1>1. \E i, j \in 0..m - 1 : i # j /\ f[i] = f[j]
  <2> DEFINE g == [n \in 0..m - 1 |-> f[n]]
  <2>1. g \in [0..m - 1 -> 1..m - 1]
    BY <1>0, PowersAreUnits
  <2>2. /\ IsFiniteSet(0..m - 1) /\ Cardinality(0..m - 1) = m
        /\ IsFiniteSet(1..m - 1) /\ Cardinality(1..m - 1) = m - 1
    <3>1. 0 \in Int /\ 1 \in Int /\ m - 1 \in Int /\ ~(0 > m - 1) /\ ~(1 > m - 1)
          /\ (m - 1) - 0 + 1 = m /\ (m - 1) - 1 + 1 = m - 1
      BY <1>0
    <3>2. QED  BY <3>1, FS_Interval
  <2>3. Cardinality(1..m - 1) < Cardinality(0..m - 1)
    BY <1>0, <2>2
  <2> HIDE DEF g
  <2>4. \E i, j \in 0..m - 1 : i # j /\ g[i] = g[j]
    BY <2>1, <2>2, <2>3, FS_PigeonHole
  <2>5. QED  BY <2>4 DEF g
<1>2. \E i, j \in 0..m - 1 : i < j /\ f[i] = f[j]
  <2>1. PICK i \in 0..m - 1, j \in 0..m - 1 : i # j /\ f[i] = f[j]
    BY <1>1
  <2>2. i < j \/ j < i
    BY <1>0, <2>1
  <2>3. QED  BY <2>1, <2>2
<1>3. PICK i \in 0..m - 1, j \in 0..m - 1 : i < j /\ f[i] = f[j]
  BY <1>2
<1>4. j - i \in 1..m /\ f[j - i] = 1
  <2>1. i \in 0..2 * m /\ j \in 0..2 * m
    BY <1>0
  <2>2. f[j - i] = 1
    BY <1>3, <2>1, PowersApart
  <2>3. QED  BY <1>0, <1>3, <2>2
<1>5. PICK d \in T : \A n \in T : d <= n
  <2>1. T \subseteq Nat /\ T # {}
    BY <1>4
  <2> HIDE DEF T
  <2>2. QED  BY <2>1, Least
<1>6. \A n \in 1..d - 1 : n \in 1..m /\ n \notin T
  BY <1>0, <1>5
<1>7. QED  BY <1>5, <1>6 DEF HasOrder

\* The residues that a residue is taken to by the powers of another.
Orbit(f, d, v, m) == {Times(v, f[n], m) : n \in 0..d - 1}

\* It has as many elements as the order says,
LEMMA OrbitSize ==
  ASSUME NEW m, Prime(m), NEW u \in 1..m - 1, NEW f, PowersOf(f, u, m),
         NEW d, HasOrder(f, d, m), NEW v \in 1..m - 1
  PROVE  /\ IsFiniteSet(Orbit(f, d, v, m))
         /\ Cardinality(Orbit(f, d, v, m)) = d
<1> DEFINE S == 0..d - 1
           O == Orbit(f, d, v, m)
           g == [n \in S |-> Times(v, f[n], m)]
<1>0. /\ m \in Nat /\ m > 1 /\ d \in 1..m /\ d \in Nat /\ S \subseteq 0..2 * m
      /\ v \in 0..m - 1
  BY DEF Prime, HasOrder
<1>1. IsFiniteSet(S) /\ Cardinality(S) = d
  <2>1. 0 \in Int /\ d - 1 \in Int /\ ~(0 > d - 1) /\ (d - 1) - 0 + 1 = d
    BY <1>0
  <2>2. QED  BY <2>1, FS_Interval
<1>2. ASSUME NEW i \in S, NEW j \in S, i < j PROVE Times(v, f[i], m) # Times(v, f[j], m)
  <2>1. SUFFICES ASSUME Times(v, f[i], m) = Times(v, f[j], m) PROVE FALSE
    OBVIOUS
  <2>2. i \in 0..2 * m /\ j \in 0..2 * m
    BY <1>0
  <2>3. f[i] \in 0..m - 1 /\ f[j] \in 0..m - 1
    <3>1. f[i] \in 1..m - 1 /\ f[j] \in 1..m - 1
      BY <2>2, PowersAreUnits
    <3>2. QED  BY <1>0, <3>1
  <2>4. Times(f[i], v, m) = Times(f[j], v, m)
    BY <1>0, <2>1, <2>3, TimesFacts
  <2>5. f[i] = f[j]
    BY <2>3, <2>4, Cancelling
  <2>6. f[j - i] = 1
    BY <1>2, <2>2, <2>5, PowersApart
  <2>7. j - i \in 1..d - 1
    BY <1>0, <1>2
  <2>8. QED  BY <2>6, <2>7 DEF HasOrder
<1>3. \A i, j \in S : g[i] = g[j] => i = j
  <2> SUFFICES ASSUME NEW i \in S, NEW j \in S, g[i] = g[j], i # j PROVE FALSE
    OBVIOUS
  <2>1. i < j \/ j < i
    BY <1>0
  <2>2. QED  BY <1>2, <2>1
<1>4. g \in [S -> O] /\ \A y \in O : \E n \in S : g[n] = y
  BY DEF Orbit
<1>5. g \in Bijection(S, O)
  <2> HIDE DEF g, O, S
  <2>1. DOMAIN g = S
    BY <1>4
  <2>2. IsInjective(g)
    BY <1>3, <2>1 DEF IsInjective
  <2>3. g \in Injection(S, O) /\ g \in Surjection(S, O)
    BY <1>4, <2>2 DEF Injection, Surjection
  <2>4. QED  BY <2>3 DEF Bijection
<1>6. ExistsBijection(S, O)
  BY <1>5 DEF ExistsBijection
<1> HIDE DEF O, S
<1>7. IsFiniteSet(O) /\ Cardinality(O) = Cardinality(S)
  BY <1>1, <1>6, FS_Bijection
<1>8. QED  BY <1>1, <1>7 DEF O

\* and what is left of a set that the factor maps into itself is mapped into
\* itself again.
Closed(S, u, m) == \A y \in S : Times(y, u, m) \in S

LEMMA OrbitLeaves ==
  ASSUME NEW m, Prime(m), NEW u \in 1..m - 1, NEW f, PowersOf(f, u, m),
         NEW d, HasOrder(f, d, m),
         NEW S, S \subseteq 1..m - 1, Closed(S, u, m), NEW v \in S
  PROVE  /\ Orbit(f, d, v, m) \subseteq S
         /\ Closed(S \ Orbit(f, d, v, m), u, m)
<1> DEFINE O == Orbit(f, d, v, m)
<1>0. /\ m \in Nat /\ m > 1 /\ d \in 1..m /\ d \in Nat /\ f[d] = 1
      /\ v \in 1..m - 1 /\ v \in 0..m - 1 /\ u \in 0..m - 1
  BY DEF Prime, HasOrder
<1>1. /\ f[0] = 1 /\ \A n \in 0..2 * m : f[n] \in 0..m - 1
      /\ \A n \in 1..2 * m : f[n] = Times(f[n - 1], u, m)
  BY DEF PowersOf
\* The next element of the orbit.
<1>2. \A n \in 1..d : Times(v, f[n], m) = Times(Times(v, f[n - 1], m), u, m)
  <2> SUFFICES ASSUME NEW n \in 1..d
               PROVE  Times(v, f[n], m) = Times(Times(v, f[n - 1], m), u, m)
    OBVIOUS
  <2>1. n \in 1..2 * m /\ n - 1 \in 0..2 * m
    BY <1>0
  <2>2. f[n - 1] \in 0..m - 1 /\ f[n] = Times(f[n - 1], u, m)
    BY <1>1, <2>1
  <2>3. QED  BY <1>0, <2>2, TimesFacts
<1>3. Times(v, f[0], m) = v /\ Times(v, f[d], m) = v
  BY <1>0, <1>1, TimesFacts
<1>4. \A n \in 0..d - 1 : Times(v, f[n], m) \in S
  <2> DEFINE T == {n \in 0..d - 1 : Times(v, f[n], m) \notin S}
  <2>1. SUFFICES ASSUME T # {} PROVE FALSE
    OBVIOUS
  <2>2. PICK l \in T : \A n \in T : l <= n
    <3>1. T \subseteq Nat
      BY <1>0
    <3> HIDE DEF T
    <3>2. QED  BY <2>1, <3>1, Least
  <2>3. CASE l = 0
    BY <1>3, <2>2, <2>3
  <2>4. CASE l # 0
    <3>1. l - 1 \in 0..d - 1 /\ l - 1 \notin T /\ l \in 1..d
      BY <1>0, <2>2, <2>4
    <3>2. Times(v, f[l - 1], m) \in S /\ Times(v, f[l], m) = Times(Times(v, f[l - 1], m), u, m)
      BY <1>2, <3>1
    <3>3. QED  BY <2>2, <3>2 DEF Closed
  <2>5. QED  BY <2>3, <2>4
<1>5. O \subseteq S
  BY <1>4 DEF Orbit
<1>6. ASSUME NEW y \in S \ O PROVE Times(y, u, m) \in S \ O
  <2>1. Times(y, u, m) \in S
    BY DEF Closed
  <2>2. SUFFICES ASSUME Times(y, u, m) \in O PROVE FALSE
    BY <2>1
  <2>3. PICK n \in 0..d - 1 : Times(y, u, m) = Times(v, f[n], m)
    BY <2>2 DEF Orbit
  <2>4. \E j \in 1..d : Times(y, u, m) = Times(v, f[j], m)
    <3>1. CASE n = 0
      <4>1. d \in 1..d
        BY <1>0
      <4>2. Times(y, u, m) = Times(v, f[d], m)
        BY <1>3, <2>3, <3>1
      <4>3. QED  BY <4>1, <4>2
    <3>2. CASE n # 0
      <4>1. n \in 1..d
        BY <1>0, <3>2
      <4>2. QED  BY <2>3, <4>1
    <3>3. QED  BY <3>1, <3>2
  <2>5. PICK j \in 1..d : Times(y, u, m) = Times(v, f[j], m)
    BY <2>4
  <2> DEFINE w == Times(v, f[j - 1], m)
  <2>6. j - 1 \in 0..d - 1 /\ j - 1 \in 0..2 * m
    BY <1>0
  <2>7. w \in O
    BY <2>6 DEF Orbit
  <2>8. Times(y, u, m) = Times(w, u, m)
    BY <1>2, <2>5
  <2>9. w \in 0..m - 1 /\ y \in 0..m - 1
    <3>1. y \in 0..m - 1
      BY <1>0
    <3>2. f[j - 1] \in 0..m - 1
      BY <1>1, <2>6
    <3>3. QED  BY <1>0, <3>1, <3>2, TimesFacts
  <2> HIDE DEF w, O
  <2>10. y = w
    BY <2>8, <2>9, Cancelling
  <2>11. QED  BY <2>7, <2>10
<1>7. QED  BY <1>5, <1>6 DEF Closed

\* So the order divides the number of residues that are not zero,
LEMMA OrderDivides ==
  ASSUME NEW m, Prime(m), NEW u \in 1..m - 1, NEW f, PowersOf(f, u, m),
         NEW d, HasOrder(f, d, m)
  PROVE  \E c \in Nat : m - 1 = d * c
<1> DEFINE Divided(n) == \E c \in Nat : n = d * c
           Counts(n) == \E S : /\ S \subseteq 1..m - 1 /\ Closed(S, u, m)
                               /\ IsFiniteSet(S) /\ Cardinality(S) = n
           T == {n \in Nat : Counts(n) /\ ~Divided(n)}
<1>0. m \in Nat /\ m > 1 /\ d \in 1..m /\ d \in Nat
  BY DEF Prime, HasOrder
<1>1. T = {}
  <2>1. SUFFICES ASSUME T # {} PROVE FALSE
    OBVIOUS
  <2>2. PICK l \in T : \A n \in T : l <= n
    <3>1. T \subseteq Nat
      OBVIOUS
    <3> HIDE DEF T
    <3>2. QED  BY <2>1, <3>1, Least
  <2>3. PICK S : /\ S \subseteq 1..m - 1 /\ Closed(S, u, m)
                 /\ IsFiniteSet(S) /\ Cardinality(S) = l
    BY <2>2
  <2>4. S # {}
    <3>1. SUFFICES ASSUME S = {} PROVE FALSE
      OBVIOUS
    <3>2. l = 0
      BY <2>3, <3>1, FS_EmptySet
    <3>3. 0 = d * 0 /\ 0 \in Nat
      BY <1>0
    <3>4. QED  BY <2>2, <3>2, <3>3
  <2>5. PICK v \in S : TRUE
    BY <2>4
  <2> DEFINE O == Orbit(f, d, v, m)
             rest == S \ O
  <2>6. v \in 1..m - 1
    BY <2>3
  <2>7. IsFiniteSet(O) /\ Cardinality(O) = d
    BY <2>6, OrbitSize
  <2>8. O \subseteq S /\ Closed(rest, u, m)
    BY <2>3, OrbitLeaves
  <2> HIDE DEF O
  <2>9. IsFiniteSet(rest) /\ Cardinality(rest) = l - d /\ Cardinality(rest) \in Nat
    <3>1. S \cap O = O
      BY <2>8
    <3>2. IsFiniteSet(S \ O) /\ Cardinality(S \ O) = Cardinality(S) - Cardinality(S \cap O)
      BY <2>3, FS_Difference
    <3>3. Cardinality(S \ O) \in Nat
      BY <3>2, FS_CardinalityType
    <3>4. QED  BY <2>3, <2>7, <3>1, <3>2, <3>3
  <2>10. rest \subseteq 1..m - 1
    BY <2>3
  <2> HIDE DEF rest
  <2>11. Counts(l - d) /\ l - d \in Nat
    BY <2>3, <2>8, <2>9, <2>10
  <2>12. l - d < l
    BY <1>0, <2>2
  <2>13. Divided(l - d)
    <3> HIDE DEF Divided, Counts
    <3>1. l - d \notin T
      <4> HIDE DEF T
      <4>1. l \in Nat
        BY <2>2 DEF T
      <4>2. QED  BY <1>0, <2>2, <2>12, <4>1
    <3>2. QED  BY <2>11, <3>1
  <2>14. PICK c \in Nat : l - d = d * c
    BY <2>13
  <2>15. l = d * (c + 1) /\ c + 1 \in Nat
    <3>1. d * (c + 1) = d * c + d /\ d * c \in Nat
      BY <1>0
    <3>2. QED  BY <1>0, <2>2, <2>14, <3>1
  <2>16. QED  BY <2>2, <2>15
<1>2. Counts(m - 1)
  <2> DEFINE S == 1..m - 1
  <2>1. IsFiniteSet(S) /\ Cardinality(S) = m - 1
    <3>1. 1 \in Int /\ m - 1 \in Int /\ ~(1 > m - 1) /\ (m - 1) - 1 + 1 = m - 1
      BY <1>0
    <3>2. QED  BY <3>1, FS_Interval
  <2>2. Closed(S, u, m)
    BY Cancelling DEF Closed
  <2> HIDE DEF S
  <2>3. S \subseteq 1..m - 1
    BY DEF S
  <2>4. QED  BY <2>1, <2>2, <2>3
<1>3. m - 1 \in Nat
  BY <1>0
<1>4. QED
  <2> HIDE DEF Counts
  <2>1. QED  BY <1>1, <1>2, <1>3

\* and the power with this number as its exponent is 1: Fermat's theorem.
LEMMA Fermat ==
  ASSUME NEW m, Prime(m), NEW u \in 1..m - 1, NEW f, PowersOf(f, u, m)
  PROVE  f[m - 1] = 1
<1>0. m \in Nat /\ m > 1 /\ u \in 0..m - 1
  BY DEF Prime
<1>1. PICK d : HasOrder(f, d, m)
  BY OrderExists
<1>2. PICK c \in Nat : m - 1 = d * c
  BY <1>1, OrderDivides
<1>3. d \in 1..m /\ d \in Nat /\ f[d] = 1
  BY <1>0, <1>1 DEF HasOrder
<1>4. ASSUME NEW n \in Nat, d * (n + 1) <= m - 1, f[d * n] = 1
      PROVE  f[d * (n + 1)] = 1
  <2>1. d * n \in Nat /\ d * (n + 1) = d * n + d
    BY <1>3
  <2>2. d * n + d <= 2 * m
    <3> DEFINE e == d * n
    <3>1. e \in Nat /\ e + d <= m - 1
      BY <1>4, <2>1
    <3> HIDE DEF e
    <3>2. e + d <= 2 * m
      BY <1>0, <1>3, <3>1
    <3>3. QED  BY <3>2 DEF e
  <2>3. f[d * n + d] = Times(f[d * n], f[d], m)
    BY <1>0, <1>3, <2>1, <2>2, PowerOfSum
  <2>4. Times(1, 1, m) = 1
    BY <1>0, TimesFacts
  <2>5. QED  BY <1>3, <1>4, <2>1, <2>3, <2>4
<1>5. \A n \in 0..c : f[d * n] = 1
  <2> DEFINE T == {n \in 0..c : f[d * n] # 1}
  <2>1. SUFFICES ASSUME T # {} PROVE FALSE
    OBVIOUS
  <2>2. PICK l \in T : \A n \in T : l <= n
    <3>1. T \subseteq Nat
      OBVIOUS
    <3> HIDE DEF T
    <3>2. QED  BY <2>1, <3>1, Least
  <2>3. CASE l = 0
    <3>1. d * 0 = 0 /\ f[0] = 1
      BY <1>3 DEF PowersOf
    <3>2. QED  BY <2>2, <2>3, <3>1
  <2>4. CASE l # 0
    <3>1. l - 1 \in Nat /\ (l - 1) + 1 = l /\ l - 1 \in 0..c /\ l - 1 \notin T
      BY <2>2, <2>4
    <3>2. d * l <= d * c
      <4>1. c - l \in Nat /\ d * c = d * l + d * (c - l)
        BY <1>3
      <4>2. d * (c - l) \in Nat /\ d * l \in Nat
        BY <1>3, <4>1
      <4>3. QED  BY <4>1, <4>2
    <3>3. f[d * (l - 1)] = 1
      BY <3>1
    <3>4. QED  BY <1>2, <1>4, <2>2, <3>1, <3>2, <3>3
  <2>5. QED  BY <2>3, <2>4
<1>6. c \in 0..c
  OBVIOUS
<1>7. QED  BY <1>2, <1>5, <1>6

-----------------------------------------------------------------------------
(* The functions at the boundary to Ruby *)

\* uint256_add
LEMMA AddFacts ==
  ASSUME NEW x \in Limbs4, NEW y \in Limbs4
  PROVE  LET sum == uint256_add(x, y)
         IN  /\ sum.d \in Limbs4 /\ sum.carry \in Nat
             /\ Value(x) + Value(y) = Value(sum.d) + Two256 * sum.carry
<1> DEFINE f == [j \in 0..3 |-> x[j] + y[j]]
<1>1. 1 \in Limb
  BY WordFacts DEF Limb
<1>2. \A j \in 0..3 : f[j] = 1 * x[j] + y[j]
  <2>1. SUFFICES ASSUME NEW j \in 0..3 PROVE f[j] = 1 * x[j] + y[j]
    OBVIOUS
  <2>2. x[j] \in Int /\ y[j] \in Int
    BY LimbInt DEF Limbs4
  <2>3. QED  BY <2>2
<1> HIDE DEF f
<1>3. /\ Chain(f, 0).d \in Limbs4 /\ Chain(f, 0).carry \in Limb
      /\ 1 * Value(x) + Value(y) = Value(Chain(f, 0).d) + Two256 * Chain(f, 0).carry
  BY <1>1, <1>2, MulAddFacts
<1>4. 1 * Value(x) + Value(y) = Value(x) + Value(y)
  BY ValueBounds
<1>5. Chain(f, 0).carry \in Nat
  BY <1>3, LimbInt
<1>6. QED  BY <1>3, <1>4, <1>5 DEF uint256_add, f

\* A modulus of the size of P and N.
LargeModulus(m) == m \in Nat \ {0} /\ m < Two256 /\ Two256 < 2 * m

\* fadd_internal, scalar_add_internal: one correction makes the sum canonical,
\* also where it does not fit four limbs.
LEMMA SumFacts ==
  ASSUME NEW m, LargeModulus(m), NEW x \in 0..m - 1, NEW y \in 0..m - 1
  PROVE  LET sum == uint256_add(FromInt(x), FromInt(y))
             reduced == uint256_sub(sum.d, FromInt(m))
         IN  Value(IF sum.carry = 0 /\ reduced.borrow = 1 THEN sum.d ELSE reduced.d) =
               (x + y) % m
<1> DEFINE sum == uint256_add(FromInt(x), FromInt(y))
           d == sum.d
           c == sum.carry
           reduced == uint256_sub(d, FromInt(m))
           e == reduced.d
           borrow == reduced.borrow
           kept == IF c = 0 /\ borrow = 1 THEN d ELSE e
<1>1. PICK w \in Nat : /\ w = Two256 /\ m < w /\ w < 2 * m
                       /\ m \in Nat \ {0} /\ x \in Nat /\ y \in Nat
                       /\ x \in 0..w - 1 /\ y \in 0..w - 1 /\ m \in 0..w - 1
  BY WordFacts DEF LargeModulus
<1>2. /\ FromInt(x) \in Limbs4 /\ FromInt(y) \in Limbs4 /\ FromInt(m) \in Limbs4
      /\ Value(FromInt(x)) = x /\ Value(FromInt(y)) = y /\ Value(FromInt(m)) = m
  BY <1>1, FromIntFacts
<1>3. d \in Limbs4 /\ c \in Nat /\ x + y = Value(d) + w * c
  BY <1>1, <1>2, AddFacts
<1> HIDE DEF d, c
<1>4. Value(d) \in 0..w - 1
  BY <1>1, <1>3, ValueBounds
<1>5. /\ borrow = (IF Value(d) < m THEN 1 ELSE 0)
      /\ Value(e) = IF Value(d) < m THEN (Value(d) - m) + w ELSE Value(d) - m
  BY <1>1, <1>2, <1>3, SubFacts
<1> HIDE DEF e, borrow
<1>6. c = 0 \/ c = 1
  <2>1. Value(d) + Two256 * c < Two256 * 2
    BY <1>1, <1>3
  <2>2. c < 2
    BY <1>1, <1>3, <1>4, <2>1, CarryBound
  <2>3. QED  BY <1>3, <2>2
<1>7. Value(kept) = IF x + y < m THEN x + y ELSE (x + y) - m
  <2>1. CASE c = 1
    <3>1. x + y = Value(d) + w /\ kept = e
      BY <1>3, <2>1
    <3>2. Value(d) < m /\ ~(x + y < m)
      BY <1>1, <1>4, <3>1
    <3>3. QED  BY <1>1, <1>4, <1>5, <3>1, <3>2
  <2>2. CASE c = 0
    <3>1. x + y = Value(d)
      BY <1>1, <1>3, <1>4, <2>2
    <3>2. CASE x + y < m
      BY <1>5, <2>2, <3>1, <3>2
    <3>3. CASE ~(x + y < m)
      BY <1>5, <2>2, <3>1, <3>3
    <3>4. QED  BY <3>2, <3>3
  <2>3. QED  BY <1>6, <2>1, <2>2
<1> HIDE DEF kept
<1>8. Value(kept) = (x + y) % m
  <2>1. \A q \in Int, s \in 0..m - 1 : x + y = m * q + s => (x + y) % m = s
    <3>1. x + y \in Nat /\ m \in Nat \ {0}
      BY <1>1
    <3>2. QED  BY <3>1, DivModUnique
  <2>2. CASE x + y < m
    <3>1. x + y = m * 0 + (x + y) /\ x + y \in 0..m - 1
      BY <1>1, <2>2
    <3>2. QED  BY <1>7, <2>1, <2>2, <3>1
  <2>3. CASE ~(x + y < m)
    <3>1. x + y = m * 1 + ((x + y) - m) /\ (x + y) - m \in 0..m - 1
      BY <1>1, <2>3
    <3>2. QED  BY <1>7, <2>1, <2>3, <3>1
  <2>4. QED  BY <2>2, <2>3
<1>9. QED  BY <1>8 DEF kept, e, borrow, d, c

\* fsub_internal: the difference that borrowed is m too low.
LEMMA DifferenceFacts ==
  ASSUME NEW m, LargeModulus(m), NEW x \in 0..m - 1, NEW y \in 0..m - 1
  PROVE  LET diff == uint256_sub(FromInt(x), FromInt(y))
             corrected == uint256_add(diff.d, FromInt(m))
         IN  Value(IF diff.borrow = 1 THEN corrected.d ELSE diff.d) =
               IF x >= y THEN x - y ELSE m - (y - x)
<1> DEFINE diff == uint256_sub(FromInt(x), FromInt(y))
           d == diff.d
           borrow == diff.borrow
           corrected == uint256_add(d, FromInt(m))
           e == corrected.d
           c == corrected.carry
<1>1. PICK w \in Nat : /\ w = Two256 /\ m < w /\ w < 2 * m
                       /\ m \in Nat \ {0} /\ x \in Nat /\ y \in Nat
                       /\ x \in 0..w - 1 /\ y \in 0..w - 1 /\ m \in 0..w - 1
  BY WordFacts DEF LargeModulus
<1>2. /\ FromInt(x) \in Limbs4 /\ FromInt(y) \in Limbs4 /\ FromInt(m) \in Limbs4
      /\ Value(FromInt(x)) = x /\ Value(FromInt(y)) = y /\ Value(FromInt(m)) = m
  BY <1>1, FromIntFacts
<1>3. /\ d \in Limbs4 /\ borrow = (IF x < y THEN 1 ELSE 0)
      /\ Value(d) = IF x < y THEN (x - y) + w ELSE x - y
  BY <1>1, <1>2, SubFacts
<1> HIDE DEF d, borrow
<1>4. e \in Limbs4 /\ c \in Nat /\ Value(d) + m = Value(e) + w * c
  BY <1>1, <1>2, <1>3, AddFacts
<1> HIDE DEF e, c
<1>5. CASE x < y
  <2>1. Value(d) + m = w + (m - (y - x)) /\ m - (y - x) \in 0..w - 1
    BY <1>1, <1>3, <1>5
  <2>2. Value(e) \in 0..w - 1
    BY <1>1, <1>4, ValueBounds
  <2>3. Value(e) + w * c = w * 1 + (m - (y - x))
    BY <1>1, <1>4, <2>1
  <2>4. Value(e) = m - (y - x)
    <3> DEFINE u == Value(e)
               v == m - (y - x)
               n == u + w * c
    <3>1. u \in 0..w - 1 /\ v \in 0..w - 1 /\ w \in Nat \ {0} /\ c \in Int /\ u \in Int
      BY <1>1, <1>4, <2>1, <2>2
    <3> HIDE DEF u, v
    <3>2. w * c \in Nat
      BY <1>1, <1>4
    <3>3. n \in Nat /\ n = w * c + u /\ n = w * 1 + v
      BY <2>3, <3>1, <3>2 DEF u, v
    <3> HIDE DEF n
    <3>4. n % w = u /\ n % w = v
      BY <3>1, <3>3, DivModUnique
    <3>5. QED  BY <3>4 DEF u, v
  <2>5. QED  BY <1>1, <1>3, <1>5, <2>4 DEF d, borrow, e
<1>6. CASE ~(x < y)
  BY <1>1, <1>3, <1>6 DEF d, borrow
<1>7. QED  BY <1>5, <1>6

\* fneg_internal
LEMMA NegationFacts ==
  ASSUME NEW m, LargeModulus(m), NEW x \in 0..m - 1
  PROVE  Value(IF FromInt(x) = FromInt(0) THEN FromInt(0)
               ELSE uint256_sub(FromInt(m), FromInt(x)).d) = IF x = 0 THEN 0 ELSE m - x
<1>1. PICK w \in Nat : /\ w = Two256 /\ m < w /\ m \in Nat /\ x \in Nat /\ x < m
                       /\ x \in 0..w - 1 /\ m \in 0..w - 1 /\ 0 \in 0..w - 1
  BY WordFacts DEF LargeModulus
<1>2. /\ FromInt(x) \in Limbs4 /\ FromInt(m) \in Limbs4
      /\ Value(FromInt(x)) = x /\ Value(FromInt(m)) = m /\ Value(FromInt(0)) = 0
  BY <1>1, FromIntFacts
<1>3. Value(uint256_sub(FromInt(m), FromInt(x)).d) = m - x
  <2>1. ~(m < x)
    BY <1>1
  <2>2. QED  BY <1>2, <2>1, SubFacts
<1>4. FromInt(x) = FromInt(0) <=> x = 0
  BY <1>2
<1>5. QED  BY <1>2, <1>3, <1>4

\* Secp256k1.fred: two folds and one subtraction reduce every number of two
\* words.
LEMMA RubyFredFacts ==
  ASSUME NEW x \in Nat, x < Two256 * Two256
  PROVE  LET fold(z) == (z % Two256) + (z \div Two256) * FRED_C
             y == fold(fold(x))
             P == Two256 - FRED_C
         IN  (IF y >= P THEN y - P ELSE y) = x % P
<1> DEFINE R == Two256
           C == FRED_C
           P == R - C
           fold(z) == (z % R) + (z \div R) * C
           x1 == fold(x)
           y == fold(x1)
<1>1. /\ R \in Nat \ {0} /\ C \in Nat \ {0} /\ C < R /\ 4 * C <= R
      /\ C * C \in Nat /\ C * C + 2 * C <= R
  BY WordFacts, ModuliFacts
<1>2. \A z \in Nat : fold(z) \in Nat /\ fold(z) % P = z % P
  BY FoldsAssumed, FieldFolds!FoldCongruent DEF FieldFolds!M
<1>3. \A z, D \in Nat : z < (D + 1) * R => fold(z) <= R - 1 + D * C
  BY FoldsAssumed, FieldFolds!FoldBound
<1> HIDE DEF fold
<1>4. x1 \in Nat /\ y \in Nat /\ y % P = x % P
  BY <1>2
<1> HIDE DEF R, C
<1>5. x1 < (C + 1) * R
  <2> DEFINE D == R - 1
  <2>1. D \in Nat /\ D + 1 = R /\ x < (D + 1) * R
    BY <1>1 DEF R
  <2> HIDE DEF D
  <2>2. x1 <= R - 1 + D * C
    BY <1>3, <2>1
  <2>3. D * C = R * C - C /\ (C + 1) * R = R * C + R /\ R * C \in Nat
    BY <1>1 DEF D
  <2>4. QED  BY <1>1, <1>4, <2>2, <2>3
<1>6. y <= R - 1 + C * C
  BY <1>1, <1>3, <1>4, <1>5
<1>7. y < 2 * P /\ P \in Nat \ {0}
  BY <1>1, <1>4, <1>6
<1> HIDE DEF x1, y, P
<1>8. (IF y >= P THEN y - P ELSE y) = y % P
  <2>1. \A q \in Int, s \in 0..P - 1 : y = P * q + s => y % P = s
    BY <1>4, <1>7, DivModUnique
  <2>2. CASE y >= P
    <3>1. y - P \in 0..P - 1 /\ y = P * 1 + (y - P)
      BY <1>4, <1>7, <2>2
    <3>2. QED  BY <2>1, <2>2, <3>1
  <2>3. CASE ~(y >= P)
    <3>1. y \in 0..P - 1 /\ y = P * 0 + y
      BY <1>4, <1>7, <2>3
    <3>2. QED  BY <2>1, <2>3, <3>1
  <2>4. QED  BY <2>2, <2>3
<1>9. (IF y >= P THEN y - P ELSE y) = x % P
  BY <1>4, <1>8
<1>10. QED  BY <1>9 DEF y, x1, fold, P, R, C

-----------------------------------------------------------------------------
(* The calls, for the modulus of the field and that of the scalars *)

CONSTANTS Bits, Operands, WideOperands, NotInteger, Nil, ArgumentError, TypeError, Pending
VARIABLES op, first, second, ufirst, usecond, bit, power, out, at

Boundary == INSTANCE Wrappers WITH
  P <- Two256 - FRED_C, N <- Two256 - C_N, Numbers <- Operands, WideNumbers <- WideOperands,
  a <- first, b <- second, ua <- ufirst, ub <- usecond, i <- bit, result <- power, pc <- at

\* The operands of a call that has got past the first step are canonical, and
\* those of a product of field elements are as they came.
Unpacked ==
  LET Operand(x) == FromInt(IF op \in {"fmul", "fsqr"} THEN x ELSE x % Boundary!Modulus)
  IN  /\ op \notin Boundary!Reductions
      /\ first \in 0..Two256 - 1 /\ second \in 0..Two256 - 1
      /\ ufirst = Operand(first) /\ usecond = Operand(second)

CallInv ==
  /\ op \in Boundary!Ops /\ NotInteger \notin Int
  /\ first \in {NotInteger} \cup Int /\ second \in {NotInteger} \cup Int
  /\ op \in Boundary!Sums \cup Boundary!Products \/ second = 0
  /\ at \in {"called", "reduced", "loop", "done"}
  /\ at = "reduced" => Unpacked
  /\ at = "loop" => op \in Boundary!Powers
  /\ Boundary!MatchesRuby

\* The wrappers work on the same limbs.
LEMMA SameLimbs ==
  /\ Boundary!Two256 = Two256
  /\ \A x : Boundary!FromInt(x) = FromInt(x) /\ Boundary!Value(x) = Value(x)
  /\ \A x, y : /\ Boundary!uint256_add(x, y) = uint256_add(x, y)
               /\ Boundary!uint256_sub(x, y) = uint256_sub(x, y)
<1>1. /\ \A u : /\ Boundary!Wide(u) = Wide(u) /\ Boundary!Low(u) = Low(u)
                /\ Boundary!High(u) = High(u) /\ Boundary!Borrow(u) = Borrow(u)
      /\ \A d0, d1, d2, d3 : Boundary!Four(d0, d1, d2, d3) = Four(d0, d1, d2, d3)
  BY DEF Boundary!Wide, Wide, Boundary!Low, Low, Boundary!High, High, Boundary!Borrow, Borrow,
         Boundary!Four, Four
<1>2. \A f, c : Boundary!Chain(f, c) = Chain(f, c)
  BY <1>1 DEF Boundary!Chain, Chain
<1>3. \A x, y : Boundary!uint256_add(x, y) = uint256_add(x, y)
  BY <1>2 DEF Boundary!uint256_add, uint256_add
<1>4. \A x, y : Boundary!uint256_sub(x, y) = uint256_sub(x, y)
  BY <1>1 DEF Boundary!uint256_sub, uint256_sub
<1>5. \A x : Boundary!FromInt(x) = FromInt(x)
  BY <1>1 DEF Boundary!FromInt, FromInt
<1>6. \A x : Boundary!Value(x) = Value(x)
  BY DEF Boundary!Value, Value
<1>7. Boundary!Two256 = Two256
  BY DEF Boundary!Two256, Two256
<1>8. QED  BY <1>3, <1>4, <1>5, <1>6, <1>7

LEMMA CallModuli ==
  /\ LargeModulus(Two256 - FRED_C) /\ LargeModulus(Two256 - C_N)
  /\ Two256 - (Two256 - FRED_C) = FRED_C
  /\ Two256 \in Nat \ {0}
<1>1. /\ Two256 \in Nat \ {0} /\ FRED_C \in Nat \ {0} /\ C_N \in Nat \ {0}
      /\ 4 * FRED_C <= Two256 /\ 4 * C_N <= Two256
  BY WordFacts, ModuliFacts, ScalarAssumption
<1>2. QED  BY <1>1 DEF LargeModulus

\* Ruby's fred is the remainder.
LEMMA CallFred ==
  ASSUME NEW x \in Nat, x < Two256 * Two256
  PROVE  Boundary!fred(x) = x % (Two256 - FRED_C)
<1>1. \A z : Boundary!fold(z) = (z % Two256) + (z \div Two256) * FRED_C
  BY SameLimbs, CallModuli DEF Boundary!fold
<1>2. QED  BY <1>1, RubyFredFacts DEF Boundary!fred

LEMMA ReduceOnlyHolds ==
  ASSUME CallInv, Boundary!ReduceOnly PROVE CallInv'
<1>1. /\ at = "called" /\ op \in Boundary!Reductions /\ Boundary!Fits(first)
      /\ out' = first % Boundary!Modulus /\ at' = "done"
      /\ UNCHANGED <<op, first, second>>
  BY DEF Boundary!ReduceOnly, Boundary!Return
<1>2. first % Boundary!Modulus = Boundary!Ruby
  <2>1. CASE op = "fred"
    <3>1. first \in 0..Two256 * Two256 - 1
      BY <1>1, <2>1, SameLimbs DEF Boundary!Fits
    <3>2. first \in Nat /\ first < Two256 * Two256
      BY <3>1, WordFacts
    <3>3. Boundary!Modulus = Two256 - FRED_C
      BY <2>1 DEF Boundary!Modulus, Boundary!OfOrder
    <3>4. Boundary!Ruby = Boundary!fred(first)
      BY <2>1 DEF Boundary!Ruby
    <3>5. QED  BY <3>2, <3>3, <3>4, CallFred
  <2>2. CASE op = "scalar_mod"
    <3>1. first \in Int
      BY <1>1, <2>2 DEF Boundary!Fits, CallInv
    <3>2. Boundary!Modulus = Two256 - C_N
      BY <2>2 DEF Boundary!Modulus, Boundary!OfOrder
    <3> DEFINE m == Two256 - C_N
               x == first % m
    <3>3. m \in Nat \ {0}
      BY CallModuli DEF LargeModulus
    <3> HIDE DEF m
    <3>4. x \in Int /\ ~(x < 0)
      BY <3>1, <3>3
    <3>5. Boundary!Ruby = IF x < 0 THEN x + m ELSE x
      BY <2>2 DEF Boundary!Ruby, m
    <3>6. QED  BY <3>2, <3>4, <3>5 DEF m
  <2>3. QED  BY <1>1, <2>1, <2>2 DEF Boundary!Reductions
<1>3. Boundary!Ruby' = Boundary!Ruby
  BY <1>1 DEF Boundary!Ruby
<1>4. NotInteger \notin {first, second}
  <2>1. first # NotInteger
    BY <1>1, SameLimbs DEF CallInv, Boundary!Fits, Boundary!Reductions
  <2>2. second = 0 /\ 0 \in Int
    BY <1>1 DEF CallInv, Boundary!Reductions, Boundary!Sums, Boundary!Products
  <2>3. QED  BY <2>1, <2>2 DEF CallInv
<1>5. Boundary!MatchesRuby'
  BY <1>1, <1>2, <1>3, <1>4 DEF Boundary!MatchesRuby
<1>6. QED  BY <1>1, <1>5 DEF CallInv

\* What Compute returns, operation by operation.
LEMMA ComputeFacts ==
  ASSUME Unpacked, op \in Boundary!Ops \ Boundary!Powers,
         Boundary!Compute
  PROVE  out' = Boundary!Ruby
<1> DEFINE R == Two256
           P == R - FRED_C
           N == R - C_N
           x == first
           y == second
<1>1. /\ LargeModulus(P) /\ LargeModulus(N) /\ P \in Nat \ {0} /\ N \in Nat \ {0}
      /\ R \in Nat \ {0} /\ x \in 0..R - 1 /\ y \in 0..R - 1
      /\ x \in Nat /\ y \in Nat
  <2>1. x \in 0..R - 1 /\ y \in 0..R - 1
    BY DEF Unpacked
  <2>2. QED  BY <2>1, CallModuli DEF LargeModulus
<1>2. /\ x % P \in 0..P - 1 /\ y % P \in 0..P - 1
      /\ x % N \in 0..N - 1 /\ y % N \in 0..N - 1
  <2> HIDE DEF P, N
  <2>1. QED  BY <1>1
<1>3. /\ x * y \in Nat /\ x * y < R * R /\ x * x \in Nat /\ x * x < R * R
      /\ x + y \in Nat /\ x + y < R * R
  <2> HIDE DEF R
  <2>1. x * y <= (R - 1) * (R - 1) /\ x * x <= (R - 1) * (R - 1) /\ x * y \in Nat /\ x * x \in Nat
    BY <1>1
  <2>2. (R - 1) * (R - 1) = (R * R - R) - (R - 1) /\ R * R \in Nat
    BY <1>1
  <2>3. R >= 64 /\ R * R >= 64 * R
    <3>1. R >= 64
      BY WordFacts DEF R
    <3>2. QED  BY <1>1, <3>1
  <2>4. QED  BY <1>1, <2>1, <2>2, <2>3
<1>4. CASE op = "fadd"
  <2>1. /\ Boundary!Modulus = P /\ ufirst = FromInt(x % P) /\ usecond = FromInt(y % P)
        /\ out' = Value(Boundary!SumInternal(ufirst, usecond))
    BY <1>4, SameLimbs DEF Unpacked, Boundary!Modulus, Boundary!OfOrder, Boundary!Compute,
                Boundary!Return, Boundary!Products
  <2>2. out' = ((x % P) + (y % P)) % P
    BY <1>1, <1>2, <2>1, SameLimbs, SumFacts DEF Boundary!SumInternal
  <2>3. out' = (x + y) % P
    <3> HIDE DEF P
    <3>1. QED  BY <1>1, <2>2, ModSum
  <2>4. QED  BY <1>3, <1>4, <2>3, CallFred DEF Boundary!Ruby
<1>5. CASE op = "scalar_add"
  <2>1. /\ Boundary!Modulus = N /\ ufirst = FromInt(x % N) /\ usecond = FromInt(y % N)
        /\ out' = Value(Boundary!SumInternal(ufirst, usecond))
    BY <1>5, SameLimbs DEF Unpacked, Boundary!Modulus, Boundary!OfOrder, Boundary!Compute,
                Boundary!Return, Boundary!Products
  <2>2. out' = ((x % N) + (y % N)) % N
    BY <1>1, <1>2, <2>1, SameLimbs, SumFacts DEF Boundary!SumInternal
  <2>3. out' = (x + y) % N
    <3> HIDE DEF N
    <3>1. QED  BY <1>1, <2>2, ModSum
  <2>4. QED  BY <1>5, <2>3 DEF Boundary!Ruby
<1>6. CASE op = "fsub"
  <2>1. /\ Boundary!Modulus = P /\ ufirst = FromInt(x % P) /\ usecond = FromInt(y % P)
        /\ out' = Value(Boundary!fsub_internal(ufirst, usecond))
    BY <1>6, SameLimbs DEF Unpacked, Boundary!Modulus, Boundary!OfOrder, Boundary!Compute,
                Boundary!Return, Boundary!Products
  <2>2. out' = IF x % P >= y % P THEN (x % P) - (y % P) ELSE P - ((y % P) - (x % P))
    BY <1>1, <1>2, <2>1, SameLimbs, DifferenceFacts DEF Boundary!fsub_internal
  <2>3. QED  BY <1>6, <2>2 DEF Boundary!Ruby, Boundary!fsub
<1>7. CASE op = "fneg"
  <2>1. /\ Boundary!Modulus = P /\ ufirst = FromInt(x % P)
        /\ out' = Value(Boundary!fneg_internal(ufirst))
    BY <1>7, SameLimbs DEF Unpacked, Boundary!Modulus, Boundary!OfOrder, Boundary!Compute,
                Boundary!Return, Boundary!Products
  <2>2. out' = IF x % P = 0 THEN 0 ELSE P - (x % P)
    BY <1>1, <1>2, <2>1, SameLimbs, NegationFacts DEF Boundary!fneg_internal, Boundary!Zero
  <2>3. QED  BY <1>7, <2>2 DEF Boundary!Ruby, Boundary!fneg
<1>8. CASE op = "fmul"
  <2>1. /\ Boundary!Modulus = P /\ ufirst = FromInt(x) /\ usecond = FromInt(y)
        /\ out' = (Value(ufirst) * Value(usecond)) % P
    BY <1>8, SameLimbs DEF Unpacked, Boundary!Modulus, Boundary!OfOrder, Boundary!Compute,
                Boundary!Return, Boundary!Products, Boundary!mul
  <2>2. out' = (x * y) % P
    BY <1>1, <2>1, FromIntFacts
  <2>3. QED  BY <1>3, <1>8, <2>2, CallFred DEF Boundary!Ruby
<1>9. CASE op = "fsqr"
  <2>1. /\ Boundary!Modulus = P /\ ufirst = FromInt(x)
        /\ out' = (Value(ufirst) * Value(ufirst)) % P
    BY <1>9, SameLimbs DEF Unpacked, Boundary!Modulus, Boundary!OfOrder, Boundary!Compute,
                Boundary!Return, Boundary!Products, Boundary!mul
  <2>2. out' = (x * x) % P
    BY <1>1, <2>1, FromIntFacts
  <2>3. QED  BY <1>3, <1>9, <2>2, CallFred DEF Boundary!Ruby
<1>10. CASE op = "scalar_mul"
  <2>1. /\ Boundary!Modulus = N /\ ufirst = FromInt(x % N) /\ usecond = FromInt(y % N)
        /\ out' = (Value(ufirst) * Value(usecond)) % N
    BY <1>10, SameLimbs DEF Unpacked, Boundary!Modulus, Boundary!OfOrder, Boundary!Compute,
                 Boundary!Return, Boundary!Products, Boundary!mul
  <2>2. x % N \in 0..R - 1 /\ y % N \in 0..R - 1
    <3>1. N < R
      BY <1>1 DEF LargeModulus
    <3> HIDE DEF N, R
    <3>2. QED  BY <1>1, <1>2, <3>1
  <2>3. out' = ((x % N) * (y % N)) % N
    BY <2>1, <2>2, FromIntFacts
  <2>4. out' = (x * y) % N
    <3> HIDE DEF N
    <3>1. QED  BY <1>1, <2>3, ModProduct
  <2>5. QED  BY <1>10, <2>4 DEF Boundary!Ruby
<1>11. op \in {"fadd", "scalar_add", "fsub", "fneg", "fmul", "fsqr", "scalar_mul"}
  BY DEF Boundary!Ops, Boundary!Powers, Boundary!Sums, Boundary!Products,
         Boundary!Reductions, Unpacked
<1>12. QED  BY <1>4, <1>5, <1>6, <1>7, <1>8, <1>9, <1>10, <1>11

LEMMA ComputeHolds ==
  ASSUME CallInv, Boundary!Compute PROVE CallInv'
<1>1. /\ at = "reduced" /\ op \notin Boundary!Powers /\ at' = "done"
      /\ UNCHANGED <<op, first, second>>
  BY DEF Boundary!Compute, Boundary!Return
<1>2. out' = Boundary!Ruby
  BY <1>1, ComputeFacts DEF CallInv
<1>3. Boundary!Ruby' = Boundary!Ruby
  BY <1>1 DEF Boundary!Ruby
<1>4. NotInteger \notin {first, second}
  <2>1. first \in Int /\ second \in Int
    BY <1>1 DEF CallInv, Unpacked
  <2>2. QED  BY <2>1 DEF CallInv
<1>5. Boundary!MatchesRuby'
  BY <1>1, <1>2, <1>3, <1>4 DEF Boundary!MatchesRuby
<1>6. QED  BY <1>1, <1>5 DEF CallInv

LEMMA UnpackHolds ==
  ASSUME CallInv, Boundary!UnpackAndReduce PROVE CallInv'
<1>1. /\ at = "called" /\ at' = "reduced" /\ op \notin Boundary!Reductions
      /\ Boundary!Fits(first) /\ Boundary!Fits(second)
      /\ UNCHANGED <<op, first, second>>
      /\ ufirst' = FromInt(IF op \in {"fmul", "fsqr"} THEN first ELSE first % Boundary!Modulus)
      /\ usecond' = FromInt(IF op \in {"fmul", "fsqr"} THEN second ELSE second % Boundary!Modulus)
  BY SameLimbs DEF Boundary!UnpackAndReduce
<1>2. first \in 0..Two256 - 1 /\ second \in 0..Two256 - 1
  BY <1>1, SameLimbs DEF Boundary!Fits, Boundary!Reductions
<1>3. Boundary!Modulus' = Boundary!Modulus
  BY <1>1 DEF Boundary!Modulus
<1>4. Unpacked'
  BY <1>1, <1>2, <1>3 DEF Unpacked
<1>5. QED  BY <1>1, <1>4 DEF CallInv, Boundary!MatchesRuby

\* What is refused is no integer, or one that is not in range.
LEMMA RefuseHolds ==
  ASSUME CallInv, Boundary!Refuse PROVE CallInv'
<1> DEFINE refused == IF Boundary!Fits(first) THEN second ELSE first
<1>1. /\ at' = "done" /\ UNCHANGED <<op, first, second>>
      /\ ~Boundary!Fits(first) \/ ~Boundary!Fits(second)
      /\ out' = IF refused = NotInteger THEN TypeError ELSE ArgumentError
  BY DEF Boundary!Refuse, Boundary!Return
<1>2. refused \in {first, second} /\ ~Boundary!Fits(refused)
  BY <1>1
<1> HIDE DEF refused
<1>3. CASE refused = NotInteger
  BY <1>1, <1>2, <1>3 DEF CallInv, Boundary!MatchesRuby
<1>4. CASE refused # NotInteger
  <2>1. op # "scalar_mod"
    BY <1>2, <1>4 DEF Boundary!Fits
  <2>2. refused \notin Boundary!InRange \cup {NotInteger}
    BY <1>2, <1>4, <2>1 DEF Boundary!Fits, Boundary!InRange
  <2>3. Boundary!InRange' = Boundary!InRange
    BY <1>1 DEF Boundary!InRange
  <2>4. QED  BY <1>1, <1>2, <1>4, <2>1, <2>2, <2>3 DEF CallInv, Boundary!MatchesRuby
<1>5. QED  BY <1>3, <1>4

LEMMA CallStarts ==
  ASSUME Boundary!NumbersAssumption PROVE Boundary!Init => CallInv
<1>1. SUFFICES ASSUME Boundary!Init PROVE CallInv
  OBVIOUS
<1>2. 0 \in Int
  OBVIOUS
<1>3. /\ op \in Boundary!Ops /\ at = "called" /\ NotInteger \notin Int
      /\ first \in {NotInteger} \cup Int /\ second \in {NotInteger} \cup Int
      /\ op \in Boundary!Sums \cup Boundary!Products \/ second = 0
  BY <1>1, <1>2 DEF Boundary!Init, Boundary!NumbersAssumption
<1>4. QED  BY <1>3 DEF CallInv, Boundary!MatchesRuby

LEMMA CallSteps == CallInv /\ [Boundary!Next]_(Boundary!vars) => CallInv'
<1> SUFFICES ASSUME CallInv, [Boundary!Next]_(Boundary!vars) PROVE CallInv'
  OBVIOUS
<1>1. CASE Boundary!Refuse
  BY <1>1, RefuseHolds
<1>2. CASE Boundary!UnpackAndReduce
  BY <1>2, UnpackHolds
<1>3. CASE Boundary!ReduceOnly
  BY <1>3, ReduceOnlyHolds
<1>4. CASE Boundary!Compute
  BY <1>4, ComputeHolds
<1>5. CASE \/ Boundary!RefuseZero \/ Boundary!StartPower
           \/ Boundary!IterateZero \/ Boundary!IterateOne
           \/ Boundary!ReturnInverse \/ Boundary!ReturnRoot
  <2>1. /\ op \in Boundary!Powers /\ at' \in {"loop", "done"}
        /\ UNCHANGED <<op, first, second>>
    BY <1>5 DEF CallInv, Boundary!RefuseZero, Boundary!StartPower, Boundary!IterateZero,
       Boundary!IterateOne, Boundary!ReturnInverse, Boundary!ReturnRoot,
       Boundary!Return, Boundary!Powers
  <2>2. QED  BY <2>1 DEF CallInv, Boundary!MatchesRuby
<1>6. CASE UNCHANGED Boundary!vars
  BY <1>6 DEF Boundary!vars, CallInv, Unpacked, Boundary!MatchesRuby, Boundary!Modulus,
     Boundary!Ruby, Boundary!InRange
<1>7. QED  BY <1>1, <1>2, <1>3, <1>4, <1>5, <1>6 DEF Boundary!Next

\* The wrappers of field.c and scalar.c return what the Ruby functions they
\* replace return, and raise for nothing but objects that are no integers and
\* integers out of range: each is one correction, product or reduction of
\* operands that are canonical when it needs them so.
\* The field's constant is one limb, the scalars' is below a quarter of 2^256.
THEOREM WrappersMatchRuby ==
  ASSUME Boundary!NumbersAssumption
  PROVE  Boundary!Spec => []Boundary!MatchesRuby
<1>1. Boundary!Init => CallInv
  BY CallStarts
<1>2. CallInv /\ [Boundary!Next]_(Boundary!vars) => CallInv'
  BY CallSteps
<1>3. CallInv => Boundary!MatchesRuby
  BY DEF CallInv
<1>4. QED  BY <1>1, <1>2, <1>3, PTL DEF Boundary!Spec

-----------------------------------------------------------------------------
(* Inverses and square roots *)

\* The moduli are prime and as large as their words, and the exponents have Bits
\* bits.
PowerAssumption ==
  Boundary!ShiftAssumption /\ Boundary!ModuliAssumption /\ Boundary!PrimesAssumption

Residue == first % Boundary!Modulus

\* What the loop has computed when n bits of the exponent are left.
PowerSoFar(n) ==
  \E f : /\ PowersOf(f, Residue, Boundary!Modulus)
         /\ power = f[Boundary!Exponent \div Boundary!Shift(n)]

PowerInv ==
  /\ op \in Boundary!Powers =>
       /\ second = 0
       /\ at \in {"called", "reduced"} => bit = Bits /\ power = 1
       /\ at \in {"reduced", "loop"} =>
            first \in 0..Two256 - 1 /\ ufirst = FromInt(Residue)
       /\ at = "loop" =>
            /\ op # "fsqrt" => Residue # 0
            /\ bit \in 0..Bits
            /\ PowerSoFar(bit)
  /\ Boundary!InverseOrRefusal
  /\ Boundary!RootOrNil

LEMMA ExponentFacts ==
  ASSUME PowerAssumption, op \in Boundary!Powers
  PROVE  LET m == Boundary!Modulus
             e == Boundary!Exponent
         IN  /\ Prime(m) /\ m \in Nat /\ m > 1 /\ m < Two256
             /\ e \in Nat /\ e <= m /\ e < Two256
             /\ op = "fsqrt" => 4 * e = m + 1 /\ m > 2 /\ m = Two256 - FRED_C
             /\ op # "fsqrt" => e = m - 2
<1> DEFINE p == Two256 - FRED_C
           n == Two256 - C_N
           m == Boundary!Modulus
<1>1. /\ p \in 2..Two256 - 1 /\ p % 4 = 3 /\ n \in 2..Two256 - 1 /\ Two256 \in Nat
      /\ \A q \in {p, n} : \A x \in 1..q - 1 : \E y \in 1..q - 1 : (x * y) % q = 1
  BY SameLimbs, CallModuli
     DEF PowerAssumption, Boundary!ModuliAssumption, Boundary!PrimesAssumption
<1>2. m = IF op = "scalar_inv" THEN n ELSE p
  BY DEF Boundary!Modulus, Boundary!OfOrder, Boundary!Powers
<1>3. Boundary!Exponent = IF op = "fsqrt" THEN (p + 1) \div 4 ELSE m - 2
  BY DEF Boundary!Exponent
<1>4. op = "fsqrt" => m = p
  BY <1>2
<1> HIDE DEF p, n, m
<1>5. m \in Nat /\ m > 1 /\ m < Two256
  BY <1>1, <1>2
<1>6. Prime(m)
  BY <1>1, <1>2, <1>5 DEF Prime, Times
<1>7. 4 * ((p + 1) \div 4) = p + 1 /\ (p + 1) \div 4 \in Nat /\ p > 2
  BY <1>1
<1>8. CASE op = "fsqrt"
  BY <1>1, <1>3, <1>4, <1>5, <1>6, <1>7, <1>8 DEF p, m
<1>9. CASE op # "fsqrt"
  BY <1>1, <1>3, <1>5, <1>6, <1>9 DEF m
<1>10. QED  BY <1>8, <1>9

\* The operand after the first step.
LEMMA OperandFacts ==
  ASSUME PowerAssumption, op \in Boundary!Powers,
         first \in 0..Two256 - 1, ufirst = FromInt(Residue)
  PROVE  /\ Residue \in 0..Boundary!Modulus - 1
         /\ Value(ufirst) = Residue
         /\ ufirst = Boundary!Zero <=> Residue = 0
<1> DEFINE m == Boundary!Modulus
<1>1. m \in Nat /\ m > 1 /\ m < Two256 /\ Two256 \in Nat
  BY ExponentFacts, CallModuli
<1> HIDE DEF m
<1>2. \A x \in Nat : x % m \in 0..m - 1
  BY <1>1
<1>3. Residue \in 0..m - 1
  BY <1>1, <1>2 DEF Residue, m
<1>4. Residue \in 0..Two256 - 1 /\ 0 \in 0..Two256 - 1
  BY <1>1, <1>3
<1>5. Value(FromInt(Residue)) = Residue /\ Value(FromInt(0)) = 0
  BY <1>4, FromIntFacts
<1>6. Boundary!Zero = FromInt(0)
  BY SameLimbs DEF Boundary!Zero
<1>7. QED  BY <1>3, <1>5, <1>6 DEF m

\* One bit more of the exponent.
LEMMA BitFacts ==
  ASSUME PowerAssumption, op \in Boundary!Powers, NEW n \in 1..Bits
  PROVE  LET e == Boundary!Exponent
             high == e \div Boundary!Shift(n)
         IN  /\ high \in Nat /\ high <= Boundary!Modulus
             /\ Boundary!uint256_bit(n - 1) \in {0, 1}
             /\ e \div Boundary!Shift(n - 1) = 2 * high + Boundary!uint256_bit(n - 1)
<1> DEFINE e == Boundary!Exponent
           w == Boundary!Shift(n - 1)
           low == e \div w
<1>1. w \in Nat \ {0} /\ Boundary!Shift(n) = 2 * w
  BY DEF PowerAssumption, Boundary!ShiftAssumption
<1>2. e \in Nat /\ e <= Boundary!Modulus /\ Boundary!Modulus \in Nat
  BY ExponentFacts
<1> HIDE DEF e, w
<1>0. \A x \in Nat, y \in Nat \ {0} :
        \E d \in Nat, s \in 0..y - 1 : x = y * d + s /\ x \div y = d /\ x % y = s
  BY DivMod
<1>3. PICK u \in 0..w - 1 : e = w * low + u /\ low \in Nat
  <2>1. PICK d \in Nat, s \in 0..w - 1 : e = w * d + s /\ e \div w = d
    BY <1>0, <1>1, <1>2
  <2>2. low = d
    BY <2>1
  <2> HIDE DEF low
  <2>3. QED  BY <2>1, <2>2
<1>4. PICK h \in Nat, b \in 0..1 : low = 2 * h + b /\ low % 2 = b
  <2>1. 2 \in Nat \ {0} /\ 2 - 1 = 1
    OBVIOUS
  <2> HIDE DEF low
  <2>2. QED  BY <1>0, <1>3, <2>1
<1> HIDE DEF low
<1>5. e = (2 * w) * h + (w * b + u) /\ w * b + u \in 0..2 * w - 1
  <2>1. w * (2 * h + b) = (2 * w) * h + w * b
    BY <1>1
  <2>2. w * b = 0 \/ w * b = w
    BY <1>1
  <2>3. QED  BY <1>1, <1>3, <1>4, <2>1, <2>2
<1>6. e \div (2 * w) = h
  <2>1. 2 * w \in Nat \ {0}
    BY <1>1
  <2>2. QED  BY <1>2, <1>5, <2>1, DivModUnique
<1>7. h <= e
  <2>1. (2 * w) * h = h + (2 * w - 1) * h /\ (2 * w - 1) * h \in Nat
    BY <1>1
  <2> DEFINE x == (2 * w - 1) * h
             y == w * b + u
  <2>2. e = (h + x) + y /\ x \in Nat /\ y \in Nat
    BY <1>1, <1>5, <2>1
  <2> HIDE DEF x, y
  <2>3. QED  BY <2>2
<1>8. Boundary!uint256_bit(n - 1) = b
  BY <1>4 DEF Boundary!uint256_bit, low, e, w
<1>9. e \div Boundary!Shift(n) = h /\ low = e \div Boundary!Shift(n - 1)
  BY <1>1, <1>6 DEF low, w
<1>10. h <= Boundary!Modulus /\ b \in {0, 1}
  BY <1>2, <1>7
<1>11. QED  BY <1>4, <1>8, <1>9, <1>10 DEF e

\* The first turn starts from the power with exponent 0.
LEMMA PowerStarts ==
  ASSUME PowerAssumption, op \in Boundary!Powers, Residue \in 0..Boundary!Modulus - 1,
         power = 1
  PROVE  Bits \in 0..Bits /\ PowerSoFar(Bits)
<1> DEFINE m == Boundary!Modulus
<1>1. PICK f : PowersOf(f, Residue, m)
  BY ExponentFacts, PowersExist
<1>2. Bits \in Nat /\ Boundary!Shift(Bits) = Two256 /\ Two256 \in Nat \ {0}
  BY SameLimbs, CallModuli DEF PowerAssumption, Boundary!ShiftAssumption
<1>3. Boundary!Exponent \div Two256 = 0
  <2>1. \A x, y \in Nat : x < y => x \div y = 0
    <3> SUFFICES ASSUME NEW x \in Nat, NEW y \in Nat, x < y PROVE x \div y = 0
      OBVIOUS
    <3>1. y \in Nat \ {0} /\ 0 \in Int /\ x \in 0..y - 1 /\ x = y * 0 + x
      OBVIOUS
    <3>2. QED  BY <3>1, DivModUnique
  <2>2. QED  BY <1>2, <2>1, ExponentFacts
<1>4. f[0] = 1
  BY <1>1 DEF PowersOf
<1>5. QED  BY <1>1, <1>2, <1>3, <1>4 DEF PowerSoFar

\* A turn squares, and multiplies where the bit is set.
LEMMA PowerGoesOn ==
  ASSUME PowerAssumption, op \in Boundary!Powers, Residue \in 0..Boundary!Modulus - 1,
         Value(ufirst) = Residue, bit \in 0..Bits, PowerSoFar(bit),
         Boundary!IterateZero \/ Boundary!IterateOne
  PROVE  bit' \in 0..Bits /\ PowerSoFar(bit)'
<1> DEFINE m == Boundary!Modulus
           e == Boundary!Exponent
           u == Residue
           h == e \div Boundary!Shift(bit)
           b == Boundary!uint256_bit(bit - 1)
<1>0. bit > 0 /\ bit' = bit - 1 /\ UNCHANGED <<op, first, ufirst>>
  BY DEF Boundary!IterateZero, Boundary!IterateOne
<1>1. bit \in 1..Bits /\ bit' \in 0..Bits
  BY <1>0 DEF PowerAssumption, Boundary!ShiftAssumption
<1>2. PICK f : PowersOf(f, u, m) /\ power = f[h]
  BY DEF PowerSoFar
<1>3. /\ h \in Nat /\ h <= m /\ b \in {0, 1}
      /\ e \div Boundary!Shift(bit - 1) = 2 * h + b
  BY <1>1, BitFacts
<1>4. m \in Nat /\ m > 1 /\ e <= m /\ e \in Nat
  BY ExponentFacts
<1> HIDE DEF h, b, m, e
<1>5. h + h = 2 * h /\ 2 * h <= 2 * m
  BY <1>3, <1>4
<1>6. f[2 * h] = Times(power, power, m)
  <2>1. f[h + h] = Times(f[h], f[h], m)
    BY <1>2, <1>3, <1>4, <1>5, PowerOfSum DEF m
  <2>2. QED  BY <1>2, <1>5, <2>1
<1>7. power' = f[2 * h + b]
  <2>1. CASE Boundary!IterateZero
    <3>1. b = 0 /\ power' = Times(power, power, m)
      BY <2>1 DEF Boundary!IterateZero, Boundary!mul, Times, b, m
    <3>2. 2 * h + 0 = 2 * h
      BY <1>3
    <3>3. QED  BY <1>6, <3>1, <3>2
  <2>2. CASE Boundary!IterateOne
    <3>1. b = 1 /\ power' = Times(Times(power, power, m), u, m)
      BY <2>2, SameLimbs DEF Boundary!IterateOne, Boundary!mul, Times, b, m
    <3>2. 2 * h + 1 \in 1..2 * m /\ (2 * h + 1) - 1 = 2 * h
      <4>1. 2 * h + 1 <= m
        <5>1. bit \in Nat /\ Boundary!Shift(bit - 1) \in Nat \ {0}
          BY <1>1 DEF PowerAssumption, Boundary!ShiftAssumption
        <5>2. e \div Boundary!Shift(bit - 1) <= e
          <6> DEFINE w == Boundary!Shift(bit - 1)
                     l == e \div w
          <6>1. \E x \in 0..w - 1 : e = w * l + x /\ l \in Nat
            <7>1. w \in Nat \ {0} /\ e \in Nat
              BY <1>4, <5>1
            <7> HIDE DEF w, e
            <7>2. PICK d \in Nat, s \in 0..w - 1 : e = w * d + s /\ e \div w = d
              BY ONLY <7>1, DivMod
            <7>3. QED  BY ONLY <7>2
          <6> HIDE DEF l, w
          <6>2. PICK x \in 0..w - 1 : e = w * l + x /\ l \in Nat
            BY <6>1
          <6>3. w \in Nat /\ w - 1 \in Nat
            BY <5>1 DEF w
          <6>4. w * l = l + (w - 1) * l /\ (w - 1) * l \in Nat
            BY <6>2, <6>3
          <6> DEFINE y == (w - 1) * l
          <6>5. e = (l + y) + x /\ y \in Nat /\ x \in Nat
            BY <6>2, <6>3, <6>4
          <6> HIDE DEF y
          <6>6. l <= e
            BY <6>2, <6>5
          <6>7. QED  BY <6>6 DEF l, w
        <5>3. QED  BY <1>3, <1>4, <3>1, <5>2
      <4>2. QED  BY <1>3, <1>4, <4>1
    <3>3. f[2 * h + 1] = Times(f[2 * h], u, m)
      BY <1>2, <3>2 DEF PowersOf
    <3>4. QED  BY <1>6, <3>1, <3>3
  <2>3. QED  BY <2>1, <2>2
<1>8. power' = f[e \div Boundary!Shift(bit')]
  BY <1>0, <1>3, <1>7
<1>9. Boundary!Modulus' = Boundary!Modulus /\ Boundary!Exponent' = Boundary!Exponent
  BY <1>0 DEF Boundary!Modulus, Boundary!Exponent
<1>10. Residue' = Residue
  BY <1>0, <1>9 DEF Residue
<1>11. QED
  BY <1>1, <1>2, <1>8, <1>9, <1>10 DEF PowerSoFar, m, e

\* The loop over the bits of m - 2 ends with the inverse.
LEMMA InverseReturned ==
  ASSUME PowerAssumption, op \in {"finv", "scalar_inv"},
         Residue \in 1..Boundary!Modulus - 1, first \in 0..Two256 - 1,
         PowerSoFar(0)
  PROVE  power \in 0..Boundary!Modulus - 1 /\ Boundary!mul(first, power) = 1
<1> DEFINE m == Boundary!Modulus
           u == Residue
<1>0. op \in Boundary!Powers /\ op # "fsqrt"
  BY DEF Boundary!Powers
<1>1. /\ Prime(m) /\ m \in Nat /\ m > 1 /\ Boundary!Exponent = m - 2
      /\ Boundary!Exponent \in Nat
  BY <1>0, ExponentFacts
<1>2. Boundary!Exponent \div Boundary!Shift(0) = m - 2
  <2>1. \A x \in Nat : x \div 1 = x
    OBVIOUS
  <2>2. QED  BY <1>1, <2>1 DEF PowerAssumption, Boundary!ShiftAssumption
<1>3. PICK f : PowersOf(f, u, m) /\ power = f[m - 2]
  BY <1>2 DEF PowerSoFar
<1>4. u = first % m /\ first \in Nat
  <2>1. Two256 \in Nat
    BY CallModuli
  <2>2. QED  BY <2>1 DEF Residue
<1>5. Boundary!mul(first, power) = (first * power) % m
  BY DEF Boundary!mul
<1>6. u \in 1..m - 1
  OBVIOUS
<1> HIDE DEF m, u
<1>7. u \in 0..m - 1 /\ m - 2 \in 0..2 * m /\ m - 1 \in 1..2 * m /\ (m - 1) - 1 = m - 2
  BY <1>1, <1>6
<1>8. power \in 0..m - 1 /\ power % m = power
  <2>1. power \in 0..m - 1
    BY <1>3, <1>7 DEF PowersOf
  <2>2. QED  BY <1>1, <2>1
<1>9. Times(u, power, m) = 1
  <2>1. Times(power, u, m) = f[m - 1]
    BY <1>3, <1>7 DEF PowersOf
  <2>2. f[m - 1] = 1
    BY <1>1, <1>3, <1>6, Fermat
  <2>3. Times(u, power, m) = Times(power, u, m)
    BY <1>1, <1>7, <1>8, TimesFacts
  <2>4. QED  BY <2>1, <2>2, <2>3
<1>10. (first * power) % m = ((first % m) * (power % m)) % m
  BY <1>1, <1>4, <1>8, ModProduct
<1>11. QED  BY <1>4, <1>5, <1>8, <1>9, <1>10 DEF Times, m

\* The loop over the bits of (P + 1) / 4 ends with a root that is a square
\* itself, if there is a root.
LEMMA RootFound ==
  ASSUME NEW m, Prime(m), NEW e \in Nat, 4 * e = m + 1, m > 2,
         NEW u \in 0..m - 1, NEW f, PowersOf(f, u, m),
         NEW y \in 0..m - 1, Times(y, y, m) = u
  PROVE  /\ f[e] \in 0..m - 1 /\ Times(f[e], f[e], m) = u
         /\ \E z \in 0..m - 1 : Times(z, z, m) = f[e]
<1>1. m \in Nat /\ m > 1 /\ e > 0
  BY DEF Prime
<1>2. PICK h : PowersOf(h, y, m)
  BY <1>1, PowersExist
<1>3. e \in 0..2 * m /\ 2 * e \in 0..2 * m /\ e + e = 2 * e /\ 2 * e + 2 * e = m + 1
      /\ (m - 1) + 2 = m + 1 /\ m - 1 \in Nat /\ m + 1 <= 2 * m /\ 2 * e <= 2 * m
      /\ e - 1 \in 0..2 * m /\ e \in 1..2 * m
  BY <1>1
<1>4. f[e] \in 0..m - 1 /\ h[e] \in 0..m - 1 /\ h[2 * e] \in 0..m - 1 /\ f[e - 1] \in 0..m - 1
  BY <1>2, <1>3 DEF PowersOf
<1>5. f[e] = Times(h[e], h[e], m)
  BY <1>1, <1>2, <1>3, PowerOfSquare
<1>6. Times(f[e], f[e], m) = u
  <2>1. CASE y = 0
    <3>1. u = 0
      BY <1>1, <2>1, TimesFacts
    <3>2. f[e] = Times(f[e - 1], 0, m)
      BY <1>3, <3>1 DEF PowersOf
    <3>3. 0 \in 0..m - 1 /\ \A v, w \in 0..m - 1 : Times(v, w, m) = Times(w, v, m)
      BY <1>1, TimesFacts
    <3>4. \A v \in 0..m - 1 : Times(0, v, m) = 0
      BY <1>1, TimesFacts
    <3>5. f[e] = 0
      BY <1>4, <3>2, <3>3, <3>4
    <3>6. QED  BY <3>1, <3>3, <3>4, <3>5
  <2>2. CASE y # 0
    <3>1. y \in 1..m - 1
      BY <1>1, <2>2
    <3>2. h[2 * e] = f[e]
      <4>1. h[e + e] = Times(h[e], h[e], m)
        BY <1>1, <1>2, <1>3, PowerOfSum
      <4>2. QED  BY <1>3, <1>5, <4>1
    <3>3. Times(f[e], f[e], m) = h[m + 1]
      <4>1. 2 * e \in Nat /\ 2 * e + 2 * e <= 2 * m
        BY <1>3
      <4>2. h[2 * e + 2 * e] = Times(h[2 * e], h[2 * e], m)
        BY <1>1, <1>2, <4>1, PowerOfSum
      <4>3. QED  BY <1>3, <3>2, <4>2
    <3>4. h[m + 1] = Times(h[m - 1], h[2], m)
      <4>1. 2 \in Nat /\ (m - 1) + 2 <= 2 * m
        BY <1>3
      <4>2. h[(m - 1) + 2] = Times(h[m - 1], h[2], m)
        BY <1>1, <1>2, <1>3, <4>1, PowerOfSum
      <4>3. QED  BY <1>3, <4>2
    <3>5. h[m - 1] = 1
      BY <1>2, <3>1, Fermat
    <3>6. h[2] = u
      <4>1. 1 \in 1..2 * m /\ 2 \in 1..2 * m /\ 1 - 1 = 0 /\ 2 - 1 = 1
        BY <1>1
      <4>2. h[0] = 1 /\ h[1] = Times(h[0], y, m) /\ h[2] = Times(h[1], y, m)
        BY <1>2, <4>1 DEF PowersOf
      <4>3. Times(1, y, m) = y
        BY <1>1, TimesFacts
      <4>4. QED  BY <4>2, <4>3
    <3>7. Times(1, u, m) = u
      BY <1>1, TimesFacts
    <3>8. QED  BY <3>3, <3>4, <3>5, <3>6, <3>7
  <2>3. QED  BY <2>1, <2>2
<1>7. QED  BY <1>4, <1>5, <1>6

\* What ReturnRoot returns.
LEMMA RootReturned ==
  ASSUME PowerAssumption, op = "fsqrt", Residue \in 0..Boundary!Modulus - 1,
         PowerSoFar(0)
  PROVE  LET m == Boundary!Modulus
             sq(v) == Times(v, v, m)
         IN  IF \E y \in 0..m - 1 : sq(y) = Residue
             THEN /\ sq(power) = Residue /\ power \in 0..m - 1
                  /\ \E z \in 0..m - 1 : sq(z) = power
             ELSE sq(power) # Residue
<1> DEFINE m == Boundary!Modulus
           e == Boundary!Exponent
           u == Residue
<1>0. op \in Boundary!Powers
  BY DEF Boundary!Powers
<1>1. Prime(m) /\ m \in Nat /\ m > 2 /\ e \in Nat /\ 4 * e = m + 1
  BY <1>0, ExponentFacts
<1>2. e \div Boundary!Shift(0) = e
  <2>1. \A x \in Nat : x \div 1 = x
    OBVIOUS
  <2>2. QED  BY <1>1, <2>1 DEF PowerAssumption, Boundary!ShiftAssumption
<1>3. PICK f : PowersOf(f, u, m) /\ power = f[e]
  BY <1>2 DEF PowerSoFar
<1>4. u \in 0..m - 1
  OBVIOUS
<1> HIDE DEF m, e, u
<1>5. power \in 0..m - 1
  <2>1. e \in 0..2 * m
    BY <1>1
  <2>2. QED  BY <1>3, <2>1 DEF PowersOf
<1>6. CASE \E y \in 0..m - 1 : Times(y, y, m) = u
  <2>1. PICK y \in 0..m - 1 : Times(y, y, m) = u
    BY <1>6
  <2>2. /\ Times(power, power, m) = u
        /\ \E z \in 0..m - 1 : Times(z, z, m) = power
    BY <1>1, <1>3, <1>4, <2>1, RootFound
  <2>3. QED  BY <1>5, <1>6, <2>2 DEF m, u
<1>7. CASE ~ \E y \in 0..m - 1 : Times(y, y, m) = u
  <2>1. Times(power, power, m) # u
    BY <1>5, <1>7
  <2>2. QED  BY <1>7, <2>1 DEF m, u
<1>8. QED  BY <1>6, <1>7

\* How the steps of a power keep the invariant.
LEMMA PowerHolds ==
  ASSUME PowerAssumption, CallInv, PowerInv, Boundary!Next
  PROVE  PowerInv'
<1>0. op' = op /\ first' = first /\ second' = second
  BY DEF Boundary!Next, Boundary!Refuse, Boundary!UnpackAndReduce, Boundary!ReduceOnly,
     Boundary!Compute, Boundary!RefuseZero, Boundary!StartPower, Boundary!IterateZero,
     Boundary!IterateOne, Boundary!ReturnInverse, Boundary!ReturnRoot
<1>1. /\ Boundary!Modulus' = Boundary!Modulus /\ Residue' = Residue
      /\ Boundary!Fits(first)' = Boundary!Fits(first)
  BY <1>0 DEF Boundary!Modulus, Residue, Boundary!Fits
<1>2. CASE op \notin Boundary!Powers
  <2>1. op \notin {"finv", "scalar_inv", "fsqrt"}
    BY <1>2 DEF Boundary!Powers
  <2>2. QED
    BY <1>0, <1>2, <2>1 DEF PowerInv, Boundary!InverseOrRefusal, Boundary!RootOrNil
<1>3. CASE op \in Boundary!Powers
  <2>0. /\ second = 0 /\ Two256 \in Nat \ {0}
        /\ op \notin {"fmul", "fsqr", "fred", "scalar_mod"} /\ op \notin Boundary!Reductions
        /\ Boundary!Two256 = Two256
    BY <1>3, SameLimbs, CallModuli DEF PowerInv, Boundary!Powers, Boundary!Reductions
  \* A step that does not answer leaves the two properties without a claim.
  <2>1. at' # "done" => (Boundary!InverseOrRefusal /\ Boundary!RootOrNil)'
    BY DEF Boundary!InverseOrRefusal, Boundary!RootOrNil
  <2>2. CASE Boundary!Refuse
    <3>1. Boundary!Fits(second)
      BY <2>0 DEF Boundary!Fits
    <3>2. at' = "done" /\ ~Boundary!Fits(first)
      BY <2>2, <3>1 DEF Boundary!Refuse, Boundary!Return
    <3>3. QED
      BY <1>0, <1>1, <2>0, <3>2
         DEF PowerInv, Boundary!InverseOrRefusal, Boundary!RootOrNil
  <2>3. CASE Boundary!UnpackAndReduce
    <3>1. /\ at = "called" /\ at' = "reduced" /\ Boundary!Fits(first)
          /\ ufirst' = FromInt(first % Boundary!Modulus)
          /\ UNCHANGED <<bit, power>>
      BY <2>0, <2>3, SameLimbs DEF Boundary!UnpackAndReduce
    <3>2. first \in 0..Two256 - 1
      BY <2>0, <3>1 DEF Boundary!Fits
    <3>3. bit = Bits /\ power = 1
      BY <1>3, <3>1 DEF PowerInv
    <3>4. QED
      BY <1>0, <1>1, <2>0, <2>1, <3>1, <3>2, <3>3 DEF PowerInv, Residue
  <2>4. CASE Boundary!ReduceOnly \/ Boundary!Compute
    BY <1>3, <2>0, <2>4 DEF Boundary!ReduceOnly, Boundary!Compute
  <2>5. ASSUME at \in {"reduced", "loop"}
        PROVE  /\ first \in 0..Two256 - 1 /\ ufirst = FromInt(Residue)
               /\ Residue \in 0..Boundary!Modulus - 1
               /\ Value(ufirst) = Residue
               /\ ufirst = Boundary!Zero <=> Residue = 0
    <3>1. first \in 0..Two256 - 1 /\ ufirst = FromInt(Residue)
      BY <1>3, <2>5 DEF PowerInv
    <3>2. QED  BY <1>3, <3>1, OperandFacts
  <2>6. CASE Boundary!RefuseZero
    <3>1. /\ at = "reduced" /\ op \in {"finv", "scalar_inv"} /\ ufirst = Boundary!Zero
          /\ out' = ArgumentError /\ at' = "done"
      BY <2>6 DEF Boundary!RefuseZero, Boundary!IsZero, Boundary!Return
    <3>2. first % Boundary!Modulus = 0
      BY <2>5, <3>1 DEF Residue
    <3>3. (Boundary!InverseOrRefusal /\ Boundary!RootOrNil)'
      BY <1>0, <1>1, <3>1, <3>2 DEF Boundary!InverseOrRefusal, Boundary!RootOrNil
    <3>4. QED  BY <1>0, <2>0, <3>1, <3>3 DEF PowerInv
  <2>7. CASE Boundary!StartPower
    <3>1. /\ at = "reduced" /\ at' = "loop"
          /\ op # "fsqrt" => ufirst # Boundary!Zero
          /\ UNCHANGED <<ufirst, bit, power>>
      BY <2>7 DEF Boundary!StartPower, Boundary!IsZero
    <3>2. bit = Bits /\ power = 1
      BY <1>3, <3>1 DEF PowerInv
    <3>3. Bits \in 0..Bits /\ PowerSoFar(Bits)
      BY <1>3, <2>5, <3>1, <3>2, PowerStarts
    <3>4. bit' \in 0..Bits /\ PowerSoFar(bit)'
      <4>1. Boundary!Exponent' = Boundary!Exponent
        BY <1>0, <1>1 DEF Boundary!Exponent
      <4>2. QED  BY <1>1, <3>1, <3>2, <3>3, <4>1 DEF PowerSoFar
    <3>5. op # "fsqrt" => Residue # 0
      BY <2>5, <3>1
    <3>6. QED
      BY <1>0, <1>1, <2>0, <2>1, <2>5, <3>1, <3>4, <3>5 DEF PowerInv
  <2>8. ASSUME at = "loop"
        PROVE  /\ op # "fsqrt" => Residue # 0
               /\ bit \in 0..Bits /\ PowerSoFar(bit)
    BY <1>3, <2>8 DEF PowerInv
  <2>9. CASE Boundary!IterateZero \/ Boundary!IterateOne
    <3>1. at = "loop" /\ at' = "loop" /\ ufirst' = ufirst
      BY <2>9 DEF Boundary!IterateZero, Boundary!IterateOne
    <3>2. bit' \in 0..Bits /\ PowerSoFar(bit)'
      BY <1>3, <2>5, <2>8, <2>9, <3>1, PowerGoesOn
    <3>3. QED
      BY <1>0, <1>1, <2>0, <2>1, <2>5, <2>8, <3>1, <3>2 DEF PowerInv
  <2>10. CASE Boundary!ReturnInverse
    <3>1. at = "loop" /\ bit = 0 /\ op # "fsqrt" /\ at' = "done" /\ out' = power
      BY <2>10 DEF Boundary!ReturnInverse, Boundary!Return
    <3>2. op \in {"finv", "scalar_inv"}
      BY <1>3, <3>1 DEF Boundary!Powers
    <3>3. Residue \in 1..Boundary!Modulus - 1
      <4>1. Residue \in 0..Boundary!Modulus - 1 /\ Residue # 0
        BY <2>5, <2>8, <3>1
      <4>2. Boundary!Modulus \in Nat
        BY <1>3, ExponentFacts
      <4>3. QED  BY <4>1, <4>2
    <3>4. power \in 0..Boundary!Modulus - 1 /\ Boundary!mul(first, power) = 1
      BY <2>5, <2>8, <3>1, <3>2, <3>3, InverseReturned
    <3>5. /\ out' \in 0..Boundary!Modulus - 1 /\ Boundary!mul(first, out)' = 1
          /\ first % Boundary!Modulus # 0
      BY <1>0, <1>1, <3>1, <3>3, <3>4 DEF Boundary!mul, Residue
    <3>6. (Boundary!InverseOrRefusal /\ Boundary!RootOrNil)'
      BY <1>0, <1>1, <3>1, <3>5 DEF Boundary!InverseOrRefusal, Boundary!RootOrNil
    <3>7. QED  BY <1>0, <2>0, <3>1, <3>6 DEF PowerInv
  <2>11. CASE Boundary!ReturnRoot
    <3> DEFINE m == Boundary!Modulus
               p == Two256 - FRED_C
               sq(v) == Times(v, v, m)
    <3>1. /\ at = "loop" /\ bit = 0 /\ op = "fsqrt" /\ at' = "done"
          /\ out' = IF sq(power) = Residue THEN power ELSE Nil
      BY <2>5, <2>11, SameLimbs
         DEF Boundary!ReturnRoot, Boundary!Return, Boundary!mul, Times
    <3>2. IF \E y \in 0..m - 1 : sq(y) = Residue
          THEN /\ sq(power) = Residue /\ power \in 0..m - 1
               /\ \E z \in 0..m - 1 : sq(z) = power
          ELSE sq(power) # Residue
      BY <2>5, <2>8, <3>1, RootReturned
    <3>3. m = p /\ m' = p
      BY <1>0, <1>1, <1>3, <3>1, ExponentFacts
    <3>4. \A v : Boundary!mul(v, v) = sq(v) /\ Boundary!mul(v, v)' = sq(v)
      BY <1>1 DEF Boundary!mul, Times
    <3>5. Residue = first % p
      BY <3>3 DEF Residue
    <3> HIDE DEF sq, p, m
    <3>6. IF \E y \in 0..p - 1 : sq(y) = first % p
          THEN /\ out' \in 0..p - 1 /\ sq(out') = first % p
               /\ \E z \in 0..p - 1 : sq(z) = out'
          ELSE out' = Nil
      BY <3>1, <3>2, <3>3, <3>5
    <3>7. Boundary!RootOrNil'
      BY <1>0, <3>3, <3>4, <3>6 DEF Boundary!RootOrNil, Boundary!mul, p, m, sq, Times
    <3>8. Boundary!InverseOrRefusal'
      BY <1>0, <3>1 DEF Boundary!InverseOrRefusal
    <3>9. QED  BY <1>0, <2>0, <3>1, <3>7, <3>8 DEF PowerInv
  <2>12. QED
    BY <2>2, <2>3, <2>4, <2>6, <2>7, <2>9, <2>10, <2>11 DEF Boundary!Next
<1>4. QED  BY <1>2, <1>3

LEMMA PowerBegins ==
  ASSUME Boundary!Init PROVE PowerInv
<1>1. op \in Boundary!Powers => second = 0
  BY DEF Boundary!Init, Boundary!Powers, Boundary!Sums, Boundary!Products
<1>2. at = "called" /\ bit = Bits /\ power = 1
  BY DEF Boundary!Init
<1>3. QED
  BY <1>1, <1>2 DEF PowerInv, Boundary!InverseOrRefusal, Boundary!RootOrNil

\* What the two theorems share.
LEMMA PowerInvariant ==
  ASSUME Boundary!NumbersAssumption, PowerAssumption
  PROVE  Boundary!Spec => [](CallInv /\ PowerInv)
<1>1. Boundary!Init => CallInv /\ PowerInv
  BY CallStarts, PowerBegins
<1>2. CallInv /\ [Boundary!Next]_(Boundary!vars) => CallInv'
  BY CallSteps
<1>3. CallInv /\ PowerInv /\ [Boundary!Next]_(Boundary!vars) => PowerInv'
  <2> SUFFICES ASSUME CallInv, PowerInv, UNCHANGED Boundary!vars PROVE PowerInv'
    BY PowerHolds
  <2>1. QED
    BY DEF Boundary!vars, PowerInv, PowerSoFar, Residue, Boundary!Modulus,
       Boundary!Exponent, Boundary!InverseOrRefusal, Boundary!RootOrNil, Boundary!Fits,
       Boundary!mul
<1>4. QED  BY <1>1, <1>2, <1>3, PTL DEF Boundary!Spec

\* finv and scalar_inv return the inverse, and raise ArgumentError for the
\* multiples of the modulus only: the power with the exponent m - 2, computed bit
\* by bit, is the inverse for every prime (Fermat).
THEOREM InversesAreInverses ==
  ASSUME Boundary!NumbersAssumption, PowerAssumption
  PROVE  Boundary!Spec => []Boundary!InverseOrRefusal
<1>1. PowerInv => Boundary!InverseOrRefusal
  BY DEF PowerInv
<1>2. QED  BY <1>1, PowerInvariant, PTL

\* fsqrt returns nil just when its operand has no square root, and otherwise the
\* root that is a square itself, for every prime that is 3 modulo 4.
THEOREM RootsAreRoots ==
  ASSUME Boundary!NumbersAssumption, PowerAssumption
  PROVE  Boundary!Spec => []Boundary!RootOrNil
<1>1. PowerInv => Boundary!RootOrNil
  BY DEF PowerInv
<1>2. QED  BY <1>1, PowerInvariant, PTL

=============================================================================
