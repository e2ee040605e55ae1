----------------------- MODULE DirectorySearch_proofs -----------------------
(***************************************************************************)
(* Proof that the search for the highest log is exact and keeps only       *)
(* siblings on its stack.                                                  *)
(*                                                                         *)
(* A leaf's way is the sequence of directories that lead to it, one per    *)
(* depth.  Every log that counts is ahead of the search: its way goes      *)
(* through a pending directory or through what is left of the one being    *)
(* read; and the ways through the stack are in the order of their leaves.  *)
(***************************************************************************)
EXTENDS DirectorySearch, SequenceTheorems, WellFoundedInduction, TLAPS

-----------------------------------------------------------------------------
(* Numbers. *)

(* A nonempty set of natural numbers has a least element. *)
LEMMA LeastNat ==
  ASSUME NEW T \in SUBSET Nat, T # {}
  PROVE  \E x \in T : \A y \in T : x <= y
<1>1. PICK x \in T : \A y \in T : ~ (<<y, x>> \in OpToRel(<, Nat))
  BY WFMin, NatLessThanWellFounded, Zenon
<1>2. \A y \in T : ~ (y < x)
  BY <1>1 DEF OpToRel
<1>3. QED
  BY <1>2

LEMMA Constants ==
  /\ Radix \in Nat /\ Radix >= 2 /\ Radix \in Nat \ {0}
  /\ Depth \in Nat /\ Depth >= 1 /\ MAX_FILE \in Nat
BY SearchAssumption

LEMMA Products ==
  ASSUME NEW a \in Nat, NEW b \in Nat, NEW c \in Nat
  PROVE  /\ a * b \in Nat /\ a * b = b * a /\ a * (b * c) = (a * b) * c
         /\ (a + b) * c = a * c + b * c
         /\ a <= b => a * c <= b * c
<1>1. /\ a * b \in Nat /\ a * b = b * a /\ a * (b * c) = (a * b) * c
      /\ (a + b) * c = a * c + b * c
  OBVIOUS
<1>2. ASSUME a <= b PROVE a * c <= b * c
  <2>1. PICK d \in Nat : b = a + d
    BY <1>2
  <2>2. b * c = a * c + d * c /\ d * c \in Nat /\ a * c \in Nat
    BY <2>1
  <2>3. QED
    BY <2>2
<1>3. QED
  BY <1>1, <1>2

LEMMA Quotient ==
  ASSUME NEW s \in Nat, NEW R \in Nat \ {0}
  PROVE  /\ s \div R \in Nat /\ (s % R) \in 0 .. R - 1
         /\ s = (s \div R) * R + (s % R)
OBVIOUS

(* The quotient is the one number that fits. *)
LEMMA QuotientUnique ==
  ASSUME NEW s \in Nat, NEW R \in Nat \ {0}, NEW q \in Nat, q * R <= s, s < q * R + R
  PROVE  s \div R = q
<1> DEFINE g == s \div R
           m == s % R
<1>1. g \in Nat /\ m \in 0..R - 1 /\ s = g * R + m
  BY Quotient
<1> HIDE DEF g, m
<1>2. /\ g * R \in Nat /\ q * R \in Nat /\ (g + 1) * R = g * R + R /\ (q + 1) * R = q * R + R
      /\ g + 1 <= q => (g + 1) * R <= q * R
      /\ q + 1 <= g => (q + 1) * R <= g * R
  <2>1. /\ (g + 1) * R = g * R + 1 * R /\ (q + 1) * R = q * R + 1 * R
        /\ g * R \in Nat /\ q * R \in Nat
    BY <1>1, Products
  <2>2. (g + 1 <= q => (g + 1) * R <= q * R) /\ (q + 1 <= g => (q + 1) * R <= g * R)
    <3>1. g + 1 \in Nat /\ q + 1 \in Nat /\ R \in Nat
      BY <1>1
    <3>2. QED
      BY <1>1, <3>1, Products
  <2>3. QED
    BY <2>1, <2>2
<1>3. ~ (g + 1 <= q) /\ ~ (q + 1 <= g)
  BY <1>1, <1>2
<1>4. g = q
  BY <1>1, <1>3
<1>5. QED
  BY <1>4 DEF g

LEMMA QuotientMono ==
  ASSUME NEW x \in Nat, NEW y \in Nat, NEW R \in Nat \ {0}, x \div R < y \div R
  PROVE  x < y
<1> DEFINE g == x \div R
           q == y \div R
<1>1. /\ g \in Nat /\ (x % R) \in 0..R - 1 /\ x = g * R + (x % R)
      /\ q \in Nat /\ (y % R) \in 0..R - 1 /\ y = q * R + (y % R) /\ g < q
  BY Quotient
<1>2. PICK m \in 0..R - 1 : x = g * R + m
  BY <1>1
<1>3. PICK n \in 0..R - 1 : y = q * R + n
  BY <1>1
<1> HIDE DEF g, q
<1>4. g + 1 \in Nat /\ R \in Nat /\ g + 1 <= q
  BY <1>1
<1>5. (g + 1) * R <= q * R /\ (g + 1) * R = g * R + 1 * R /\ g * R \in Nat /\ q * R \in Nat
  BY <1>1, <1>4, Products
<1>6. QED
  BY <1>2, <1>3, <1>5

LEMMA QuotientBounds ==
  ASSUME NEW x \in Nat, NEW R \in Nat \ {0}
  PROVE  /\ x \div R \in Nat /\ (x \div R) * R <= x /\ x \div R <= x
         /\ \A Q \in Nat : x < R * Q => x \div R < Q
<1>1. PICK g \in Nat : g = x \div R
  BY Quotient
<1>2. PICK m \in 0..R - 1 : x = g * R + m
  BY <1>1, Quotient
<1>3. g * R \in Nat /\ R \in Nat
  BY Products
<1>4. g * R <= x
  BY <1>2, <1>3
<1>5. g <= x
  <2>1. PICK d \in Nat : R = 1 + d
    BY <1>3
  <2>2. g * R = g + g * d /\ g * d \in Nat
    BY <2>1
  <2>3. QED
    BY <1>3, <1>4, <2>2
<1>6. ASSUME NEW Q \in Nat, x < R * Q PROVE g < Q
  <2>1. SUFFICES ASSUME Q <= g PROVE FALSE
    OBVIOUS
  <2>2. Q * R <= g * R /\ Q * R = R * Q /\ R * Q \in Nat
    BY <1>3, <2>1, Products
  <2>3. QED
    BY <1>3, <1>4, <1>6, <2>2
<1>7. QED
  BY <1>1, <1>4, <1>5, <1>6

(* Dividing twice. *)
LEMMA QuotientTwice ==
  ASSUME NEW x \in Nat, NEW a \in Nat \ {0}, NEW b \in Nat \ {0}
  PROVE  (x \div a) \div b = x \div (b * a)
<1>1. PICK g \in Nat : g = x \div a
  BY Quotient
<1>2. PICK m \in 0..a - 1 : x = g * a + m
  BY <1>1, Quotient
<1>3. PICK q \in Nat : q = g \div b
  BY Quotient
<1>4. PICK n \in 0..b - 1 : g = q * b + n
  BY <1>3, Quotient
<1>5. a \in Nat /\ b \in Nat /\ n \in Nat /\ m \in Nat /\ n + 1 \in Nat /\ n + 1 <= b
  BY <1>2, <1>4
<1>6. PICK c \in Nat : c = b * a
  BY <1>5, Products
<1>7. c # 0
  <2>1. PICK d \in Nat : b = 1 + d
    OBVIOUS
  <2>2. c = a + d * a /\ d * a \in Nat
    BY <1>6, <2>1
  <2>3. QED
    BY <2>2
<1>8. g * a = q * c + n * a
  <2>1. q * b \in Nat
    BY <1>5, Products
  <2>2. (q * b + n) * a = (q * b) * a + n * a
    BY <1>5, <2>1, Products
  <2>3. (q * b) * a = q * c
    BY <1>5, <1>6, Products
  <2>4. QED
    BY <1>4, <2>2, <2>3
<1>9. (n + 1) * a <= c /\ (n + 1) * a = n * a + 1 * a /\ n * a \in Nat /\ q * c \in Nat
  BY <1>5, <1>6, Products
<1>10. q * c <= x /\ x < q * c + c
  BY <1>2, <1>5, <1>8, <1>9
<1>11. x \div c = q
  BY <1>7, <1>10, QuotientUnique
<1>12. QED
  BY <1>1, <1>3, <1>6, <1>11

-----------------------------------------------------------------------------
(* The powers of the radix. *)

PowerStep(f, k) == IF k = 0 THEN 1 ELSE Radix * f[k - 1]

(* The powers can be computed as far as they are needed. *)
LEMMA PowersExist ==
  \E f \in [0..(Depth + 1) -> Nat] : \A k \in 0..(Depth + 1) : f[k] = PowerStep(f, k)
<1>0. Depth + 1 \in Nat /\ Radix \in Nat
  BY Constants
<1>00. PICK N \in Nat : N = Depth + 1
  BY <1>0
<1> DEFINE IsPower(f, m) == \A k \in 0..m : f[k] = PowerStep(f, k)
           T == {m \in 0..N : ~ \E f \in [0..m -> Nat] : IsPower(f, m)}
<1>1. T = {}
  <2>1. SUFFICES ASSUME T # {} PROVE FALSE
    OBVIOUS
  <2>2. T \in SUBSET Nat
    OBVIOUS
  <2>3. PICK m \in T : \A y \in T : m <= y
    BY <2>1, <2>2, LeastNat
  <2>4. m \in 0..N /\ ~ \E f \in [0..m -> Nat] : IsPower(f, m)
    OBVIOUS
  <2>5. CASE m = 0
    <3> DEFINE g == [k \in 0..0 |-> 1]
    <3>1. g \in [0..m -> Nat]
      BY <2>5
    <3>2. ASSUME NEW k \in 0..m PROVE g[k] = PowerStep(g, k)
      BY <2>5 DEF PowerStep
    <3>3. QED
      BY <2>4, <3>1, <3>2
  <2>6. CASE m # 0
    <3>1. m - 1 \in 0..N /\ ~ (m <= m - 1) /\ m \in Nat /\ m >= 1
      BY <2>4, <2>6
    <3>2. m - 1 \notin T
      BY <2>3, <3>1
    <3>3. PICK f \in [0..m - 1 -> Nat] : IsPower(f, m - 1)
      BY <3>1, <3>2
    <3>4. m - 1 \in 0..m - 1
      BY <3>1
    <3>5. PICK p \in Nat : p = Radix * f[m - 1]
      BY <1>0, <3>4
    <3> DEFINE g == [k \in 0..m |-> IF k = m THEN p ELSE f[k]]
    <3>6. \A k \in 0..m : k # m => k \in 0..m - 1
      BY <3>1
    <3>7. g \in [0..m -> Nat]
      BY <3>6
    <3>8. ASSUME NEW k \in 0..m PROVE g[k] = PowerStep(g, k)
      <4>1. CASE k = m
        <5>1. g[k] = p /\ g[k - 1] = f[m - 1]
          BY <3>1, <3>4, <4>1
        <5>2. QED
          BY <2>6, <3>5, <4>1, <5>1 DEF PowerStep
      <4>2. CASE k # m
        <5>1. k \in 0..m - 1 /\ g[k] = f[k]
          BY <3>6, <4>2
        <5>2. f[k] = PowerStep(f, k)
          BY <3>3, <5>1
        <5>3. k # 0 => k - 1 \in 0..m /\ k - 1 # m
          BY <3>1, <5>1
        <5>4. k # 0 => g[k - 1] = f[k - 1]
          BY <5>3
        <5>5. PowerStep(g, k) = PowerStep(f, k)
          BY <5>4 DEF PowerStep
        <5>6. QED
          BY <5>1, <5>2, <5>5
      <4>3. QED
        BY <4>1, <4>2
    <3>9. IsPower(g, m)
      BY <3>8
    <3> HIDE DEF g
    <3>10. QED
      BY <2>4, <3>7, <3>9
  <2>7. QED
    BY <2>5, <2>6
<1>2. N \in 0..N
  OBVIOUS
<1>3. QED
  BY <1>00, <1>1, <1>2

LEMMA Powers ==
  /\ Power[0] = 1
  /\ \A k \in 0..Depth : Power[k + 1] = Radix * Power[k]
  /\ \A k \in 0..(Depth + 1) : Power[k] \in Nat /\ Power[k] \in Nat \ {0}
<1>0. Depth \in Nat /\ Radix \in Nat /\ Radix >= 2
  BY Constants
<1>1. PICK f \in [0..(Depth + 1) -> Nat] : \A k \in 0..(Depth + 1) : f[k] = PowerStep(f, k)
  BY PowersExist
<1>2. f = [k \in 0..(Depth + 1) |-> PowerStep(f, k)]
  BY <1>1
<1>3. Power = [k \in 0..(Depth + 1) |-> PowerStep(Power, k)]
  BY <1>2, Zenon DEF Power, PowerStep
<1>4. PICK p : p = Power
  OBVIOUS
<1>5. \A k \in 0..(Depth + 1) : p[k] = PowerStep(p, k)
  BY <1>3, <1>4
<1>6. p[0] = 1
  BY <1>0, <1>5 DEF PowerStep
<1>7. ASSUME NEW k \in 0..Depth PROVE p[k + 1] = Radix * p[k]
  <2>1. k + 1 \in 0..(Depth + 1) /\ k + 1 # 0 /\ (k + 1) - 1 = k
    BY <1>0
  <2>2. QED
    BY <1>5, <2>1 DEF PowerStep
<1>8. \A k \in 0..(Depth + 1) : p[k] \in Nat \ {0}
  <2> DEFINE T == {k \in 0..(Depth + 1) : ~ (p[k] \in Nat \ {0})}
  <2>1. SUFFICES ASSUME T # {} PROVE FALSE
    OBVIOUS
  <2>2. T \in SUBSET Nat
    BY <1>0
  <2>3. PICK m \in T : \A y \in T : m <= y
    BY <2>1, <2>2, LeastNat
  <2>4. m # 0 /\ m \in 0..(Depth + 1) /\ ~ (p[m] \in Nat \ {0})
    BY <1>6
  <2>5. m - 1 \in 0..Depth /\ m - 1 \in 0..(Depth + 1) /\ ~ (m <= m - 1) /\ (m - 1) + 1 = m
    BY <1>0, <2>4
  <2>6. PICK q \in Nat \ {0} : q = p[m - 1]
    BY <2>3, <2>5
  <2>7. p[m] = Radix * q
    BY <1>7, <2>5, <2>6
  <2>8. PICK d \in Nat : Radix = 1 + d
    BY <1>0
  <2>9. Radix * q = q + d * q /\ d * q \in Nat
    BY <2>8
  <2>10. QED
    BY <2>4, <2>7, <2>9
<1>9. QED
  BY <1>4, <1>6, <1>7, <1>8

-----------------------------------------------------------------------------
(* The way to a leaf. *)

Leaves == 0..(Power[Depth] - 1)
Way(k, x) == [depth |-> k, prefix |-> x \div Power[Depth - k]]
Under(d, x) == Way(d.depth, x) = d

(* The directories of a way: the leaf itself last, the stream base first,    *)
(* each the parent of the next.                                              *)
LEMMA WayEnds ==
  ASSUME NEW x \in Leaves
  PROVE  /\ x \in Nat
         /\ Way(Depth, x) = Leaf(x)
         /\ Way(0, x) = Base
<1>0. Depth \in Nat /\ Power[Depth] \in Nat \ {0} /\ Power[0] = 1
  BY Constants, Powers
<1>1. x \in Nat /\ x < Power[Depth]
  BY <1>0 DEF Leaves
<1>2. Depth - Depth = 0 /\ Depth - 0 = Depth
  BY <1>0
<1>3. x \div 1 = x
  BY <1>1, QuotientUnique
<1>4. PICK P \in Nat \ {0} : P = Power[Depth]
  BY <1>0
<1>5. x \div P = 0
  BY <1>1, <1>4, QuotientUnique
<1>6. QED
  BY <1>0, <1>1, <1>2, <1>3, <1>4, <1>5 DEF Way, Leaf, Base

LEMMA WayParent ==
  ASSUME NEW x \in Leaves, NEW k \in 0..Depth - 1
  PROVE  Parent(Way(k + 1, x)) = Way(k, x)
<1>0. Depth \in Nat /\ k \in Nat /\ x \in Nat /\ Radix \in Nat \ {0}
  BY Constants, WayEnds
<1>1. PICK j \in 0..Depth : j = Depth - (k + 1)
  BY <1>0
<1>2. Depth - k = j + 1 /\ (k + 1) - 1 = k
  BY <1>0, <1>1
<1>3. PICK P \in Nat \ {0} : P = Power[j]
  BY <1>0, <1>1, Powers
<1>4. Power[j + 1] = Radix * P
  BY <1>3, Powers
<1>5. (x \div P) \div Radix = x \div (Radix * P)
  BY <1>0, <1>3, QuotientTwice
<1>6. QED
  BY <1>1, <1>2, <1>3, <1>4, <1>5 DEF Way, Parent

(* They are range directories. *)
LEMMA WayInRange ==
  ASSUME NEW x \in Leaves, NEW k \in 1..Depth
  PROVE  Way(k, x) \in RangeName
<1>0. Depth \in Nat /\ Depth >= 1 /\ x \in Nat /\ Radix \in Nat \ {0} /\ Power[Depth] \in Nat \ {0}
      /\ x < Power[Depth]
  BY Constants, WayEnds, Powers DEF Leaves
<1> DEFINE T == {j \in 0..Depth : ~ (x \div Power[j] < Power[Depth - j])}
<1>1. T = {}
  <2>1. SUFFICES ASSUME T # {} PROVE FALSE
    OBVIOUS
  <2>2. T \in SUBSET Nat
    BY <1>0
  <2>3. PICK m \in T : \A y \in T : m <= y
    BY <2>1, <2>2, LeastNat
  <2>4. m \in 0..Depth /\ ~ (x \div Power[m] < Power[Depth - m])
    OBVIOUS
  <2>5. m # 0
    <3>1. x \div 1 = x /\ Depth - 0 = Depth /\ Power[0] = 1
      BY <1>0, QuotientUnique, Powers
    <3>2. QED
      BY <1>0, <2>4, <3>1
  <2>6. PICK j \in 0..Depth - 1 : m = j + 1
    <3>1. m - 1 \in 0..Depth - 1 /\ m = (m - 1) + 1
      BY <1>0, <2>4, <2>5
    <3>2. QED
      BY <3>1
  <2>7. j \in 0..Depth /\ ~ (m <= j) /\ Depth - m \in 0..Depth /\ Depth - j = (Depth - m) + 1
    BY <1>0, <2>6
  <2>8. x \div Power[j] < Power[Depth - j]
    BY <2>3, <2>7
  <2>9. PICK P \in Nat \ {0} : P = Power[j]
    BY <1>0, <2>7, Powers
  <2>10. PICK Q \in Nat : Q = Power[Depth - m]
    BY <1>0, <2>7, Powers
  <2>11. Power[m] = Radix * P
    BY <2>6, <2>7, <2>9, Powers
  <2>12. Power[Depth - j] = Radix * Q
    BY <2>7, <2>10, Powers
  <2>13. PICK z \in Nat : z = x \div P
    BY <1>0, QuotientBounds
  <2>14. z < Radix * Q
    BY <2>8, <2>9, <2>12, <2>13
  <2>15. z \div Radix < Q
    BY <1>0, <2>14, QuotientBounds
  <2>16. z \div Radix = x \div (Radix * P)
    BY <1>0, <2>9, <2>13, QuotientTwice
  <2>17. QED
    BY <2>4, <2>10, <2>11, <2>15, <2>16
<1>2. PICK j \in 0..Depth : j = Depth - k
  BY <1>0
<1>3. Depth - j = k
  BY <1>0, <1>2
<1>4. x \div Power[j] < Power[k]
  BY <1>1, <1>3
<1>5. PICK P \in Nat \ {0} : P = Power[j]
  BY <1>0, Powers
<1>6. PICK z \in Nat : z = x \div P /\ z <= x
  BY <1>0, QuotientBounds
<1>7. z \in 0..(Power[Depth] - 1) /\ z < Power[k]
  BY <1>0, <1>4, <1>5, <1>6
<1>8. Way(k, x) = [depth |-> k, prefix |-> z]
  BY <1>2, <1>5, <1>6 DEF Way
<1>9. QED
  BY <1>7, <1>8 DEF RangeName

(* Different directories of one depth lead to leaves in their own order. *)
LEMMA WayOrder ==
  ASSUME NEW c \in RangeName, NEW d \in RangeName, c.depth = d.depth, c.prefix < d.prefix,
         NEW x \in Leaves, NEW y \in Leaves, Under(c, x), Under(d, y)
  PROVE  x < y
<1>0. Depth \in Nat /\ x \in Nat /\ y \in Nat
  BY Constants, WayEnds
<1>1. PICK k \in 1..Depth : k = c.depth
  BY DEF RangeName
<1>2. Depth - k \in 0..(Depth + 1)
  BY <1>0
<1>3. PICK P \in Nat \ {0} : P = Power[Depth - k]
  BY <1>2, Powers
<1>4. c.prefix = x \div P /\ d.prefix = y \div P
  BY <1>1, <1>3 DEF Under, Way
<1>5. QED
  BY <1>0, <1>4, QuotientMono

(* A range on the way to a canonical log does not begin past the last file. *)
LEMMA WayFirstFile ==
  ASSUME NEW l \in LogName, IsCanonical(l), NEW k \in 1..Depth
  PROVE  /\ l.leaf \in Leaves
         /\ FirstFile(Way(k, l.leaf)) <= MAX_FILE
<1>0. Depth \in Nat /\ Radix \in Nat \ {0} /\ MAX_FILE \in Nat
  BY Constants
<1>1. PICK x \in Leaves : x = l.leaf
  BY DEF LogName, Leaves
<1>2. PICK n \in Nat : n = l.number
  BY <1>0 DEF LogName
<1>3. n <= MAX_FILE /\ n \div Radix = x /\ x \in Nat
  BY <1>1, <1>2, WayEnds DEF IsCanonical
<1>4. PICK j \in 0..Depth : j = Depth - k
  BY <1>0
<1>5. Depth + 1 - k = j + 1
  BY <1>0, <1>4
<1>6. PICK P \in Nat \ {0} : P = Power[j]
  BY <1>0, Powers
<1>7. Power[j + 1] = Radix * P
  BY <1>6, Powers
<1>8. PICK q \in Nat : q = x \div P /\ q * P <= x
  BY <1>3, QuotientBounds
<1>9. FirstFile(Way(k, x)) = q * (Radix * P)
  BY <1>4, <1>5, <1>6, <1>7, <1>8 DEF FirstFile, Way
<1>10. q * (Radix * P) = (q * P) * Radix
  <2>1. P \in Nat /\ Radix \in Nat
    BY <1>0
  <2>2. Radix * P = P * Radix /\ q * (P * Radix) = (q * P) * Radix
    BY <2>1, Products
  <2>3. QED
    BY <2>2
<1>11. (q * P) * Radix <= x * Radix /\ (q * P) * Radix \in Nat /\ x * Radix \in Nat
  <2>1. q * P \in Nat /\ Radix \in Nat
    BY <1>0, Products
  <2>2. QED
    BY <1>3, <1>8, <2>1, Products
<1>12. x * Radix <= n
  BY <1>0, <1>3, QuotientBounds
<1>13. q * (Radix * P) <= MAX_FILE
  BY <1>0, <1>3, <1>10, <1>11, <1>12
<1>14. QED
  BY <1>1, <1>9, <1>13

-----------------------------------------------------------------------------
(* Sorting. *)

(* The children of a directory are at most Radix, and can be sorted. *)
LEMMA SortedExists ==
  ASSUME NEW k \in Nat, NEW p \in Nat,
         NEW S \in SUBSET [depth: {k}, prefix: p * Radix..p * Radix + Radix - 1]
  PROVE  \E s \in UNION {[1..n -> S] : n \in 0..Radix} :
           /\ Range(s) = S
           /\ \A i, j \in 1..Len(s) : i < j => s[i].prefix > s[j].prefix
<1>0. Radix \in Nat /\ p * Radix \in Nat
  BY Constants, Products
<1>00. PICK b \in Nat : b = p * Radix
  BY <1>0
<1>01. \A c \in S : /\ c.depth = k /\ c.prefix \in Int /\ b <= c.prefix /\ c.prefix <= b + Radix - 1
                    /\ c = [depth |-> k, prefix |-> c.prefix]
  BY <1>0, <1>00
(* The j highest prefixes that a child may have. *)
<1> DEFINE Top(j) == {c \in S : c.prefix >= b + Radix - j}
           Sorts(s, n, j) == /\ \A i \in 1..n : s[i] \in Top(j)
                             /\ \A c \in Top(j) : \E i \in 1..n : s[i] = c
                             /\ \A i, m \in 1..n : i < m => s[i].prefix > s[m].prefix
           T == {j \in 0..Radix : ~ \E n \in 0..j : \E s \in [1..n -> S] : Sorts(s, n, j)}
<1>1. T = {}
  <2>1. SUFFICES ASSUME T # {} PROVE FALSE
    OBVIOUS
  <2>2. T \in SUBSET Nat
    BY <1>0
  <2>3. PICK j \in T : \A y \in T : j <= y
    BY <2>1, <2>2, LeastNat
  <2>4. j \in 0..Radix /\ ~ \E n \in 0..j : \E s \in [1..n -> S] : Sorts(s, n, j)
    OBVIOUS
  <2>5. j # 0
    <3>1. SUFFICES ASSUME j = 0 PROVE FALSE
      OBVIOUS
    <3>2. Top(j) = {}
      BY <1>0, <1>01, <3>1
    <3> DEFINE s == [i \in 1..0 |-> {}]
    <3>3. 0 \in 0..j /\ s \in [1..0 -> S]
      BY <3>1
    <3>4. Sorts(s, 0, j)
      BY <3>2
    <3> HIDE DEF s, Sorts
    <3>5. QED
      BY <2>4, <3>3, <3>4
  <2>6. PICK h \in 0..Radix : h = j - 1
    BY <1>0, <2>4, <2>5
  <2>7. ~ (j <= h) /\ j = h + 1 /\ h \in Nat
    BY <1>0, <2>4, <2>6
  <2>8. h \notin T
    BY <2>3, <2>7
  <2>9. PICK n \in 0..h : \E s \in [1..n -> S] : Sorts(s, n, h)
    BY <2>6, <2>8
  <2>10. PICK s \in [1..n -> S] : Sorts(s, n, h)
    BY <2>9
  <2>11. PICK v \in Int : v = b + Radix - j
    BY <1>0, <2>4
  <2>12. \A c \in S : c \in Top(j) <=> c \in Top(h) \/ c.prefix = v
    <3>1. SUFFICES ASSUME NEW c \in S
                   PROVE  c.prefix >= b + Radix - j <=> c.prefix >= b + Radix - h \/ c.prefix = v
      OBVIOUS
    <3>2. PICK x \in Int : x = c.prefix
      BY <1>01
    <3>3. x >= v <=> x >= v + 1 \/ x = v
      OBVIOUS
    <3>4. b + Radix - h = v + 1
      BY <1>0, <2>7, <2>11
    <3>5. QED
      BY <2>11, <3>2, <3>3, <3>4
  <2>13. \A c \in Top(h) : c \in S /\ c.prefix > v
    BY <1>0, <1>01, <2>7, <2>11
  <2>14. n \in Nat /\ n \in 0..j /\ n + 1 \in 0..j
    BY <2>7
  <2>15. CASE \E c \in S : c.prefix = v
    <3>1. PICK e \in S : e.prefix = v
      BY <2>15
    <3>2. \A c \in S : c.prefix = v => c = e
      BY <1>01, <3>1
    <3> DEFINE g == [i \in 1..n + 1 |-> IF i = n + 1 THEN e ELSE s[i]]
    <3>3. \A i \in 1..n + 1 : i # n + 1 => i \in 1..n
      BY <2>14
    <3>4. g \in [1..n + 1 -> S]
      BY <3>3
    <3>5. /\ g[n + 1] = e
          /\ \A i \in 1..n : i \in 1..n + 1 /\ i # n + 1 /\ g[i] = s[i]
      BY <2>14
    <3> HIDE DEF g
    <3>6. ASSUME NEW i \in 1..n + 1 PROVE g[i] \in Top(j)
      <4>1. CASE i = n + 1
        BY <2>12, <3>1, <3>5, <4>1
      <4>2. CASE i # n + 1
        <5>1. i \in 1..n /\ g[i] = s[i] /\ s[i] \in Top(h)
          BY <2>10, <3>3, <3>5, <4>2
        <5>2. QED
          BY <2>12, <2>13, <5>1
      <4>3. QED
        BY <4>1, <4>2
    <3>7. ASSUME NEW c \in Top(j) PROVE \E i \in 1..n + 1 : g[i] = c
      <4>1. CASE c \in Top(h)
        <5>1. PICK i \in 1..n : s[i] = c
          BY <2>10, <4>1
        <5>2. QED
          BY <3>5, <5>1
      <4>2. CASE c \notin Top(h)
        <5>1. c = e
          BY <2>12, <3>2, <4>2
        <5>2. n + 1 \in 1..n + 1
          BY <2>14
        <5>3. QED
          BY <3>5, <5>1, <5>2
      <4>3. QED
        BY <4>1, <4>2
    <3>8. ASSUME NEW i \in 1..n + 1, NEW m \in 1..n + 1, i < m PROVE g[i].prefix > g[m].prefix
      <4>0. i \in 1..n
        BY <2>14, <3>8
      <4>1. i \in 1..n /\ g[i] = s[i] /\ s[i] \in Top(h)
        BY <2>10, <3>5, <4>0
      <4>2. CASE m = n + 1
        BY <2>13, <3>1, <3>5, <4>1, <4>2
      <4>3. CASE m # n + 1
        <5>1. m \in 1..n /\ g[m] = s[m]
          BY <3>3, <3>5, <4>3
        <5>2. QED
          BY <2>10, <3>8, <4>1, <5>1
      <4>4. QED
        BY <4>2, <4>3
    <3>9. Sorts(g, n + 1, j)
      BY <3>6, <3>7, <3>8
    <3> HIDE DEF Sorts
    <3>10. QED
      BY <2>4, <2>14, <3>4, <3>9
  <2>16. CASE ~ \E c \in S : c.prefix = v
    <3>1. Top(j) = Top(h)
      BY <2>12, <2>16
    <3>2. Sorts(s, n, j)
      BY <2>10, <3>1
    <3> HIDE DEF Sorts
    <3>3. QED
      BY <2>4, <2>10, <2>14, <3>2
  <2>17. QED
    BY <2>15, <2>16
<1>2. Radix \in 0..Radix
  BY <1>0
<1>3. PICK n \in 0..Radix : \E s \in [1..n -> S] : Sorts(s, n, Radix)
  BY <1>1, <1>2
<1>4. PICK s \in [1..n -> S] : Sorts(s, n, Radix)
  BY <1>3
<1>5. Top(Radix) = S
  BY <1>0, <1>01
<1>6. s \in Seq(S) /\ Len(s) = n /\ DOMAIN s = 1..n
  BY <1>0
<1>7. Range(s) = S
  BY <1>4, <1>5, <1>6 DEF Range
<1>8. \A i, j \in 1..Len(s) : i < j => s[i].prefix > s[j].prefix
  BY <1>4, <1>6
<1>9. s \in UNION {[1..m -> S] : m \in 0..Radix}
  BY <1>4
<1>10. QED
  BY <1>7, <1>8, <1>9, Zenon

(* The children of a directory have its digits and one more. *)
LEMMA ChildShape ==
  ASSUME NEW d \in Directories, NEW c \in RangeName, Parent(c) = d
  PROVE  /\ c.depth = d.depth + 1 /\ d.depth \in 0..Depth - 1 /\ d.prefix \in Nat
         /\ c \in [depth: {d.depth + 1}, prefix: d.prefix * Radix..d.prefix * Radix + Radix - 1]
<1>0. Radix \in Nat \ {0} /\ Depth \in Nat /\ Power[Depth] \in Nat
  BY Constants, Powers
<1>1. c.depth \in 1..Depth /\ c.prefix \in Nat /\ c = [depth |-> c.depth, prefix |-> c.prefix]
  BY <1>0 DEF RangeName
<1>2. d.depth = c.depth - 1 /\ d.prefix = c.prefix \div Radix
  BY DEF Parent
<1>3. d.depth \in 0..Depth - 1 /\ c.depth = d.depth + 1
  BY <1>0, <1>1, <1>2
<1>4. PICK x \in Nat : x = c.prefix
  BY <1>1
<1>5. PICK p \in Nat : p = x \div Radix
  BY <1>0, Quotient
<1>6. PICK m \in 0..Radix - 1 : x = p * Radix + m
  BY <1>0, <1>5, Quotient
<1>7. PICK b \in Nat : b = p * Radix
  BY <1>0, Products
<1>8. x \in b..b + Radix - 1
  BY <1>0, <1>6, <1>7
<1>9. d.prefix = p
  BY <1>2, <1>4, <1>5
<1>10. QED
  BY <1>1, <1>3, <1>4, <1>7, <1>8, <1>9

(* What is pushed: every child once, the lowest first. *)
LEMMA Pushed ==
  ASSUME NEW d \in Directories, NEW S \in SUBSET {c \in RangeName : Parent(c) = d}
  PROVE  \E n \in 0..Radix : \E s \in [1..n -> S] :
           /\ Reverse(Sorted(S)) = s
           /\ \A c \in S : \E i \in 1..n : s[i] = c
           /\ \A i, j \in 1..n : i < j => s[i].prefix < s[j].prefix
<1>0. Radix \in Nat /\ Depth \in Nat /\ Power[Depth] \in Nat
  BY Constants, Powers
<1>1. d.depth + 1 \in Nat /\ d.prefix \in Nat
  BY <1>0 DEF Directories, RangeName, Base
<1>2. S \in SUBSET [depth: {d.depth + 1}, prefix: d.prefix * Radix..d.prefix * Radix + Radix - 1]
  BY ChildShape
<1> DEFINE Descends(t) == /\ Range(t) = S
                          /\ \A i, j \in 1..Len(t) : i < j => t[i].prefix > t[j].prefix
<1>3. \E t \in UNION {[1..n -> S] : n \in 0..Radix} : Descends(t)
  BY <1>1, <1>2, SortedExists
<1>4. Sorted(S) = CHOOSE t \in UNION {[1..n -> S] : n \in 0..Radix} : Descends(t)
  BY DEF Sorted
<1>5. Sorted(S) \in UNION {[1..n -> S] : n \in 0..Radix} /\ Descends(Sorted(S))
  <2> HIDE DEF Descends
  <2>1. QED
    BY <1>3, <1>4, Zenon
<1>6. PICK t : t = Sorted(S)
  OBVIOUS
<1>7. PICK n \in 0..Radix : t \in [1..n -> S]
  BY <1>5, <1>6
<1>8. n \in Nat /\ t \in Seq(S) /\ Len(t) = n /\ DOMAIN t = 1..n
  BY <1>0, <1>7
<1>9. /\ \A c \in S : \E i \in 1..n : t[i] = c
      /\ \A i, j \in 1..n : i < j => t[i].prefix > t[j].prefix
  BY <1>5, <1>6, <1>8 DEF Range
<1>10. PICK s : s = [i \in 1..n |-> t[(n - i) + 1]]
  OBVIOUS
<1>11. Reverse(Sorted(S)) = s
  BY <1>6, <1>8, <1>10 DEF Reverse
<1>12. \A i \in 1..n : (n - i) + 1 \in 1..n /\ (n - ((n - i) + 1)) + 1 = i
  BY <1>8
<1>13. s \in [1..n -> S] /\ \A i \in 1..n : s[i] = t[(n - i) + 1]
  BY <1>7, <1>10, <1>12
<1>14. ASSUME NEW c \in S PROVE \E i \in 1..n : s[i] = c
  <2>1. PICK i \in 1..n : t[i] = c
    BY <1>9
  <2>2. s[(n - i) + 1] = c
    BY <1>12, <1>13, <2>1
  <2>3. QED
    BY <1>12, <2>2
<1>15. ASSUME NEW i \in 1..n, NEW j \in 1..n, i < j PROVE s[i].prefix < s[j].prefix
  <2>1. PICK a \in 1..n : a = (n - i) + 1
    BY <1>12
  <2>2. PICK b \in 1..n : b = (n - j) + 1
    BY <1>12
  <2>3. b < a
    BY <1>8, <1>15, <2>1, <2>2
  <2>4. t[b].prefix > t[a].prefix
    BY <1>9, <2>3
  <2>5. s[i] = t[a] /\ s[j] = t[b] /\ t[a] \in S /\ t[b] \in S
    BY <1>7, <1>13, <2>1, <2>2
  <2>6. t[a].prefix \in Int /\ t[b].prefix \in Int
    BY <1>0, <2>5 DEF RangeName
  <2>7. QED
    BY <2>4, <2>5, <2>6
<1>16. QED
  BY <1>11, <1>13, <1>14, <1>15

-----------------------------------------------------------------------------
(* The inductive invariant. *)

\* Every leaf under c is before every leaf under d.
Below(c, d) == \A x, y \in Leaves : Under(c, x) /\ Under(d, y) => x < y

\* The way through d is made of directories; the stream base may be missing.
Good(d) == d = Base \/ \A x \in Leaves : Under(d, x) => \A k \in 0..d.depth : tree[Way(k, x)] = "dir"

DiskInv == tree \in Trees /\ logs \subseteq LogName

\* Each level has at most Radix - 1 directories waiting below the next one.
StackInv ==
  /\ pending \in Seq(Directories) /\ directory \in Directories \cup {Nowhere}
  /\ \A i \in 1..Len(pending) : i <= 1 + pending[i].depth * (Radix - 1)
  /\ \A i, j \in 1..Len(pending) : i < j => pending[i].depth <= pending[j].depth
  /\ directory # Nowhere => /\ Len(pending) <= directory.depth * (Radix - 1)
                            /\ \A i \in 1..Len(pending) : pending[i].depth <= directory.depth

\* The stack is in the order of the leaves.
OrderInv ==
  /\ \A i, j \in 1..Len(pending) : i < j => Below(pending[i], pending[j])
  /\ directory # Nowhere => \A i \in 1..Len(pending) : Below(pending[i], directory)

\* The search only goes through directories.
PathInv == /\ \A i \in 1..Len(pending) : Good(pending[i])
           /\ directory # Nowhere => Good(directory)

\* What the directory being read has shown so far.
ReadInv ==
  /\ directory.depth \in 0..(Depth - 1) =>
       /\ unread \subseteq {c \in RangeName : Parent(c) = directory}
       /\ children \subseteq {c \in RangeName : Parent(c) = directory /\ tree[c] = "dir"}
  /\ directory.depth = Depth =>
       /\ unread \subseteq {l \in logs : l.leaf = directory.prefix}
       /\ maximum # -1 => \E l \in logs : /\ IsCanonical(l) /\ l.regular
                                          /\ l.leaf = directory.prefix /\ l.number = maximum

AnswerInv ==
  /\ answer \in {"searching", "error", "none", "found"} /\ maximum \in -1..MAX_FILE
  /\ answer = "found" => directory.depth = Depth /\ maximum # -1 /\ unread = {}
  /\ answer = "none" => directory = Nowhere /\ pending = <<>>

\* The logs that count, and that the search still comes to each of them.
Canon == {l \in logs : l.regular /\ IsCanonical(l) /\ Reachable(l.leaf)}
Ahead(l) ==
  \/ \E i \in 1..Len(pending) : Under(pending[i], l.leaf)
  \/ /\ directory # Nowhere /\ Under(directory, l.leaf)
     /\ IF directory.depth = Depth THEN l \in unread \/ l.number <= maximum
        ELSE Way(directory.depth + 1, l.leaf) \in unread \cup children
CoverInv == \A l \in Canon : Ahead(l)

IInv == /\ DiskInv /\ StackInv /\ OrderInv /\ PathInv /\ ReadInv /\ AnswerInv
        /\ CoverInv

-----------------------------------------------------------------------------
(* Facts about directories. *)

LEMMA DirectoryTypes ==
  /\ Base \in Directories /\ Base.depth = 0 /\ Nowhere.depth = -1 /\ Nowhere \notin Directories
  /\ \A d \in Directories : d.depth \in 0..Depth /\ d.prefix \in Nat
  /\ \A d \in Directories : d.depth = 0 => d = Base
  /\ \A d \in RangeName : d \in Directories /\ d.depth \in 1..Depth
<1>0. Radix \in Nat /\ Depth \in Nat /\ Depth >= 1 /\ Power[Depth] \in Nat
  BY Constants, Powers
<1>1. \A d \in RangeName : d.depth \in 1..Depth /\ d.prefix \in Nat
  BY <1>0 DEF RangeName
<1>2. Base.depth = 0 /\ Base.prefix = 0 /\ Nowhere.depth = -1
  BY DEF Base, Nowhere
<1>3. QED
  BY <1>0, <1>1, <1>2 DEF Directories

(* The directory that is read has the depth of one. *)
LEMMA DirectoryDepth ==
  ASSUME directory \in Directories \cup {Nowhere}
  PROVE  /\ directory.depth \in 0..(Depth - 1) => directory \in Directories /\ directory # Nowhere
         /\ directory.depth = Depth => directory \in Directories /\ directory # Nowhere
         /\ directory # Nowhere => /\ directory \in Directories
                                   /\ directory.depth = Depth \/ directory.depth \in 0..(Depth - 1)
<1>1. Depth \in Nat /\ Depth >= 1
  BY Constants
<1>2. QED
  BY <1>1, DirectoryTypes

LEMMA WayOfChild ==
  ASSUME NEW d \in Directories, NEW c \in RangeName, Parent(c) = d,
         NEW x \in Leaves, Under(c, x)
  PROVE  Under(d, x)
<1>1. c.depth = d.depth + 1 /\ d.depth \in 0..Depth - 1
  BY ChildShape
<1>2. PICK k \in 0..Depth - 1 : k = d.depth
  BY <1>1
<1>3. Way(k + 1, x) = c
  BY <1>1, <1>2 DEF Under
<1>4. Way(k, x) = d
  BY <1>3, WayParent
<1>5. QED
  BY <1>2, <1>4 DEF Under

LEMMA UnderWay ==
  ASSUME NEW k, NEW x PROVE Under(Way(k, x), x)
<1>1. Way(k, x).depth = k
  BY DEF Way
<1>2. QED
  BY <1>1 DEF Under

(* A child that is a directory is as good as its parent. *)
LEMMA GoodChild ==
  ASSUME tree \in Trees, NEW d \in Directories, Good(d), NEW c \in RangeName, Parent(c) = d,
         tree[c] = "dir"
  PROVE  Good(c)
<1>1. SUFFICES ASSUME NEW x \in Leaves, Under(c, x), NEW k \in 0..c.depth
               PROVE  tree[Way(k, x)] = "dir"
  BY DEF Good
<1>2. c.depth = d.depth + 1 /\ d.depth \in 0..Depth - 1 /\ Depth \in Nat
  BY ChildShape, Constants
<1>3. CASE k = c.depth
  BY <1>1, <1>3 DEF Under
<1>4. CASE k # c.depth /\ d # Base
  <2>1. k \in 0..d.depth
    BY <1>2, <1>4
  <2>2. Under(d, x)
    BY <1>1, WayOfChild
  <2>3. QED
    BY <1>4, <2>1, <2>2 DEF Good
<1>5. CASE k # c.depth /\ d = Base
  <2>1. k = 0
    BY <1>2, <1>5, DirectoryTypes
  <2>2. Way(k, x) = Base
    BY <2>1, WayEnds
  <2>3. tree[Base] \in {"dir", "link", "absent"} /\ tree[Base] # "link" /\ tree[Base] # "absent"
    BY <1>5 DEF Trees
  <2>4. QED
    BY <2>2, <2>3
<1>6. QED
  BY <1>3, <1>4, <1>5

(* What comes before a directory comes before its children. *)
LEMMA BelowChild ==
  ASSUME NEW d \in Directories, NEW c \in RangeName, Parent(c) = d, NEW e, Below(e, d)
  PROVE  Below(e, c)
BY WayOfChild DEF Below

LEMMA BelowSibling ==
  ASSUME NEW d \in Directories, NEW c \in RangeName, NEW e \in RangeName,
         Parent(c) = d, Parent(e) = d, c.prefix < e.prefix
  PROVE  Below(c, e)
<1>1. c.depth = e.depth
  BY ChildShape
<1>2. QED
  BY <1>1, WayOrder DEF Below

(* A log that counts lies in a leaf. *)
LEMMA CanonLeaf ==
  ASSUME DiskInv, NEW l \in Canon
  PROVE  /\ l \in logs /\ l \in LogName /\ IsCanonical(l) /\ l.regular /\ Reachable(l.leaf)
         /\ l.leaf \in Leaves /\ l.number \in Nat
<1>1. l \in logs /\ l \in LogName /\ IsCanonical(l) /\ l.regular /\ Reachable(l.leaf)
  BY DEF Canon, DiskInv
<1>2. MAX_FILE \in Nat
  BY Constants
<1>3. QED
  BY <1>1, <1>2 DEF LogName, Leaves

(* Its way is made of directories. *)
LEMMA CanonWay ==
  ASSUME NEW x \in Leaves, Reachable(x), NEW k \in 0..Depth
  PROVE  tree[Way(k, x)] = "dir"
BY DEF Reachable, Way

-----------------------------------------------------------------------------
(* The stack. *)

LEMMA PopFacts ==
  ASSUME NEW s \in Seq(Directories), s # << >>
  PROVE  /\ Len(s) \in Nat /\ Len(s) >= 1 /\ Last(s) = s[Len(s)] /\ Last(s) \in Directories
         /\ Front(s) \in Seq(Directories) /\ Len(Front(s)) = Len(s) - 1
         /\ \A i \in 1..Len(s) - 1 : Front(s)[i] = s[i] /\ i \in 1..Len(s) /\ i < Len(s)
<1>1. Len(s) \in Nat /\ Len(s) >= 1
  BY EmptySeq
<1>2. Last(s) = s[Len(s)] /\ Len(s) \in 1..Len(s)
  BY <1>1 DEF Last
<1>3. Front(s) = SubSeq(s, 1, Len(s) - 1)
  BY DEF Front
<1>4. SubSeq(s, 1, Len(s) - 1) = [i \in 1..Len(s) - 1 |-> s[i]]
  BY <1>1
<1>5. \A i \in 1..Len(s) - 1 : i \in 1..Len(s) /\ i < Len(s) /\ s[i] \in Directories
  BY <1>1
<1>6. PICK m \in Nat : m = Len(s) - 1
  BY <1>1
<1>7. PICK f : f = [i \in 1..m |-> s[i]]
  OBVIOUS
<1>8. Front(s) = f
  BY <1>3, <1>4, <1>6, <1>7
<1>9. f \in [1..m -> Directories] /\ \A i \in 1..m : f[i] = s[i]
  BY <1>5, <1>6, <1>7
<1>10. f \in Seq(Directories) /\ Len(f) = m
  BY <1>9
<1>11. Last(s) \in Directories
  BY <1>2
<1>12. QED
  BY <1>1, <1>2, <1>5, <1>6, <1>8, <1>9, <1>10, <1>11

LEMMA PushFacts ==
  ASSUME NEW s \in Seq(Directories), NEW n \in Nat, NEW t \in [1..n -> Directories]
  PROVE  /\ Len(s) \in Nat /\ s \o t \in Seq(Directories) /\ Len(s \o t) = Len(s) + n
         /\ \A i \in 1..Len(s) : i \in 1..Len(s \o t) /\ (s \o t)[i] = s[i]
         /\ \A i \in 1..n : Len(s) + i \in 1..Len(s \o t) /\ (s \o t)[Len(s) + i] = t[i]
         /\ \A i \in 1..Len(s \o t) : i \in 1..Len(s) \/ \E j \in 1..n : i = Len(s) + j
<1>1. t \in Seq(Directories) /\ Len(t) = n /\ Len(s) \in Nat
  OBVIOUS
<1>2. PICK L \in Nat : L = Len(s)
  OBVIOUS
<1>3. /\ s \o t \in Seq(Directories) /\ Len(s \o t) = L + n
      /\ \A i \in 1..L + n : (s \o t)[i] = IF i <= L THEN s[i] ELSE t[i - L]
  BY <1>1, <1>2, ConcatProperties
<1>4. \A i \in 1..L : i \in 1..L + n /\ i <= L
  OBVIOUS
<1>5. \A i \in 1..n : L + i \in 1..L + n /\ ~ (L + i <= L) /\ (L + i) - L = i
  OBVIOUS
<1>6. ASSUME NEW i \in 1..L + n PROVE i \in 1..L \/ \E j \in 1..n : i = L + j
  <2>1. i \in 1..L \/ (i - L \in 1..n /\ i = L + (i - L))
    OBVIOUS
  <2>2. QED
    BY <2>1
<1>7. PICK u : u = s \o t
  OBVIOUS
<1>8. \A i \in 1..L : u[i] = s[i]
  BY <1>3, <1>4, <1>7
<1>9. \A i \in 1..n : u[L + i] = t[i]
  BY <1>3, <1>5, <1>7
<1>10. Len(u) = L + n
  BY <1>3, <1>7
<1>11. QED
  BY <1>2, <1>3, <1>4, <1>5, <1>6, <1>7, <1>8, <1>9, <1>10

-----------------------------------------------------------------------------
(* One lemma per action. *)

LEMMA InitInv == Init => IInv
<1> SUFFICES ASSUME Init PROVE IInv
  OBVIOUS
<1>0. /\ tree \in Trees /\ pending = <<Base>> /\ directory = Nowhere /\ unread = {} /\ children = {}
      /\ maximum = -1 /\ answer = "searching"
  BY DEF Init
<1>1. Radix \in Nat /\ Radix >= 2 /\ Depth \in Nat /\ Depth >= 1 /\ MAX_FILE \in Nat
  BY Constants
<1>2. DiskInv
  <2>1. CASE logs = {}
    BY <1>0, <2>1 DEF DiskInv
  <2>2. CASE logs # {}
    <3>1. PICK names \in [1..MaxLogs -> {l \in LogName : tree[Leaf(l.leaf)] # "absent"}] :
            logs = Range(names)
      BY <2>2 DEF Init
    <3>2. QED
      BY <1>0, <3>1 DEF DiskInv, Range
  <2>3. QED
    BY <2>1, <2>2
<1>3. /\ pending \in Seq(Directories) /\ Len(pending) = 1 /\ pending[1] = Base /\ Base.depth = 0
      /\ \A i \in 1..Len(pending) : i = 1
  BY <1>0, DirectoryTypes
<1>4. StackInv
  BY <1>0, <1>1, <1>3 DEF StackInv
<1>5. OrderInv
  BY <1>0, <1>3 DEF OrderInv
<1>6. PathInv
  BY <1>0, <1>3 DEF PathInv, Good
<1>7. ReadInv
  BY <1>0, <1>1, DirectoryTypes DEF ReadInv
<1>8. AnswerInv
  BY <1>0, <1>1 DEF AnswerInv
<1>9. CoverInv
  <2>1. SUFFICES ASSUME NEW l \in Canon PROVE \E i \in 1..Len(pending) : Under(pending[i], l.leaf)
    BY DEF CoverInv, Ahead
  <2>2. Way(0, l.leaf) = Base
    BY <1>2, CanonLeaf, WayEnds
  <2>3. Under(Base, l.leaf)
    BY <1>3, <2>2 DEF Under
  <2>4. QED
    BY <1>3, <2>3
<1>10. QED
  BY <1>2, <1>4, <1>5, <1>6, <1>7, <1>8, <1>9 DEF IInv

LEMMA CanonKept ==
  ASSUME UNCHANGED disk
  PROVE  /\ Canon' = Canon /\ (DiskInv => DiskInv') /\ tree' = tree /\ logs' = logs
         /\ \A d : Good(d)' <=> Good(d)
<1>1. tree' = tree /\ logs' = logs
  BY DEF disk
<1>2. \A x : Reachable(x)' <=> Reachable(x)
  BY <1>1 DEF Reachable
<1>3. Canon' = Canon
  BY <1>1, <1>2 DEF Canon
<1>4. \A d : Good(d)' <=> Good(d)
  BY <1>1 DEF Good
<1>5. QED
  BY <1>1, <1>3, <1>4 DEF DiskInv

LEMMA PopDirectoryStep ==
  ASSUME IInv, PopDirectory PROVE IInv'
<1>0. /\ DiskInv /\ StackInv /\ OrderInv /\ PathInv /\ ReadInv /\ AnswerInv /\ CoverInv
      /\ answer = "searching" /\ directory = Nowhere /\ pending # <<>> /\ UNCHANGED <<disk, answer>>
      /\ children' = {} /\ maximum' = -1
  BY DEF IInv, PopDirectory
<1>1. PICK d : d = Last(pending)
  OBVIOUS
<1>2. /\ pending' = Front(pending) /\ directory' = d
      /\ unread' = IF d.depth = Depth THEN {l \in logs : l.leaf = d.prefix}
                   ELSE {c \in RangeName : Parent(c) = d /\ tree[c] # "absent"}
  BY <1>1 DEF PopDirectory
<1>3. PICK s \in Seq(Directories) : s = pending
  BY <1>0 DEF StackInv
<1>4. PICK L \in Nat : L = Len(s)
  OBVIOUS
<1>5. /\ L >= 1 /\ d = s[L] /\ d \in Directories /\ d # Nowhere /\ L \in 1..L
      /\ pending' \in Seq(Directories) /\ Len(pending') = L - 1
      /\ \A i \in 1..L - 1 : pending'[i] = s[i] /\ i \in 1..L /\ i < L
  BY <1>0, <1>1, <1>2, <1>3, <1>4, PopFacts, DirectoryTypes
<1>6. Radix \in Nat /\ Radix >= 2 /\ Depth \in Nat /\ Depth >= 1 /\ MAX_FILE \in Nat
  BY Constants
<1>7. UNCHANGED disk /\ answer' = answer
  BY <1>0
<1>8. DiskInv' /\ Canon' = Canon /\ tree' = tree /\ logs' = logs
  BY <1>0, <1>7, CanonKept
<1>9. StackInv'
  <2>1. /\ \A i \in 1..L : i <= 1 + s[i].depth * (Radix - 1)
        /\ \A i, j \in 1..L : i < j => s[i].depth <= s[j].depth
    BY <1>0, <1>3, <1>4 DEF StackInv
  <2>2. L <= 1 + d.depth * (Radix - 1)
    BY <1>5, <2>1
  <2>3. PICK b \in Nat : b = d.depth * (Radix - 1)
    <3>1. d.depth \in Nat /\ Radix - 1 \in Nat
      BY <1>5, <1>6, DirectoryTypes
    <3>2. QED
      BY <3>1, Products
  <2>4. L - 1 <= d.depth * (Radix - 1)
    BY <2>2, <2>3
  <2>5. \A i \in 1..L - 1 : pending'[i].depth <= d.depth /\ i <= 1 + pending'[i].depth * (Radix - 1)
    BY <1>5, <2>1
  <2>6. \A i, j \in 1..L - 1 : i < j => pending'[i].depth <= pending'[j].depth
    BY <1>5, <2>1
  <2>7. QED
    BY <1>2, <1>5, <2>4, <2>5, <2>6 DEF StackInv
<1>10. OrderInv'
  <2>1. \A i, j \in 1..L : i < j => Below(s[i], s[j])
    BY <1>0, <1>3, <1>4 DEF OrderInv
  <2>2. \A i \in 1..L - 1 : Below(pending'[i], d)
    BY <1>5, <2>1
  <2>3. \A i, j \in 1..L - 1 : i < j => Below(pending'[i], pending'[j])
    BY <1>5, <2>1
  <2>4. QED
    BY <1>2, <1>5, <2>2, <2>3 DEF OrderInv
<1>11. PathInv'
  <2>1. \A i \in 1..L : Good(s[i])
    BY <1>0, <1>3, <1>4 DEF PathInv
  <2>2. Good(d) /\ \A i \in 1..L - 1 : Good(pending'[i])
    BY <1>5, <2>1
  <2>3. Good(directory') /\ \A i \in 1..Len(pending') : Good(pending'[i])
    BY <1>2, <1>5, <2>2
  <2>4. QED
    BY <1>8, <2>3 DEF PathInv, Good
<1>12. ReadInv'
  <2>1. d.depth \in 0..Depth - 1 => d.depth # Depth
    BY <1>6
  <2>2. QED
    BY <1>0, <1>2, <1>8, <2>1 DEF ReadInv
<1>13. AnswerInv'
  BY <1>0, <1>6 DEF AnswerInv
<1>14. CoverInv'
  <2>1. SUFFICES ASSUME NEW l \in Canon PROVE Ahead(l)'
    BY <1>8 DEF CoverInv
  <2>2. PICK i \in 1..L : Under(s[i], l.leaf)
    BY <1>0, <1>3, <1>4 DEF CoverInv, Ahead
  <2>3. CASE i \in 1..L - 1
    <3>1. Under(pending'[i], l.leaf)
      BY <1>5, <2>2, <2>3
    <3>2. QED
      BY <1>5, <2>3, <3>1 DEF Ahead
  <2>4. CASE i \notin 1..L - 1
    <3>1. i = L /\ Under(d, l.leaf)
      <4>1. i = L
        BY <2>4
      <4>2. QED
        BY <1>5, <2>2, <4>1
    <3>2. l \in logs /\ l.leaf \in Leaves /\ Reachable(l.leaf)
      BY <1>0, CanonLeaf
    <3>3. CASE d.depth = Depth
      <4>1. d = Leaf(l.leaf)
        BY <3>1, <3>2, <3>3, WayEnds DEF Under
      <4>2. l \in unread'
        BY <1>2, <3>2, <3>3, <4>1 DEF Leaf
      <4>3. QED
        BY <1>2, <1>5, <3>1, <3>3, <4>2 DEF Ahead
    <3>4. CASE d.depth # Depth
      <4>1. PICK k \in 0..Depth - 1 : k = d.depth
        BY <1>5, <1>6, <3>4, DirectoryTypes
      <4>2. k + 1 \in 1..Depth /\ k + 1 \in 0..Depth
        BY <1>6
      <4>3. Way(k + 1, l.leaf) \in RangeName /\ tree[Way(k + 1, l.leaf)] # "absent"
        BY <3>2, <4>2, WayInRange, CanonWay
      <4>4. Parent(Way(k + 1, l.leaf)) = d
        BY <3>1, <3>2, <4>1, WayParent DEF Under
      <4>5. Way(k + 1, l.leaf) \in unread'
        BY <1>2, <3>4, <4>3, <4>4
      <4>6. QED
        BY <1>2, <1>5, <3>1, <3>4, <4>1, <4>5 DEF Ahead
    <3>5. QED
      BY <3>3, <3>4
  <2>5. QED
    BY <2>3, <2>4
<1>15. QED
  BY <1>8, <1>9, <1>10, <1>11, <1>12, <1>13, <1>14 DEF IInv

(* While the stack, the disk and the directory stay, their parts stay. *)
LEMMA StackKept ==
  ASSUME IInv, UNCHANGED disk, UNCHANGED <<pending, directory>>
  PROVE  DiskInv' /\ StackInv' /\ OrderInv' /\ PathInv'
<1>1. /\ DiskInv /\ StackInv /\ OrderInv /\ PathInv /\ pending' = pending /\ directory' = directory
  BY DEF IInv
<1>2. DiskInv' /\ tree' = tree
  BY <1>1, CanonKept
<1>3. StackInv'
  BY <1>1 DEF StackInv
<1>4. OrderInv'
  BY <1>1 DEF OrderInv
<1>5. PathInv'
  BY <1>1, <1>2 DEF PathInv, Good
<1>6. QED
  BY <1>2, <1>3, <1>4, <1>5

LEMMA ReadRangeStep ==
  ASSUME IInv, NEW e \in unread, ReadRange(e) PROVE IInv'
<1>0. /\ DiskInv /\ StackInv /\ ReadInv /\ AnswerInv /\ CoverInv
      /\ answer = "searching" /\ directory.depth \in 0..(Depth - 1) /\ unread' = unread \ {e}
      /\ children' = IF FirstFile(e) <= MAX_FILE /\ tree[e] = "dir" THEN children \cup {e} ELSE children
      /\ UNCHANGED disk /\ pending' = pending /\ directory' = directory /\ maximum' = maximum
      /\ answer' = answer
  BY DEF IInv, ReadRange
<1>1. DiskInv' /\ StackInv' /\ OrderInv' /\ PathInv'
  BY <1>0, StackKept
<1>2. /\ directory \in Directories /\ directory # Nowhere /\ directory.depth # Depth /\ Depth \in Nat
      /\ Canon' = Canon /\ tree' = tree
  BY <1>0, DirectoryDepth, Constants, CanonKept DEF StackInv
<1>3. /\ unread \subseteq {c \in RangeName : Parent(c) = directory}
      /\ children \subseteq {c \in RangeName : Parent(c) = directory /\ tree[c] = "dir"}
  BY <1>0 DEF ReadInv
<1>4. ReadInv'
  BY <1>0, <1>2, <1>3 DEF ReadInv
<1>5. AnswerInv'
  BY <1>0 DEF AnswerInv
<1>6. CoverInv'
  <2>1. SUFFICES ASSUME NEW l \in Canon PROVE Ahead(l)'
    BY <1>2 DEF CoverInv
  <2>2. CASE \E i \in 1..Len(pending) : Under(pending[i], l.leaf)
    BY <1>0, <2>2 DEF Ahead
  <2>3. CASE ~ \E i \in 1..Len(pending) : Under(pending[i], l.leaf)
    <3>1. PICK w : w = Way(directory.depth + 1, l.leaf)
      OBVIOUS
    <3>2. Under(directory, l.leaf) /\ w \in unread \cup children
      BY <1>0, <1>2, <2>3, <3>1 DEF CoverInv, Ahead
    <3>3. PICK k \in 1..Depth : k = directory.depth + 1
      BY <1>0, <1>2
    <3>4. k \in 0..Depth
      BY <1>2
    <3>5. tree[w] = "dir" /\ FirstFile(w) <= MAX_FILE
      BY <1>0, <3>1, <3>3, <3>4, CanonLeaf, CanonWay, WayFirstFile
    <3>6. w \in unread' \cup children'
      BY <1>0, <3>2, <3>5
    <3>7. QED
      BY <1>0, <1>2, <3>1, <3>2, <3>6 DEF Ahead
  <2>4. QED
    BY <2>2, <2>3
<1>7. QED
  BY <1>1, <1>4, <1>5, <1>6 DEF IInv

LEMMA ReadLogStep ==
  ASSUME IInv, NEW e \in unread, ReadLog(e) PROVE IInv'
<1>0. /\ DiskInv /\ StackInv /\ ReadInv /\ AnswerInv /\ CoverInv
      /\ answer = "searching" /\ directory.depth = Depth /\ unread' = unread \ {e}
      /\ maximum' = IF IsCanonical(e) /\ e.regular /\ e.number > maximum THEN e.number ELSE maximum
      /\ UNCHANGED disk /\ pending' = pending /\ directory' = directory /\ children' = children
      /\ answer' = answer
  BY DEF IInv, ReadLog
<1>1. DiskInv' /\ StackInv' /\ OrderInv' /\ PathInv'
  BY <1>0, StackKept
<1>2. /\ directory \in Directories /\ directory # Nowhere /\ Depth \in Nat /\ Depth >= 1
      /\ ~ (directory.depth \in 0..(Depth - 1)) /\ MAX_FILE \in Nat
      /\ Canon' = Canon /\ tree' = tree /\ logs' = logs
  BY <1>0, DirectoryDepth, Constants, CanonKept DEF StackInv
<1>3. /\ unread \subseteq {l \in logs : l.leaf = directory.prefix}
      /\ maximum # -1 => \E l \in logs : /\ IsCanonical(l) /\ l.regular
                                         /\ l.leaf = directory.prefix /\ l.number = maximum
  BY <1>0 DEF ReadInv
<1>4. e \in logs /\ e.leaf = directory.prefix /\ e.number \in Nat
  BY <1>0, <1>2, <1>3 DEF DiskInv, LogName
<1>5. PICK m \in -1..MAX_FILE : m = maximum
  BY <1>0 DEF AnswerInv
<1>6. PICK n \in Nat : n = e.number
  BY <1>4
<1>7. IsCanonical(e) => n <= MAX_FILE
  BY <1>6 DEF IsCanonical
<1>8. maximum' \in -1..MAX_FILE /\ m <= maximum'
  BY <1>0, <1>2, <1>5, <1>6, <1>7
<1>9. ReadInv'
  <2>1. unread' \subseteq {l \in logs : l.leaf = directory.prefix}
    BY <1>0, <1>3
  <2>2. maximum' # -1 => \E l \in logs : /\ IsCanonical(l) /\ l.regular
                                         /\ l.leaf = directory.prefix /\ l.number = maximum'
    BY <1>0, <1>3, <1>4
  <2>3. QED
    BY <1>0, <1>2, <2>1, <2>2 DEF ReadInv, IsCanonical
<1>10. AnswerInv'
  BY <1>0, <1>8 DEF AnswerInv
<1>11. CoverInv'
  <2>1. SUFFICES ASSUME NEW l \in Canon PROVE Ahead(l)'
    BY <1>2 DEF CoverInv
  <2>2. CASE \E i \in 1..Len(pending) : Under(pending[i], l.leaf)
    BY <1>0, <2>2 DEF Ahead
  <2>3. CASE ~ \E i \in 1..Len(pending) : Under(pending[i], l.leaf)
    <3>1. Under(directory, l.leaf) /\ (l \in unread \/ l.number <= maximum)
      BY <1>0, <1>2, <2>3 DEF CoverInv, Ahead
    <3>2. IsCanonical(l) /\ l.regular /\ l.number \in Nat
      BY <1>0, CanonLeaf
    <3>3. l \in unread' \/ l.number <= maximum'
      <4>1. CASE l = e
        <5>1. l.number = n /\ maximum' = IF n > m THEN n ELSE m
          BY <1>0, <1>5, <1>6, <3>2, <4>1
        <5>2. QED
          BY <5>1
      <4>2. CASE l # e /\ l \in unread
        BY <1>0, <4>2
      <4>3. CASE l.number <= maximum
        BY <1>5, <1>8, <3>2, <4>3
      <4>4. QED
        BY <3>1, <4>1, <4>2, <4>3
    <3>4. QED
      BY <1>0, <1>2, <3>1, <3>3 DEF Ahead
  <2>4. QED
    BY <2>2, <2>3
<1>12. QED
  BY <1>1, <1>9, <1>10, <1>11 DEF IInv

LEMMA PushChildrenStep ==
  ASSUME IInv, PushChildren PROVE IInv'
<1>0. /\ DiskInv /\ StackInv /\ OrderInv /\ PathInv /\ ReadInv /\ AnswerInv /\ CoverInv
      /\ answer = "searching" /\ directory.depth \in 0..(Depth - 1) /\ unread = {}
      /\ pending' = pending \o Reverse(Sorted(children)) /\ directory' = Nowhere
      /\ UNCHANGED disk /\ unread' = unread /\ children' = children /\ maximum' = maximum
      /\ answer' = answer
  BY DEF IInv, PushChildren
<1>1. PICK d \in Directories : d = directory /\ d # Nowhere
  BY <1>0, DirectoryDepth DEF StackInv
<1>2. Radix \in Nat /\ Radix >= 2 /\ Depth \in Nat /\ Depth >= 1
  BY Constants
<1>3. DiskInv' /\ Canon' = Canon /\ tree' = tree /\ tree \in Trees /\ d.depth # Depth
  BY <1>0, <1>1, <1>2, CanonKept DEF DiskInv
<1>4. \A c \in children : c \in RangeName /\ c \in Directories /\ Parent(c) = d /\ tree[c] = "dir"
                          /\ c.depth = d.depth + 1
  <2>1. \A c \in children : c \in RangeName /\ Parent(c) = d /\ tree[c] = "dir"
    BY <1>0, <1>1 DEF ReadInv
  <2>2. QED
    BY <2>1, ChildShape, DirectoryTypes
<1>5. PICK n \in 0..Radix : \E t \in [1..n -> children] :
           /\ Reverse(Sorted(children)) = t
           /\ \A c \in children : \E i \in 1..n : t[i] = c
           /\ \A i, j \in 1..n : i < j => t[i].prefix < t[j].prefix
  <2>1. children \in SUBSET {c \in RangeName : Parent(c) = d}
    BY <1>4
  <2>2. QED
    BY <2>1, Pushed
<1>6. PICK t \in [1..n -> children] :
           /\ Reverse(Sorted(children)) = t
           /\ \A c \in children : \E i \in 1..n : t[i] = c
           /\ \A i, j \in 1..n : i < j => t[i].prefix < t[j].prefix
  BY <1>5
<1>7. PICK s \in Seq(Directories) : s = pending
  BY <1>0 DEF StackInv
<1>8. PICK L \in Nat : L = Len(s)
  OBVIOUS
<1>9. n \in Nat /\ t \in [1..n -> Directories]
  BY <1>2, <1>4
<1>10. PICK u \in Seq(Directories) :
         /\ u = pending' /\ Len(u) = L + n
         /\ \A i \in 1..L : i \in 1..L + n /\ u[i] = s[i]
         /\ \A i \in 1..n : L + i \in 1..L + n /\ u[L + i] = t[i]
         /\ \A i \in 1..L + n : i \in 1..L \/ \E j \in 1..n : i = L + j
  <2>1. pending' = s \o t
    BY <1>0, <1>6, <1>7
  <2>2. PICK u : u = s \o t
    OBVIOUS
  <2>3. /\ u \in Seq(Directories) /\ Len(u) = Len(s) + n
        /\ \A i \in 1..Len(s) : i \in 1..Len(u) /\ u[i] = s[i]
        /\ \A i \in 1..n : Len(s) + i \in 1..Len(u) /\ u[Len(s) + i] = t[i]
        /\ \A i \in 1..Len(u) : i \in 1..Len(s) \/ \E j \in 1..n : i = Len(s) + j
    <3>1. /\ s \o t \in Seq(Directories) /\ Len(s \o t) = Len(s) + n
          /\ \A i \in 1..Len(s) : i \in 1..Len(s \o t) /\ (s \o t)[i] = s[i]
          /\ \A i \in 1..n : Len(s) + i \in 1..Len(s \o t) /\ (s \o t)[Len(s) + i] = t[i]
          /\ \A i \in 1..Len(s \o t) : i \in 1..Len(s) \/ \E j \in 1..n : i = Len(s) + j
      BY ONLY <1>9, s \in Seq(Directories), PushFacts, ZenonT(60)
    <3>2. QED
      BY <2>2, <3>1, Zenon
  <2>4. u = pending'
    BY <2>1, <2>2
  <2>5. Len(u) = L + n /\ 1..Len(u) = 1..L + n /\ 1..Len(s) = 1..L
    BY <1>8, <2>3
  <2>6. /\ \A i \in 1..L : i \in 1..L + n /\ u[i] = s[i]
        /\ \A i \in 1..n : L + i \in 1..L + n /\ u[L + i] = t[i]
        /\ \A i \in 1..L + n : i \in 1..L \/ \E j \in 1..n : i = L + j
    BY <1>8, <2>3, <2>5
  <2>7. QED
    BY <2>3, <2>4, <2>5, <2>6
<1>11. \A j \in 1..n : /\ t[j] \in RangeName /\ Parent(t[j]) = d /\ tree[t[j]] = "dir"
                       /\ t[j].depth = d.depth + 1
  BY <1>4, <1>6
<1>12. PICK k \in Nat : k = d.depth
  BY <1>2, DirectoryTypes
<1>13. StackInv'
  <2>1. /\ \A i \in 1..L : i <= 1 + s[i].depth * (Radix - 1) /\ s[i].depth <= k
        /\ \A i, j \in 1..L : i < j => s[i].depth <= s[j].depth
        /\ L <= k * (Radix - 1)
    BY <1>0, <1>1, <1>7, <1>8, <1>12 DEF StackInv
  <2>2. ASSUME NEW i \in 1..L + n PROVE i <= 1 + u[i].depth * (Radix - 1)
    <3>1. CASE i \in 1..L
      BY <1>10, <2>1, <3>1
    <3>2. CASE \E j \in 1..n : i = L + j
      <4>1. PICK j \in 1..n : i = L + j
        BY <3>2
      <4>2. u[i].depth = k + 1
        BY <1>10, <1>11, <1>12, <4>1
      <4>3. PICK r \in Nat : r = Radix - 1
        BY <1>2
      <4>4. (k + 1) * r = k * r + 1 * r /\ k * r \in Nat
        BY Products
      <4>5. j <= r + 1 /\ L <= k * r
        BY <1>2, <1>5, <2>1, <4>1, <4>3
      <4>6. i <= 1 + (k + 1) * r
        BY <4>1, <4>4, <4>5
      <4>7. QED
        BY <4>2, <4>3, <4>6
    <3>3. QED
      BY <1>10, <3>1, <3>2
  <2>3. ASSUME NEW i \in 1..L + n, NEW j \in 1..L + n, i < j PROVE u[i].depth <= u[j].depth
    <3>1. CASE j \in 1..L
      <4>1. i \in 1..L
        BY <2>3, <3>1
      <4>2. QED
        BY <1>10, <2>1, <2>3, <3>1, <4>1
    <3>2. CASE \E m \in 1..n : j = L + m
      <4>0. PICK m \in 1..n : j = L + m
        BY <3>2
      <4>1. u[j].depth = k + 1
        BY <1>10, <1>11, <1>12, <4>0
      <4>2. CASE i \in 1..L
        <5>0. s[i] \in Directories
          BY <1>8, <4>2
        <5>1. u[i] = s[i] /\ s[i].depth <= k /\ s[i] \in Directories
          BY <1>10, <2>1, <4>2, <5>0
        <5>2. s[i].depth \in Int
          BY <1>2, <5>1, DirectoryTypes
        <5>3. QED
          BY <4>1, <5>1, <5>2
      <4>3. CASE \E o \in 1..n : i = L + o
        <5>1. PICK o \in 1..n : i = L + o
          BY <4>3
        <5>2. u[i].depth = k + 1
          BY <1>10, <1>11, <1>12, <5>1
        <5>3. QED
          BY <4>1, <5>2
      <4>4. QED
        BY <1>10, <4>2, <4>3
    <3>3. QED
      BY <1>10, <3>1, <3>2
  <2>4. QED
    BY <1>0, <1>10, <2>2, <2>3 DEF StackInv
<1>14. OrderInv'
  <2>1. /\ \A i, j \in 1..L : i < j => Below(s[i], s[j])
        /\ \A i \in 1..L : Below(s[i], d)
    BY <1>0, <1>1, <1>7, <1>8 DEF OrderInv
  <2>2. ASSUME NEW i \in 1..L + n, NEW j \in 1..L + n, i < j PROVE Below(u[i], u[j])
    <3>1. CASE j \in 1..L
      <4>1. i \in 1..L
        BY <2>2, <3>1
      <4>2. QED
        BY <1>10, <2>1, <2>2, <3>1, <4>1
    <3>2. CASE \E m \in 1..n : j = L + m
      <4>1. PICK m \in 1..n : j = L + m
        BY <3>2
      <4>2. u[j] = t[m]
        BY <1>10, <4>1
      <4>3. CASE i \in 1..L
        <5>1. Below(s[i], t[m])
          BY <1>11, <2>1, <4>3, BelowChild
        <5>2. QED
          BY <1>10, <4>2, <4>3, <5>1
      <4>4. CASE \E o \in 1..n : i = L + o
        <5>1. PICK o \in 1..n : i = L + o
          BY <4>4
        <5>2. u[i] = t[o] /\ o < m
          BY <1>10, <2>2, <4>1, <5>1
        <5>3. t[o].prefix < t[m].prefix
          BY <1>6, <5>2
        <5>4. Below(t[o], t[m])
          BY <1>11, <5>3, BelowSibling
        <5>5. QED
          BY <4>2, <5>2, <5>4
      <4>5. QED
        BY <1>10, <4>3, <4>4
    <3>3. QED
      BY <1>10, <3>1, <3>2
  <2>3. QED
    BY <1>0, <1>10, <2>2 DEF OrderInv
<1>15. PathInv'
  <2>1. Good(d) /\ \A i \in 1..L : Good(s[i])
    BY <1>0, <1>1, <1>7, <1>8 DEF PathInv
  <2>2. ASSUME NEW i \in 1..L + n PROVE Good(u[i])
    <3>1. CASE i \in 1..L
      BY <1>10, <2>1, <3>1
    <3>2. CASE \E j \in 1..n : i = L + j
      <4>1. PICK j \in 1..n : i = L + j
        BY <3>2
      <4>2. Good(t[j])
        BY <1>3, <1>11, <2>1, GoodChild
      <4>3. QED
        BY <1>10, <4>1, <4>2
    <3>3. QED
      BY <1>10, <3>1, <3>2
  <2>3. \A i \in 1..Len(pending') : Good(pending'[i])
    BY <1>10, <2>2
  <2>4. QED
    BY <1>0, <1>3, <2>3 DEF PathInv, Good
<1>16. ReadInv'
  <2>1. Nowhere.depth = -1
    BY DirectoryTypes
  <2>2. QED
    BY <1>0, <1>2, <2>1 DEF ReadInv
<1>17. AnswerInv'
  BY <1>0 DEF AnswerInv
<1>18. CoverInv'
  <2>1. SUFFICES ASSUME NEW l \in Canon PROVE \E i \in 1..L + n : Under(u[i], l.leaf)
    BY <1>3, <1>10 DEF CoverInv, Ahead
  <2>2. CASE \E i \in 1..Len(pending) : Under(pending[i], l.leaf)
    BY <1>7, <1>8, <1>10, <2>2
  <2>3. CASE ~ \E i \in 1..Len(pending) : Under(pending[i], l.leaf)
    <3>1. PICK w : w = Way(d.depth + 1, l.leaf)
      OBVIOUS
    <3>2. w \in children
      BY <1>0, <1>1, <1>3, <2>3, <3>1 DEF CoverInv, Ahead
    <3>3. PICK j \in 1..n : t[j] = w
      BY <1>6, <3>2
    <3>4. Under(w, l.leaf)
      BY <3>1, UnderWay
    <3>5. L + j \in 1..L + n /\ u[L + j] = w
      BY <1>10, <3>3
    <3>6. QED
      BY <3>4, <3>5
  <2>4. QED
    BY <2>2, <2>3
<1>19. QED
  BY <1>3, <1>13, <1>14, <1>15, <1>16, <1>17, <1>18 DEF IInv

LEMMA FinishLeafStep ==
  ASSUME IInv, FinishLeaf PROVE IInv'
<1>0. /\ DiskInv /\ StackInv /\ OrderInv /\ PathInv /\ ReadInv /\ AnswerInv /\ CoverInv
      /\ answer = "searching" /\ directory.depth = Depth /\ unread = {}
      /\ UNCHANGED disk /\ pending' = pending /\ unread' = unread /\ children' = children
      /\ maximum' = maximum
  BY DEF IInv, FinishLeaf
<1>1. /\ directory \in Directories /\ directory # Nowhere /\ Depth \in Nat /\ Depth >= 1
      /\ Nowhere.depth = -1
  BY <1>0, DirectoryDepth, DirectoryTypes, Constants DEF StackInv
<1>2. CASE maximum # -1
  <2>1. answer' = "found" /\ directory' = directory
    BY <1>2 DEF FinishLeaf
  <2>2. DiskInv' /\ StackInv' /\ OrderInv' /\ PathInv' /\ Canon' = Canon /\ tree' = tree /\ logs' = logs
    BY <1>0, <2>1, StackKept, CanonKept
  <2>3. ReadInv'
    BY <1>0, <2>1, <2>2 DEF ReadInv, IsCanonical
  <2>4. AnswerInv'
    BY <1>0, <1>2, <2>1 DEF AnswerInv
  <2>5. CoverInv'
    BY <1>0, <2>1, <2>2 DEF CoverInv, Ahead
  <2>6. QED
    BY <2>2, <2>3, <2>4, <2>5 DEF IInv
<1>3. CASE maximum = -1
  <2>1. answer' = answer /\ directory' = Nowhere
    BY <1>3 DEF FinishLeaf
  <2>2. DiskInv' /\ Canon' = Canon /\ tree' = tree
    BY <1>0, CanonKept
  <2>3. StackInv'
    BY <1>0, <2>1 DEF StackInv
  <2>4. OrderInv'
    BY <1>0, <2>1 DEF OrderInv
  <2>5. PathInv'
    BY <1>0, <2>1, <2>2 DEF PathInv, Good
  <2>6. ReadInv'
    BY <1>1, <2>1 DEF ReadInv
  <2>7. AnswerInv'
    BY <1>0, <2>1 DEF AnswerInv
  <2>8. CoverInv'
    <3>1. SUFFICES ASSUME NEW l \in Canon PROVE \E i \in 1..Len(pending) : Under(pending[i], l.leaf)
      BY <1>0, <2>2 DEF CoverInv, Ahead
    <3>2. l.number \in Nat
      BY <1>0, CanonLeaf
    <3>3. ~ (l \in unread \/ l.number <= maximum)
      BY <1>0, <1>3, <3>2
    <3>4. QED
      BY <1>0, <3>3 DEF CoverInv, Ahead
  <2>9. QED
    BY <2>2, <2>3, <2>4, <2>5, <2>6, <2>7, <2>8 DEF IInv
<1>4. QED
  BY <1>2, <1>3

\* The other steps end the search and leave everything else.
LEMMA EndStep ==
  ASSUME IInv, UNCHANGED <<disk, pending, directory, unread, children, maximum>>,
         answer' = answer \/ answer' = "error" \/ (answer' = "none" /\ directory = Nowhere /\ pending = << >>)
  PROVE  IInv'
<1>0. /\ ReadInv /\ AnswerInv /\ CoverInv
      /\ UNCHANGED disk /\ pending' = pending /\ directory' = directory
      /\ unread' = unread /\ children' = children /\ maximum' = maximum
  BY DEF IInv
<1>1. DiskInv' /\ StackInv' /\ OrderInv' /\ PathInv' /\ Canon' = Canon /\ tree' = tree /\ logs' = logs
  BY <1>0, StackKept, CanonKept DEF IInv
<1>2. ReadInv'
  BY <1>0, <1>1 DEF ReadInv, IsCanonical
<1>3. AnswerInv'
  BY <1>0 DEF AnswerInv
<1>4. CoverInv'
  BY <1>0, <1>1 DEF CoverInv, Ahead
<1>5. QED
  BY <1>1, <1>2, <1>3, <1>4 DEF IInv

-----------------------------------------------------------------------------
(* The search is never in another state.                                    *)
THEOREM SearchInvariant == Spec => []IInv
<1>1. Init => IInv
  BY InitInv
<1>2. IInv /\ [Next]_vars => IInv'
  <2> SUFFICES ASSUME IInv, [Next]_vars PROVE IInv'
    OBVIOUS
  <2>1. CASE PopDirectory
    BY <2>1, PopDirectoryStep
  <2>2. CASE PushChildren
    BY <2>2, PushChildrenStep
  <2>3. CASE FinishLeaf
    BY <2>3, FinishLeafStep
  <2>4. CASE Exhausted
    BY <2>4, EndStep DEF Exhausted
  <2>5. CASE ReadFails
    BY <2>5, EndStep DEF ReadFails
  <2>6. ASSUME NEW e \in unread, ReadRange(e) PROVE IInv'
    BY <2>6, ReadRangeStep
  <2>7. ASSUME NEW e \in unread, ReadLog(e) PROVE IInv'
    BY <2>7, ReadLogStep
  <2>8. CASE UNCHANGED vars
    BY <2>8, EndStep DEF vars
  <2>9. QED
    BY <2>1, <2>2, <2>3, <2>4, <2>5, <2>6, <2>7, <2>8 DEF Next
<1>3. QED
  BY <1>1, <1>2, PTL DEF Spec

(* The search returns the highest log that is where it belongs, and none      *)
(* only if there is none: maximum_log_file's descending order and its skipped *)
(* entries never make it miss a higher one (MaximumIsExact).                  *)
THEOREM HighestLogIsFound == Spec => []MaximumIsExact
<1>1. IInv => MaximumIsExact
  <2> SUFFICES ASSUME IInv PROVE MaximumIsExact
    OBVIOUS
  <2>0. /\ DiskInv /\ StackInv /\ OrderInv /\ PathInv /\ ReadInv /\ AnswerInv /\ CoverInv
    BY DEF IInv
  <2>1. Existing = {l.number : l \in Canon}
    BY DEF Existing, Canon, IsCanonical
  <2>2. Radix \in Nat \ {0} /\ Depth \in Nat /\ Depth >= 1
    BY Constants
  <2>3. ASSUME answer = "none" PROVE Existing = {}
    <3>1. directory = Nowhere /\ pending = << >>
      BY <2>0, <2>3 DEF AnswerInv
    <3>2. \A i \in 1..Len(pending) : FALSE
      BY <3>1
    <3>3. ASSUME NEW l \in Canon PROVE FALSE
      <4>1. Ahead(l)
        BY <2>0 DEF CoverInv
      <4>2. QED
        BY <3>1, <3>2, <4>1 DEF Ahead
    <3>4. QED
      BY <2>1, <3>3
  <2>4. ASSUME answer = "found" PROVE maximum \in Existing /\ \A n \in Existing : n <= maximum
    <3>1. directory.depth = Depth /\ maximum # -1 /\ unread = {}
      BY <2>0, <2>4 DEF AnswerInv
    <3>2. directory \in Directories /\ directory # Nowhere /\ directory # Base
      BY <2>0, <2>2, <3>1, DirectoryDepth, DirectoryTypes DEF StackInv
    <3>3. PICK l \in logs : IsCanonical(l) /\ l.regular /\ l.leaf = directory.prefix /\ l.number = maximum
      BY <2>0, <3>1 DEF ReadInv
    <3>4. l \in LogName /\ l.leaf \in Leaves
      BY <2>0, <3>3 DEF DiskInv, LogName, Leaves
    <3>5. Under(directory, l.leaf)
      <4>1. directory \in RangeName
        BY <3>2 DEF Directories
      <4>2. directory = [depth |-> directory.depth, prefix |-> directory.prefix]
        BY <4>1 DEF RangeName
      <4>3. Way(Depth, l.leaf) = directory
        BY <3>1, <3>3, <3>4, <4>2, WayEnds DEF Leaf
      <4>4. QED
        BY <3>1, <4>3 DEF Under
    <3>6. Reachable(l.leaf)
      <4>1. \A k \in 0..Depth : tree[Way(k, l.leaf)] = "dir"
        BY <2>0, <3>1, <3>2, <3>4, <3>5 DEF PathInv, Good
      <4>2. QED
        BY <4>1 DEF Reachable, Way
    <3>7. l \in Canon
      BY <3>3, <3>6 DEF Canon
    <3>8. l.number \in Nat /\ l.number \div Radix = l.leaf
      BY <2>0, <3>7, CanonLeaf DEF IsCanonical
    <3>9. ASSUME NEW m \in Canon PROVE m.number <= maximum
      <4>1. m.leaf \in Leaves /\ m.number \in Nat /\ m.number \div Radix = m.leaf
        BY <2>0, CanonLeaf DEF IsCanonical
      <4>2. CASE \E i \in 1..Len(pending) : Under(pending[i], m.leaf)
        <5>1. m.leaf < l.leaf
          BY <2>0, <3>2, <3>4, <3>5, <4>1, <4>2 DEF OrderInv, Below
        <5>2. PICK x \in Nat : x = m.number
          BY <4>1
        <5>3. PICK y \in Nat : y = l.number
          BY <3>8
        <5>4. x < y
          BY <2>2, <3>8, <4>1, <5>1, <5>2, <5>3, QuotientMono
        <5>5. QED
          BY <3>3, <5>2, <5>3, <5>4
      <4>3. CASE ~ \E i \in 1..Len(pending) : Under(pending[i], m.leaf)
        <5>1. Ahead(m)
          BY <2>0 DEF CoverInv
        <5>2. QED
          BY <3>1, <4>3, <5>1 DEF Ahead
      <4>4. QED
        BY <4>2, <4>3
    <3>10. maximum \in Existing
      BY <2>1, <3>3, <3>7
    <3>11. QED
      BY <2>1, <3>9, <3>10
  <2>5. QED
    BY <2>3, <2>4 DEF MaximumIsExact
<1>2. QED
  BY <1>1, SearchInvariant, PTL

(* The stack of maximum_log_file never holds more than one directory's        *)
(* children per level, the deeper levels on top (StackIsSiblings).            *)
THEOREM OnlySiblingsWait == Spec => []StackIsSiblings
<1>1. IInv => StackIsSiblings
  <2> SUFFICES ASSUME IInv PROVE StackIsSiblings
    OBVIOUS
  <2>1. /\ pending \in Seq(Directories)
        /\ \A i \in 1..Len(pending) : i <= 1 + pending[i].depth * (Radix - 1)
        /\ \A i, j \in 1..Len(pending) : i < j => pending[i].depth <= pending[j].depth
    BY DEF IInv, StackInv
  <2>2. PICK L \in Nat : L = Len(pending)
    BY <2>1
  <2>3. PICK r \in Nat : r = Radix - 1
    BY Constants
  <2>4. Depth \in Nat
    BY Constants
  <2>5. PICK m \in Nat : m = Depth * r
    BY <2>4, Products
  <2>6. L <= 1 + m
    <3>1. CASE L = 0
      BY <3>1
    <3>2. CASE L # 0
      <4>1. L \in 1..L
        BY <3>2
      <4>2. pending[L] \in Directories
        BY <2>1, <2>2, <4>1
      <4>3. PICK k \in Nat : k = pending[L].depth /\ k <= Depth
        BY <2>4, <4>2, DirectoryTypes
      <4>4. L <= 1 + k * r
        BY <2>1, <2>2, <2>3, <4>1, <4>3
      <4>5. k * r <= m /\ k * r \in Nat
        BY <2>4, <2>5, <4>3, Products
      <4>6. QED
        BY <4>4, <4>5
    <3>3. QED
      BY <3>1, <3>2
  <2>7. ASSUME NEW i \in 1..L - 1 PROVE pending[i].depth <= pending[i + 1].depth
    <3>1. i \in 1..L /\ i + 1 \in 1..L /\ i < i + 1
      OBVIOUS
    <3>2. QED
      BY <2>1, <2>2, <3>1
  <2>8. QED
    BY <2>2, <2>3, <2>5, <2>6, <2>7 DEF StackIsSiblings
<1>2. QED
  BY <1>1, SearchInvariant, PTL
=============================================================================
