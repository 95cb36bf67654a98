--------------------------- MODULE ScorecardProofs ---------------------------
(***************************************************************************)
(* Theorems about Scorecard, for every hierarchy, set of issues, refresh   *)
(* scope, sprint length and request.                                       *)
(***************************************************************************)
EXTENDS Scorecard, FiniteSetTheorems, TLAPS

-----------------------------------------------------------------------------
(* Fractions in lowest terms.                                              *)

Divides(k, n) == \E m \in Nat : n = k * m

Common(a, b) == {k \in Nat \ {0} : Divides(k, a) /\ Divides(k, b)}

Greatest(S) == CHOOSE g \in S : \A k \in S : k <= g

Euclid(g) ==
    g = [p \in Nat \X Nat |-> IF p[2] = 0 THEN p[1] ELSE g[<<p[2], p[1] % p[2]>>]]

LEMMA DivMod ==
    ASSUME NEW a \in Nat, NEW b \in Nat \ {0}
    PROVE  /\ a \div b \in Nat /\ a % b \in Nat /\ a % b < b
           /\ a = b * (a \div b) + (a % b)
BY SMT

\* The two numbers of a step of Euclid's algorithm have the same divisors.
LEMMA EuclidStep ==
    ASSUME NEW a \in Nat, NEW b \in Nat \ {0}
    PROVE  Common(a, b) = Common(b, a % b)
<1> DEFINE q == a \div b
           r == a % b
<1>1. q \in Nat /\ r \in Nat /\ a = b * q + r
  BY DivMod
<1> HIDE DEF q, r
<1>2. ASSUME NEW k \in Nat \ {0}, Divides(k, a), Divides(k, b) PROVE Divides(k, r)
  <2>1. PICK m \in Nat : a = k * m
    BY <1>2 DEF Divides
  <2>2. PICK n \in Nat : b = k * n
    BY <1>2 DEF Divides
  <2>3. k * m = (k * n) * q + r
    BY <1>1, <2>1, <2>2
  <2>4. (k * n) * q = k * (n * q) /\ n * q \in Nat
    BY <1>1
  <2> DEFINE nq == n * q
  <2> HIDE DEF nq
  <2>5. k * m = k * nq + r /\ nq \in Nat
    BY <2>3, <2>4 DEF nq
  <2>6. m >= nq
    BY <1>1, <2>5
  <2>7. r = k * (m - nq) /\ m - nq \in Nat
    BY <1>1, <2>5, <2>6
  <2> QED BY <2>7 DEF Divides
<1>3. ASSUME NEW k \in Nat \ {0}, Divides(k, b), Divides(k, r) PROVE Divides(k, a)
  <2>1. PICK m \in Nat : b = k * m
    BY <1>3 DEF Divides
  <2>2. PICK n \in Nat : r = k * n
    BY <1>3 DEF Divides
  <2>3. a = k * (m * q + n) /\ m * q + n \in Nat
    BY <1>1, <2>1, <2>2
  <2> QED BY <2>3 DEF Divides
<1>4. \A k \in Nat \ {0} : Divides(k, a) /\ Divides(k, b) <=> Divides(k, b) /\ Divides(k, r)
  BY <1>2, <1>3
<1> QED BY <1>4 DEF Common, r

\* There is a function as the definition of gcd asks for.
LEMMA EuclidEnds == \E g : Euclid(g)
<1> DEFINE G(a, b) == IF b = 0 THEN a ELSE Greatest(Common(a, b))
           g == [p \in Nat \X Nat |-> G(p[1], p[2])]
<1>1. ASSUME NEW a \in Nat, NEW b \in Nat \ {0} PROVE G(a, b) = G(b, a % b)
  <2>1. CASE a % b = 0
    <3>1. Divides(b, a) /\ Divides(b, b)
      <4>1. a = b * (a \div b) /\ a \div b \in Nat /\ b = b * 1
        BY <2>1, DivMod
      <4> QED BY <4>1 DEF Divides
    <3>2. b \in Common(a, b)
      BY <3>1 DEF Common
    <3>3. ASSUME NEW k \in Common(a, b) PROVE k \in Nat /\ k <= b
      <4>1. k \in Nat \ {0} /\ Divides(k, b)
        BY DEF Common
      <4>2. PICK m \in Nat : b = k * m
        BY <4>1 DEF Divides
      <4>3. m # 0
        BY <4>1, <4>2
      <4> QED BY <4>1, <4>2, <4>3
    <3>4. Greatest(Common(a, b)) = b
      <4>1. \A k \in Common(a, b) : k <= b /\ k \in Nat
        BY <3>3
      <4> DEFINE best == Greatest(Common(a, b))
      <4>2. best \in Common(a, b) /\ \A k \in Common(a, b) : k <= best
        BY <3>2, <4>1 DEF Greatest
      <4> HIDE DEF best
      <4>3. best = b
        BY <3>2, <4>1, <4>2
      <4> QED BY <4>3 DEF best
    <3> QED BY <2>1, <3>4
  <2>2. CASE a % b # 0
    BY <2>2, EuclidStep
  <2> QED BY <2>1, <2>2
<1>2. ASSUME NEW p \in Nat \X Nat
      PROVE  g[p] = IF p[2] = 0 THEN p[1] ELSE g[<<p[2], p[1] % p[2]>>]
  <2>1. p[1] \in Nat /\ p[2] \in Nat
    OBVIOUS
  <2>2. CASE p[2] = 0
    BY <2>2
  <2>3. CASE p[2] # 0
    <3>1. p[1] % p[2] \in Nat
      BY <2>1, <2>3, DivMod
    <3>2. g[<<p[2], p[1] % p[2]>>] = G(p[2], p[1] % p[2])
      BY <2>1, <3>1
    <3>3. g[p] = G(p[1], p[2])
      OBVIOUS
    <3> QED BY <1>1, <2>1, <2>3, <3>2, <3>3
  <2> QED BY <2>2, <2>3
<1>3. g = [p \in Nat \X Nat |-> g[p]]
  OBVIOUS
<1> HIDE DEF g
<1>4. Euclid(g)
  BY <1>2, <1>3 DEF Euclid
<1> QED BY <1>4

LEMMA GcdIsEuclid == Euclid(gcd)
<1>1. gcd = CHOOSE g : Euclid(g)
  BY Zenon DEF gcd, Euclid
<1> QED BY <1>1, EuclidEnds

LEMMA GcdStep ==
    ASSUME NEW a \in Nat
    PROVE  /\ gcd[<<a, 0>>] = a
           /\ \A b \in Nat \ {0} : gcd[<<a, b>>] = gcd[<<b, a % b>>]
<1>1. \A p \in Nat \X Nat :
        gcd[p] = IF p[2] = 0 THEN p[1] ELSE gcd[<<p[2], p[1] % p[2]>>]
  BY GcdIsEuclid DEF Euclid
<1>2. ASSUME NEW b \in Nat
      PROVE  gcd[<<a, b>>] = IF b = 0 THEN a ELSE gcd[<<b, a % b>>]
  <2>1. <<a, b>> \in Nat \X Nat /\ <<a, b>>[1] = a /\ <<a, b>>[2] = b
    OBVIOUS
  <2> QED BY <1>1, <2>1
<1> QED BY <1>2

LEMMA Least ==
    ASSUME NEW S \in SUBSET Nat, S # {}
    PROVE  \E n \in S : \A m \in S : ~(m < n)
<1>1. PICK n \in S : \A m \in S : ~(<<m, n>> \in OpToRel(<, Nat))
  BY NatLessThanWellFounded, WFMin
<1>2. ASSUME NEW m \in S, m < n PROVE FALSE
  <2>1. <<m, n>> \in OpToRel(<, Nat)
    BY <1>2 DEF OpToRel
  <2> QED BY <1>1, <2>1
<1> QED BY <1>2

DividesBoth(a, b) ==
    /\ gcd[<<a, b>>] \in Nat
    /\ Divides(gcd[<<a, b>>], a) /\ Divides(gcd[<<a, b>>], b)

LEMMA GcdDivides ==
    ASSUME NEW a \in Nat, NEW b \in Nat
    PROVE  DividesBoth(a, b) /\ (b > 0 => gcd[<<a, b>>] > 0)
<1> DEFINE Bad == {n \in Nat : ~\A m \in Nat : DividesBoth(m, n)}
<1>1. Bad = {}
  <2> SUFFICES ASSUME Bad # {} PROVE FALSE
    OBVIOUS
  <2>1. PICK n \in Bad : \A m \in Bad : ~(m < n)
    <3>1. Bad \in SUBSET Nat
      OBVIOUS
    <3> HIDE DEF Bad
    <3> QED BY <3>1, Least
  <2>2. PICK m \in Nat : ~DividesBoth(m, n)
    OBVIOUS
  <2>3. n \in Nat
    OBVIOUS
  <2>4. n # 0
    <3> SUFFICES ASSUME n = 0 PROVE FALSE
      OBVIOUS
    <3>1. gcd[<<m, n>>] = m /\ m = m * 1 /\ n = m * 0
      BY <2>2, GcdStep
    <3> QED BY <2>2, <3>1 DEF DividesBoth, Divides
  <2> DEFINE r == m % n
             q == m \div n
  <2>5. r \in Nat /\ r < n /\ q \in Nat /\ m = n * q + r
    BY <2>2, <2>3, <2>4, DivMod
  <2>6. gcd[<<m, n>>] = gcd[<<n, r>>]
    BY <2>2, <2>3, <2>4, GcdStep
  <2> HIDE DEF r, q
  <2>7. r \notin Bad
    BY <2>1, <2>5
  <2>8. DividesBoth(n, r)
    BY <2>3, <2>5, <2>7
  <2> DEFINE g == gcd[<<n, r>>]
  <2>9. g \in Nat
    BY <2>8 DEF DividesBoth
  <2>10. PICK x \in Nat : n = g * x
    BY <2>8 DEF DividesBoth, Divides
  <2>11. PICK y \in Nat : r = g * y
    BY <2>8 DEF DividesBoth, Divides
  <2> HIDE DEF g
  <2>12. m = g * (x * q + y) /\ x * q + y \in Nat
    BY <2>5, <2>9, <2>10, <2>11
  <2>13. Divides(g, m) /\ Divides(g, n)
    BY <2>10, <2>12 DEF Divides
  <2> QED BY <2>2, <2>6, <2>9, <2>13 DEF DividesBoth, g
<1>2. DividesBoth(a, b)
  BY <1>1
<1>3. ASSUME b > 0 PROVE gcd[<<a, b>>] > 0
  <2> DEFINE g == gcd[<<a, b>>]
  <2>1. g \in Nat
    BY <1>2 DEF DividesBoth
  <2>2. PICK x \in Nat : b = g * x
    BY <1>2 DEF DividesBoth, Divides
  <2> HIDE DEF g
  <2>3. g > 0
    BY <1>3, <2>1, <2>2
  <2> QED BY <2>3 DEF g
<1> QED BY <1>2, <1>3

LEMMA GcdScale ==
    ASSUME NEW k \in Nat \ {0}, NEW a \in Nat, NEW b \in Nat
    PROVE  gcd[<<k * a, k * b>>] = k * gcd[<<a, b>>]
<1> DEFINE Bad == {n \in Nat : ~\A m \in Nat : gcd[<<k * m, k * n>>] = k * gcd[<<m, n>>]}
<1> SUFFICES ASSUME Bad # {} PROVE FALSE
  OBVIOUS
<1>1. PICK n \in Bad : \A m \in Bad : ~(m < n)
  <2>1. Bad \in SUBSET Nat
    OBVIOUS
  <2> HIDE DEF Bad
  <2> QED BY <2>1, Least
<1>2. PICK m \in Nat : gcd[<<k * m, k * n>>] # k * gcd[<<m, n>>]
  OBVIOUS
<1>3. n \in Nat
  OBVIOUS
<1>4. n # 0
  <2> SUFFICES ASSUME n = 0 PROVE FALSE
    OBVIOUS
  <2>1. k * n = 0 /\ k * m \in Nat
    OBVIOUS
  <2> QED BY <1>2, <2>1, GcdStep
<1> DEFINE r == m % n
           q == m \div n
<1>5. r \in Nat /\ r < n /\ q \in Nat /\ m = n * q + r
  BY <1>2, <1>3, <1>4, DivMod
<1>6. gcd[<<m, n>>] = gcd[<<n, r>>]
  BY <1>2, <1>3, <1>4, GcdStep
<1> HIDE DEF r, q
<1>7. r \notin Bad
  BY <1>1, <1>5
<1>8. gcd[<<k * n, k * r>>] = k * gcd[<<n, r>>]
  BY <1>3, <1>5, <1>7
<1>9. (k * m) % (k * n) = k * r
  <2> DEFINE M == k * m
             N == k * n
             R == k * r
  <2>1. M \in Nat /\ N \in Nat /\ N > 0 /\ R \in Nat /\ R < N
    BY <1>2, <1>3, <1>4, <1>5
  <2>2. M = N * q + R
    BY <1>3, <1>5
  <2> HIDE DEF M, N, R
  <2>3. M % N = R
    BY <1>5, <2>1, <2>2, SMT
  <2> QED BY <2>3 DEF M, N, R
<1>10. gcd[<<k * m, k * n>>] = gcd[<<k * n, (k * m) % (k * n)>>]
  <2>1. k * m \in Nat /\ k * n \in Nat \ {0}
    BY <1>3, <1>4
  <2> QED BY <2>1, GcdStep
<1> QED BY <1>2, <1>6, <1>8, <1>9, <1>10

\* Both numbers are divided by the same one.
LEMMA FractionParts ==
    ASSUME NEW n \in Nat, NEW d \in Nat \ {0}
    PROVE  \E g, y \in Nat \ {0} : \E x \in Nat :
             g = gcd[<<n, d>>] /\ n = g * x /\ d = g * y /\ Fraction(n, d) = [num |-> x, den |-> y]
<1> DEFINE g == gcd[<<n, d>>]
<1>1. g \in Nat \ {0} /\ Divides(g, n) /\ Divides(g, d)
  BY GcdDivides DEF DividesBoth
<1>2. PICK x \in Nat : n = g * x
  BY <1>1 DEF Divides
<1>3. PICK y \in Nat : d = g * y
  BY <1>1 DEF Divides
<1>4. Fraction(n, d) = [num |-> n \div g, den |-> d \div g]
  BY DEF Fraction
<1>5. n \div g = x /\ d \div g = y /\ y # 0
  <2> HIDE DEF g
  <2> QED BY <1>1, <1>2, <1>3, SMT
<1> QED BY <1>1, <1>2, <1>3, <1>4, <1>5

\* Fractions of one value are the same.
LEMMA FractionSame ==
    ASSUME NEW n \in Nat, NEW d \in Nat \ {0}, NEW m \in Nat, NEW e \in Nat \ {0},
           n * e = m * d
    PROVE  Fraction(n, d) = Fraction(m, e)
<1>1. PICK g, y \in Nat \ {0} : \E x \in Nat :
        g = gcd[<<n, d>>] /\ n = g * x /\ d = g * y /\ Fraction(n, d) = [num |-> x, den |-> y]
  BY FractionParts
<1>2. PICK x \in Nat :
        g = gcd[<<n, d>>] /\ n = g * x /\ d = g * y /\ Fraction(n, d) = [num |-> x, den |-> y]
  BY <1>1
<1>3. PICK h, v \in Nat \ {0} : \E u \in Nat :
        h = gcd[<<m, e>>] /\ m = h * u /\ e = h * v /\ Fraction(m, e) = [num |-> u, den |-> v]
  BY FractionParts
<1>4. PICK u \in Nat :
        h = gcd[<<m, e>>] /\ m = h * u /\ e = h * v /\ Fraction(m, e) = [num |-> u, den |-> v]
  BY <1>3
<1>5. gcd[<<e * n, e * d>>] = e * g /\ gcd[<<d * m, d * e>>] = d * h
  <2>1. \A k \in Nat \ {0}, i, j \in Nat : gcd[<<k * i, k * j>>] = k * gcd[<<i, j>>]
    BY GcdScale
  <2>2. gcd[<<e * n, e * d>>] = e * gcd[<<n, d>>]
    BY <2>1
  <2>3. gcd[<<d * m, d * e>>] = d * gcd[<<m, e>>]
    BY <2>1
  <2> QED BY <1>2, <1>4, <2>2, <2>3
<1>6. e * n = d * m /\ e * d = d * e
  OBVIOUS
<1>7. e * g = d * h
  BY <1>5, <1>6
<1>8. y = v
  <2>1. (g * h) * v = (g * h) * y
    BY <1>2, <1>4, <1>7
  <2>2. g * h \in Nat \ {0}
    OBVIOUS
  <2> DEFINE k == g * h
  <2> HIDE DEF k
  <2>3. k * v = k * y /\ k \in Nat \ {0}
    BY <2>1, <2>2 DEF k
  <2> QED BY <2>3
<1>9. x = u
  <2>1. ((g * h) * y) * x = ((g * h) * y) * u
    BY <1>2, <1>4, <1>8
  <2>2. (g * h) * y \in Nat \ {0}
    OBVIOUS
  <2> DEFINE k == (g * h) * y
  <2> HIDE DEF k
  <2>3. k * x = k * u /\ k \in Nat \ {0}
    BY <2>1, <2>2 DEF k
  <2> QED BY <2>3
<1> QED BY <1>2, <1>4, <1>8, <1>9

Fractions == {Fraction(n, d) : n \in Nat, d \in Nat \ {0}}

\* Fraction a has the value n / d.
Stands(a, n, d) == a \in Fractions /\ a.num * d = n * a.den

LEMMA FractionStands ==
    ASSUME NEW n \in Nat, NEW d \in Nat \ {0}
    PROVE  Stands(Fraction(n, d), n, d)
<1>1. PICK g, y \in Nat \ {0} : \E x \in Nat :
        g = gcd[<<n, d>>] /\ n = g * x /\ d = g * y /\ Fraction(n, d) = [num |-> x, den |-> y]
  BY FractionParts
<1>2. PICK x \in Nat : n = g * x /\ d = g * y /\ Fraction(n, d) = [num |-> x, den |-> y]
  BY <1>1
<1>3. Fraction(n, d) \in Fractions
  BY DEF Fractions
<1>4. x * d = n * y
  BY <1>2
<1> QED BY <1>2, <1>3, <1>4 DEF Stands

LEMMA FractionType ==
    ASSUME NEW a \in Fractions
    PROVE  /\ a.num \in Nat /\ a.den \in Nat \ {0} /\ a = Fraction(a.num, a.den)
           /\ a = [num |-> a.num, den |-> a.den] /\ Stands(a, a.num, a.den)
<1>1. PICK n \in Nat, d \in Nat \ {0} : a = Fraction(n, d)
  BY DEF Fractions
<1>2. \E x \in Nat, y \in Nat \ {0} : Fraction(n, d) = [num |-> x, den |-> y]
  <2>1. PICK g, y \in Nat \ {0} : \E x \in Nat :
          g = gcd[<<n, d>>] /\ n = g * x /\ d = g * y /\ Fraction(n, d) = [num |-> x, den |-> y]
    BY FractionParts
  <2> QED BY <2>1
<1>3. a.num \in Nat /\ a.den \in Nat \ {0} /\ a = [num |-> a.num, den |-> a.den]
  BY <1>1, <1>2
<1>4. a.num * d = n * a.den
  BY <1>1, FractionStands DEF Stands
<1> DEFINE x == a.num
           y == a.den
<1>5. Fraction(x, y) = Fraction(n, d)
  <2>1. x \in Nat /\ y \in Nat \ {0} /\ x * d = n * y
    BY <1>3, <1>4
  <2> HIDE DEF x, y
  <2> QED BY <2>1, FractionSame
<1> QED BY <1>1, <1>3, <1>5 DEF Stands

LEMMA StandsUnique ==
    ASSUME NEW n \in Nat, NEW d \in Nat \ {0}, NEW m \in Nat, NEW e \in Nat \ {0},
           NEW a, NEW b, Stands(a, n, d), Stands(b, m, e), n * e = m * d
    PROVE  a = b
<1>1. \A i \in Nat, j \in Nat \ {0} : \A c : Stands(c, i, j) => c = Fraction(i, j)
  <2> TAKE i \in Nat, j \in Nat \ {0}
  <2> TAKE c
  <2> HAVE Stands(c, i, j)
  <2> DEFINE x == c.num
             y == c.den
  <2>1. x \in Nat /\ y \in Nat \ {0} /\ c = Fraction(x, y) /\ x * j = i * y
    BY FractionType DEF Stands
  <2> HIDE DEF x, y
  <2>2. Fraction(x, y) = Fraction(i, j)
    BY <2>1, FractionSame
  <2> QED BY <2>1, <2>2
<1>2. Fraction(n, d) = Fraction(m, e)
  BY FractionSame
<1> QED BY <1>1, <1>2

LEMMA StandsPlus ==
    ASSUME NEW n \in Nat, NEW d \in Nat \ {0}, NEW m \in Nat, NEW e \in Nat \ {0},
           NEW a, NEW b, Stands(a, n, d), Stands(b, m, e)
    PROVE  Stands(Plus(a, b), n * e + m * d, d * e)
<1> DEFINE w == a.num
           x == a.den
           y == b.num
           z == b.den
<1>1. /\ w \in Nat /\ x \in Nat \ {0} /\ w * d = n * x
      /\ y \in Nat /\ z \in Nat \ {0} /\ y * e = m * z
  BY FractionType DEF Stands
<1>2. Plus(a, b) = Fraction(w * z + y * x, x * z)
  BY DEF Plus
<1> HIDE DEF w, x, y, z
<1>3. (w * z + y * x) * (d * e) = (n * e + m * d) * (x * z)
  <2>1. (w * z + y * x) * (d * e) = (w * d) * (z * e) + (y * e) * (x * d)
    BY <1>1
  <2>2. (n * e + m * d) * (x * z) = (n * x) * (z * e) + (m * z) * (x * d)
    BY <1>1
  <2> QED BY <1>1, <2>1, <2>2
<1>4. /\ w * z + y * x \in Nat /\ x * z \in Nat \ {0}
      /\ n * e + m * d \in Nat /\ d * e \in Nat \ {0}
  BY <1>1
<1>5. Fraction(w * z + y * x, x * z) = Fraction(n * e + m * d, d * e)
  BY <1>3, <1>4, FractionSame
<1> QED BY <1>2, <1>4, <1>5, FractionStands

LEMMA StandsTimes ==
    ASSUME NEW n \in Nat, NEW d \in Nat \ {0}, NEW k \in Nat, NEW a, Stands(a, n, d)
    PROVE  Stands(Times(a, k), n * k, d)
<1> DEFINE w == a.num
           x == a.den
<1>1. w \in Nat /\ x \in Nat \ {0} /\ w * d = n * x
  BY FractionType DEF Stands
<1>2. Times(a, k) = Fraction(w * k, x)
  BY DEF Times
<1> HIDE DEF w, x
<1>3. (w * k) * d = (n * k) * x /\ w * k \in Nat /\ n * k \in Nat
  BY <1>1
<1>4. Fraction(w * k, x) = Fraction(n * k, d)
  BY <1>1, <1>3, FractionSame
<1> QED BY <1>2, <1>3, <1>4, FractionStands

LEMMA StandsOver ==
    ASSUME NEW n \in Nat, NEW d \in Nat \ {0}, NEW k \in Nat \ {0}, NEW a, Stands(a, n, d)
    PROVE  Stands(Over(a, k), n, d * k)
<1> DEFINE w == a.num
           x == a.den
<1>1. w \in Nat /\ x \in Nat \ {0} /\ w * d = n * x
  BY FractionType DEF Stands
<1>2. Over(a, k) = Fraction(w, x * k)
  BY DEF Over
<1> HIDE DEF w, x
<1>3. w * (d * k) = n * (x * k) /\ d * k \in Nat \ {0} /\ x * k \in Nat \ {0}
  BY <1>1
<1>4. Fraction(w, x * k) = Fraction(n, d * k)
  BY <1>1, <1>3, FractionSame
<1> QED BY <1>2, <1>3, <1>4, FractionStands

LEMMA ZeroIsFraction == Zero \in Fractions
<1>1. gcd[<<0, 1>>] = 1
  <2>1. \A a \in Nat, b \in Nat \ {0} : gcd[<<a, b>>] = gcd[<<b, a % b>>]
    BY GcdStep
  <2>2. 0 % 1 = 0
    OBVIOUS
  <2>3. gcd[<<1, 0>>] = 1
    BY GcdStep
  <2>4. gcd[<<0, 1>>] = gcd[<<1, 0 % 1>>]
    BY <2>1
  <2> QED BY <2>2, <2>3, <2>4
<1>2. Fraction(0, 1) = Zero
  BY <1>1 DEF Fraction, Zero
<1> QED BY <1>2 DEF Fractions

\* A fraction stands for its parts, and one with the value of a sum is the sum.
LEMMA PlusParts ==
    ASSUME NEW a \in Fractions, NEW b \in Fractions
    PROVE  /\ Plus(a, b) \in Fractions
           /\ Plus(a, b) = Plus(b, a)
           /\ Plus(Zero, a) = a
<1> DEFINE n == a.num
           d == a.den
           m == b.num
           e == b.den
<1>1. /\ n \in Nat /\ d \in Nat \ {0} /\ Stands(a, n, d)
      /\ m \in Nat /\ e \in Nat \ {0} /\ Stands(b, m, e)
  BY FractionType
<1>2. Zero.num = 0 /\ Zero.den = 1 /\ Zero \in Fractions
  BY ZeroIsFraction DEF Zero
<1>3. Stands(Zero, 0, 1)
  BY <1>2 DEF Stands
<1> HIDE DEF n, d, m, e
<1>4. Stands(Plus(a, b), n * e + m * d, d * e)
  BY <1>1, StandsPlus
<1>5. Stands(Plus(b, a), m * d + n * e, e * d)
  BY <1>1, StandsPlus
<1>6. Stands(Plus(Zero, a), 0 * d + n * 1, 1 * d)
  BY <1>1, <1>3, StandsPlus
<1>7. /\ n * e + m * d \in Nat /\ n * e + m * d = m * d + n * e
      /\ d * e \in Nat \ {0} /\ d * e = e * d
      /\ 0 * d + n * 1 = n /\ 1 * d = d
  BY <1>1
<1>8. Plus(a, b) = Plus(b, a)
  <2> DEFINE x == n * e + m * d
             y == d * e
  <2>1. Stands(Plus(a, b), x, y) /\ Stands(Plus(b, a), x, y) /\ x \in Nat /\ y \in Nat \ {0}
    BY <1>4, <1>5, <1>7
  <2> HIDE DEF x, y
  <2> QED BY <2>1, StandsUnique
<1>9. Plus(Zero, a) = a
  <2>1. Stands(Plus(Zero, a), n, d)
    BY <1>6, <1>7
  <2> QED BY <1>1, <2>1, StandsUnique
<1> QED BY <1>4, <1>8, <1>9 DEF Stands

LEMMA PlusAssociates ==
    ASSUME NEW a \in Fractions, NEW b \in Fractions, NEW c \in Fractions
    PROVE  Plus(Plus(a, b), c) = Plus(a, Plus(b, c))
<1> DEFINE n == a.num
           d == a.den
           m == b.num
           e == b.den
           k == c.num
           f == c.den
<1>1. /\ n \in Nat /\ d \in Nat \ {0} /\ Stands(a, n, d)
      /\ m \in Nat /\ e \in Nat \ {0} /\ Stands(b, m, e)
      /\ k \in Nat /\ f \in Nat \ {0} /\ Stands(c, k, f)
  BY FractionType
<1> HIDE DEF n, d, m, e, k, f
<1> DEFINE x == n * e + m * d
           y == d * e
           u == m * f + k * e
           v == e * f
<1>2. /\ Stands(Plus(a, b), x, y) /\ x \in Nat /\ y \in Nat \ {0}
      /\ Stands(Plus(b, c), u, v) /\ u \in Nat /\ v \in Nat \ {0}
  BY <1>1, StandsPlus
<1>3. /\ x * f + k * y = n * v + u * d
      /\ y * f = d * v
  BY <1>1
<1> HIDE DEF x, y, u, v
<1>4. Stands(Plus(Plus(a, b), c), x * f + k * y, y * f)
  BY <1>1, <1>2, StandsPlus
<1>5. Stands(Plus(a, Plus(b, c)), n * v + u * d, d * v)
  BY <1>1, <1>2, StandsPlus
<1> DEFINE z == n * v + u * d
           w == d * v
<1>6. /\ Stands(Plus(Plus(a, b), c), z, w) /\ Stands(Plus(a, Plus(b, c)), z, w)
      /\ z \in Nat /\ w \in Nat \ {0}
  BY <1>1, <1>2, <1>3, <1>4, <1>5
<1> HIDE DEF z, w
<1> QED BY <1>6, StandsUnique

\* What is divided and multiplied by the same number stays.
LEMMA TimesOver ==
    ASSUME NEW a \in Fractions, NEW k \in Nat \ {0}
    PROVE  /\ Over(a, k) \in Fractions /\ Times(a, k) \in Fractions
           /\ Times(Over(a, k), k) = a
<1> DEFINE n == a.num
           d == a.den
<1>1. n \in Nat /\ d \in Nat \ {0} /\ Stands(a, n, d)
  BY FractionType
<1> HIDE DEF n, d
<1>2. Stands(Over(a, k), n, d * k) /\ Stands(Times(a, k), n * k, d)
  BY <1>1, StandsOver, StandsTimes
<1>3. d * k \in Nat \ {0} /\ n * k \in Nat
  BY <1>1
<1>4. Stands(Times(Over(a, k), k), n * k, d * k)
  <2> DEFINE v == d * k
  <2>1. v \in Nat \ {0} /\ Stands(Over(a, k), n, v)
    BY <1>2, <1>3
  <2> HIDE DEF v
  <2>2. Stands(Times(Over(a, k), k), n * k, v)
    BY <1>1, <2>1, StandsTimes
  <2> QED BY <2>2 DEF v
<1>5. (n * k) * d = n * (d * k)
  BY <1>1
<1>6. Times(Over(a, k), k) = a
  <2> DEFINE u == n * k
             v == d * k
  <2>1. u \in Nat /\ v \in Nat \ {0} /\ Stands(Times(Over(a, k), k), u, v) /\ u * d = n * v
    BY <1>3, <1>4, <1>5
  <2> HIDE DEF u, v
  <2> QED BY <1>1, <2>1, StandsUnique
<1> QED BY <1>2, <1>6 DEF Stands

\* The sum of two parts is divided, and multiplied, part by part.
LEMMA OverPlus ==
    ASSUME NEW a \in Fractions, NEW b \in Fractions, NEW k \in Nat \ {0}
    PROVE  Over(Plus(a, b), k) = Plus(Over(a, k), Over(b, k))
<1> DEFINE n == a.num
           d == a.den
           m == b.num
           e == b.den
<1>1. /\ n \in Nat /\ d \in Nat \ {0} /\ Stands(a, n, d)
      /\ m \in Nat /\ e \in Nat \ {0} /\ Stands(b, m, e)
  BY FractionType
<1> HIDE DEF n, d, m, e
<1> DEFINE x == n * e + m * d
           y == d * e
           f == d * k
           g == e * k
           u == n * g + m * f
<1>2. /\ Stands(Plus(a, b), x, y) /\ x \in Nat /\ y \in Nat \ {0}
      /\ Stands(Over(a, k), n, f) /\ f \in Nat \ {0}
      /\ Stands(Over(b, k), m, g) /\ g \in Nat \ {0}
  <2>1. Stands(Plus(a, b), x, y)
    BY <1>1, StandsPlus
  <2>2. Stands(Over(a, k), n, f) /\ Stands(Over(b, k), m, g)
    BY <1>1, StandsOver
  <2>3. x \in Nat /\ y \in Nat \ {0} /\ f \in Nat \ {0} /\ g \in Nat \ {0}
    BY <1>1
  <2> QED BY <2>1, <2>2, <2>3
<1>3. u = x * k /\ f * g = (y * k) * k
  BY <1>1
<1>4. u \in Nat
  BY <1>1
<1> HIDE DEF x, y, f, g
<1>5. Stands(Plus(Over(a, k), Over(b, k)), u, f * g)
  BY <1>1, <1>2, StandsPlus
<1> DEFINE v == y * k
<1>6. Stands(Over(Plus(a, b), k), x, v) /\ v \in Nat \ {0} /\ f * g = v * k
  BY <1>2, <1>3, StandsOver
<1> DEFINE w == f * g
<1>7. w \in Nat \ {0} /\ x * w = u * v
  <2>1. x * (v * k) = (x * k) * v
    BY <1>2, <1>6
  <2> QED BY <1>2, <1>3, <1>6, <2>1
<1> HIDE DEF u, v, w
<1>8. Stands(Plus(Over(a, k), Over(b, k)), u, w)
  BY <1>5 DEF w
<1> QED BY <1>2, <1>4, <1>6, <1>7, <1>8, StandsUnique

LEMMA TimesPlus ==
    ASSUME NEW a \in Fractions, NEW b \in Fractions, NEW k \in Nat
    PROVE  Times(Plus(a, b), k) = Plus(Times(a, k), Times(b, k))
<1> DEFINE n == a.num
           d == a.den
           m == b.num
           e == b.den
<1>1. /\ n \in Nat /\ d \in Nat \ {0} /\ Stands(a, n, d)
      /\ m \in Nat /\ e \in Nat \ {0} /\ Stands(b, m, e)
  BY FractionType
<1> HIDE DEF n, d, m, e
<1> DEFINE x == n * e + m * d
           y == d * e
           f == n * k
           g == m * k
           u == f * e + g * d
<1>2. /\ Stands(Plus(a, b), x, y) /\ x \in Nat /\ y \in Nat \ {0}
      /\ Stands(Times(a, k), f, d) /\ f \in Nat
      /\ Stands(Times(b, k), g, e) /\ g \in Nat
  <2>1. Stands(Plus(a, b), x, y)
    BY <1>1, StandsPlus
  <2>2. Stands(Times(a, k), f, d) /\ Stands(Times(b, k), g, e)
    BY <1>1, StandsTimes
  <2>3. x \in Nat /\ y \in Nat \ {0} /\ f \in Nat /\ g \in Nat
    BY <1>1
  <2> QED BY <2>1, <2>2, <2>3
<1>3. u = x * k /\ u \in Nat
  BY <1>1
<1> HIDE DEF x, f, g
<1>4. Stands(Plus(Times(a, k), Times(b, k)), u, y)
  BY <1>1, <1>2, StandsPlus
<1> HIDE DEF y, u
<1>5. Stands(Times(Plus(a, b), k), u, y)
  BY <1>2, <1>3, StandsTimes
<1> QED BY <1>2, <1>3, <1>4, <1>5, StandsUnique

\* Fraction a is at most k.
AtMost(a, k) == a.num <= k * a.den

LEMMA AtMostValue ==
    ASSUME NEW n \in Nat, NEW d \in Nat \ {0}, NEW k \in Nat, NEW a, Stands(a, n, d)
    PROVE  AtMost(a, k) <=> n <= k * d
<1> DEFINE x == a.num
           y == a.den
<1>1. x \in Nat /\ y \in Nat \ {0} /\ x * d = n * y
  BY FractionType DEF Stands
<1>2. AtMost(a, k) <=> x <= k * y
  BY DEF AtMost
<1> HIDE DEF x, y
<1>3. ASSUME x <= k * y PROVE n <= k * d
  <2>1. x * d <= (k * y) * d
    BY <1>1, <1>3
  <2>2. y * n <= y * (k * d)
    BY <1>1, <2>1
  <2> DEFINE z == k * d
  <2>3. z \in Nat
    BY <1>1
  <2> HIDE DEF z
  <2>4. y * n <= y * z
    BY <2>2 DEF z
  <2>5. n <= z
    BY <1>1, <2>3, <2>4
  <2> QED BY <2>5 DEF z
<1>4. ASSUME n <= k * d PROVE x <= k * y
  <2>1. n * y <= (k * d) * y
    BY <1>1, <1>4
  <2>2. d * x <= d * (k * y)
    BY <1>1, <2>1
  <2> DEFINE z == k * y
  <2>3. z \in Nat
    BY <1>1
  <2> HIDE DEF z
  <2>4. d * x <= d * z
    BY <2>2 DEF z
  <2>5. x <= z
    BY <1>1, <2>3, <2>4
  <2> QED BY <2>5 DEF z
<1> QED BY <1>2, <1>3, <1>4

LEMMA AtMostPlus ==
    ASSUME NEW a \in Fractions, NEW b \in Fractions, NEW i \in Nat, NEW j \in Nat,
           AtMost(a, i), AtMost(b, j)
    PROVE  AtMost(Plus(a, b), i + j)
<1> DEFINE n == a.num
           d == a.den
           m == b.num
           e == b.den
<1>1. /\ n \in Nat /\ d \in Nat \ {0} /\ Stands(a, n, d) /\ n <= i * d
      /\ m \in Nat /\ e \in Nat \ {0} /\ Stands(b, m, e) /\ m <= j * e
  BY FractionType DEF AtMost
<1> HIDE DEF n, d, m, e
<1> DEFINE x == n * e + m * d
           y == d * e
<1>2. Stands(Plus(a, b), x, y) /\ x \in Nat /\ y \in Nat \ {0}
  BY <1>1, StandsPlus
<1>3. x <= (i + j) * y
  <2>1. n * e <= (i * d) * e /\ m * d <= (j * e) * d
    BY <1>1
  <2>2. (i + j) * y = (i * d) * e + (j * e) * d
    BY <1>1
  <2>3. n * e \in Nat /\ (i * d) * e \in Nat /\ m * d \in Nat /\ (j * e) * d \in Nat
    BY <1>1
  <2>4. x <= (i * d) * e + (j * e) * d
    BY <2>1, <2>3
  <2> QED BY <2>2, <2>4
<1> HIDE DEF x, y
<1> QED BY <1>2, <1>3, AtMostValue

LEMMA AtMostScaled ==
    ASSUME NEW a \in Fractions, NEW i \in Nat, NEW k \in Nat \ {0}
    PROVE  /\ AtMost(a, i) => AtMost(Times(a, k), i * k)
           /\ AtMost(a, i * k) => AtMost(Over(a, k), i)
<1> DEFINE n == a.num
           d == a.den
           m == n * k
           e == d * k
           h == i * k
<1>1. n \in Nat /\ d \in Nat \ {0} /\ Stands(a, n, d)
  BY FractionType
<1>2. AtMost(a, i) <=> n <= i * d
  BY DEF AtMost
<1>3. AtMost(a, h) <=> n <= h * d
  BY DEF AtMost
<1> HIDE DEF n, d
<1>4. Stands(Times(a, k), m, d) /\ Stands(Over(a, k), n, e)
  BY <1>1, StandsTimes, StandsOver
<1>5. m \in Nat /\ e \in Nat \ {0} /\ h \in Nat
  BY <1>1
<1>6. n <= i * d => m <= h * d
  <2> SUFFICES ASSUME n <= i * d PROVE m <= h * d
    OBVIOUS
  <2>1. n * k <= (i * d) * k
    BY <1>1
  <2> QED BY <1>1, <2>1
<1>7. n <= h * d => n <= i * e
  BY <1>1
<1> HIDE DEF m, e, h
<1>8. (AtMost(Times(a, k), h) <=> m <= h * d) /\ (AtMost(Over(a, k), i) <=> n <= i * e)
  BY <1>1, <1>4, <1>5, AtMostValue
<1>9. (AtMost(a, i) => AtMost(Times(a, k), h)) /\ (AtMost(a, h) => AtMost(Over(a, k), i))
  BY <1>2, <1>3, <1>6, <1>7, <1>8
<1> QED BY <1>9 DEF h

-----------------------------------------------------------------------------
(* Points: what scores add up to.                                          *)

Points == [catRate: Fractions, distAlign: Fractions, total: Fractions, count: Nat]

PointsOf == INSTANCE Sums WITH Elements <- Points, Base <- NoPoints, Add <- AddPoints

Numbers == INSTANCE Sums WITH Elements <- Nat, Base <- 0, Add <- +

LEMMA Finite ==
    ASSUME NEW S, IsFiniteSet(S)
    PROVE  Numbers!IsFiniteSet(S) /\ PointsOf!IsFiniteSet(S)
BY DEF IsFiniteSet, Numbers!IsFiniteSet, PointsOf!IsFiniteSet

LEMMA NumbersAdd == Numbers!Monoid
BY DEF Numbers!Monoid

LEMMA PointsParts ==
    ASSUME NEW a \in Points
    PROVE  /\ a.catRate \in Fractions /\ a.distAlign \in Fractions /\ a.total \in Fractions
           /\ a.count \in Nat
           /\ a = [catRate |-> a.catRate, distAlign |-> a.distAlign,
                   total |-> a.total, count |-> a.count]
BY DEF Points

LEMMA PointsAdd == PointsOf!Monoid
<1>1. NoPoints \in Points
  BY ZeroIsFraction DEF Points, NoPoints
<1>2. ASSUME NEW a \in Points, NEW b \in Points
      PROVE  AddPoints(a, b) \in Points /\ AddPoints(a, b) = AddPoints(b, a)
  <2>1. /\ Plus(a.catRate, b.catRate) = Plus(b.catRate, a.catRate)
        /\ Plus(a.distAlign, b.distAlign) = Plus(b.distAlign, a.distAlign)
        /\ Plus(a.total, b.total) = Plus(b.total, a.total)
        /\ a.count + b.count = b.count + a.count
    BY PointsParts, PlusParts
  <2>2. /\ Plus(a.catRate, b.catRate) \in Fractions
        /\ Plus(a.distAlign, b.distAlign) \in Fractions
        /\ Plus(a.total, b.total) \in Fractions
        /\ a.count + b.count \in Nat
    BY PointsParts, PlusParts
  <2> QED BY <2>1, <2>2 DEF AddPoints, Points
<1>3. ASSUME NEW a \in Points, NEW b \in Points, NEW c \in Points
      PROVE  AddPoints(AddPoints(a, b), c) = AddPoints(a, AddPoints(b, c))
  <2>1. /\ Plus(Plus(a.catRate, b.catRate), c.catRate) = Plus(a.catRate, Plus(b.catRate, c.catRate))
        /\ Plus(Plus(a.distAlign, b.distAlign), c.distAlign)
             = Plus(a.distAlign, Plus(b.distAlign, c.distAlign))
        /\ Plus(Plus(a.total, b.total), c.total) = Plus(a.total, Plus(b.total, c.total))
        /\ (a.count + b.count) + c.count = a.count + (b.count + c.count)
    BY PointsParts, PlusAssociates
  <2> QED BY <2>1 DEF AddPoints
<1>4. ASSUME NEW a \in Points
      PROVE  AddPoints(NoPoints, a) = a
  <2>1. /\ Plus(Zero, a.catRate) = a.catRate /\ Plus(Zero, a.distAlign) = a.distAlign
        /\ Plus(Zero, a.total) = a.total /\ 0 + a.count = a.count
    BY PointsParts, PlusParts
  <2>2. AddPoints(NoPoints, a) = [catRate |-> Plus(Zero, a.catRate),
          distAlign |-> Plus(Zero, a.distAlign), total |-> Plus(Zero, a.total),
          count |-> 0 + a.count]
    BY DEF AddPoints, NoPoints
  <2> QED BY <2>1, <2>2, PointsParts
<1> QED BY <1>1, <1>2, <1>3, <1>4 DEF PointsOf!Monoid

\* The sum of points counts what the points count.
LEMMA CountsAdd ==
    ASSUME NEW f, NEW g, NEW S, IsFiniteSet(S), \A x \in S : f[x] \in Points /\ g[x] = f[x].count
    PROVE  PointsOf!Sum(f, S).count = Numbers!Sum(g, S)
<1> DEFINE Bad == {T \in SUBSET S : PointsOf!Sum(f, T).count # Numbers!Sum(g, T)}
<1> SUFFICES ASSUME Bad # {} PROVE FALSE
  OBVIOUS
<1>1. PICK T \in Bad : \A U \in Bad : U \subseteq T => U = T
  <2>1. Bad \in SUBSET SUBSET S
    OBVIOUS
  <2> HIDE DEF Bad
  <2> QED BY <2>1, Finite, Numbers!Smallest
<1>2. T \subseteq S /\ IsFiniteSet(T) /\ PointsOf!Sum(f, T).count # Numbers!Sum(g, T)
  BY FS_Subset
<1>3. T # {}
  <2>1. IsFiniteSet({}) /\ PointsOf!Sum(f, {}) = NoPoints /\ Numbers!Sum(g, {}) = 0
    BY FS_EmptySet, Finite, PointsOf!SumStep, Numbers!SumStep
  <2>2. NoPoints.count = 0
    BY DEF NoPoints
  <2> QED BY <1>2, <2>1, <2>2
<1>4. PICK x : x \in T
  BY <1>3
<1> DEFINE U == T \ {x}
<1>5. U \notin Bad /\ U \subseteq S /\ IsFiniteSet(U)
  BY <1>1, <1>2, <1>4, FS_Subset
<1>6. PointsOf!Sum(f, U).count = Numbers!Sum(g, U)
  BY <1>5
<1>7. PointsOf!Sum(f, T) = AddPoints(f[x], PointsOf!Sum(f, U))
  <2>1. \A y \in T : f[y] \in Points
    BY <1>2
  <2> QED BY <1>2, <1>4, <2>1, Finite, PointsAdd, PointsOf!SumFirst
<1>8. Numbers!Sum(g, T) = g[x] + Numbers!Sum(g, U)
  <2>1. \A y \in T : g[y] \in Nat
    BY <1>2 DEF Points
  <2> QED BY <1>2, <1>4, <2>1, Finite, NumbersAdd, Numbers!SumFirst
<1>9. PointsOf!Sum(f, T).count = f[x].count + PointsOf!Sum(f, U).count
  BY <1>7 DEF AddPoints
<1> QED BY <1>2, <1>4, <1>6, <1>8, <1>9

-----------------------------------------------------------------------------
(* Scores.                                                                 *)

\* A score is null, or its parts are in range, add up to its total, and are
\* those of some issues.
Sound(s) ==
    \/ s = NilScore
    \/ /\ s.count \in Nat \ {0}
       /\ s.catRate \in Fractions /\ AtMost(s.catRate, 70)
       /\ s.distAlign \in Fractions /\ AtMost(s.distAlign, 30)
       /\ s.total = Plus(s.catRate, s.distAlign)
       /\ s = ScoreOf(s.catRate, s.distAlign, s.total, s.count)

\* What a score adds to a weighted sum.
Weight(s) == IF s.total = Nil THEN NoPoints ELSE Weighted(s)

\* What scores of counted issues add up to.
BoundedPoints ==
    { x \in Points :
        /\ AtMost(x.catRate, 70 * x.count) /\ AtMost(x.distAlign, 30 * x.count)
        /\ x.total = Plus(x.catRate, x.distAlign)
        /\ x.count = 0 => x = NoPoints }

LEMMA SoundWeight ==
    ASSUME NEW s, Sound(s)
    PROVE  /\ Weight(s) \in BoundedPoints /\ Weight(s).count = s.count /\ s.count \in Nat
           /\ s.total = Nil <=> s.count = 0
<1>1. CASE s = NilScore
  <2>1. s.total = Nil /\ s.count = 0 /\ Weight(s) = NoPoints
    BY <1>1 DEF NilScore, Weight
  <2>2. Zero.num = 0 /\ Zero.den = 1
    BY DEF Zero
  <2>3. Zero \in Fractions /\ Plus(Zero, Zero) = Zero
    BY ZeroIsFraction, PlusParts
  <2>4. NoPoints \in Points
    BY <2>3 DEF Points, NoPoints
  <2>5. AtMost(Zero, 70 * 0) /\ AtMost(Zero, 30 * 0)
    BY <2>2 DEF AtMost
  <2>6. NoPoints \in BoundedPoints
    BY <2>3, <2>4, <2>5 DEF BoundedPoints, NoPoints
  <2> QED BY <2>1, <2>6 DEF NoPoints
<1>2. CASE s # NilScore
  <2> DEFINE a == s.catRate
             b == s.distAlign
             n == s.count
  <2>1. /\ n \in Nat \ {0} /\ a \in Fractions /\ AtMost(a, 70) /\ b \in Fractions /\ AtMost(b, 30)
        /\ s.total = Plus(a, b)
    BY <1>2 DEF Sound
  <2> HIDE DEF a, b, n
  <2>2. Plus(a, b) \in Fractions
    BY <2>1, PlusParts
  <2>3. s.total # Nil
    <3>1. s.total.den # 0
      BY <2>1, <2>2, FractionType
    <3> QED BY <3>1 DEF Nil
  <2>4. Weight(s) = [catRate |-> Times(a, n), distAlign |-> Times(b, n),
                     total |-> Times(Plus(a, b), n), count |-> n]
    BY <2>1, <2>3 DEF Weight, Weighted, a, b, n
  <2>5. /\ Times(a, n) \in Fractions /\ Times(b, n) \in Fractions
        /\ Times(Plus(a, b), n) \in Fractions
    BY <2>1, <2>2, TimesOver
  <2>6. Times(Plus(a, b), n) = Plus(Times(a, n), Times(b, n))
    BY <2>1, TimesPlus
  <2>7. AtMost(Times(a, n), 70 * n) /\ AtMost(Times(b, n), 30 * n)
    <3>1. \A i \in Nat, x \in Fractions : AtMost(x, i) => AtMost(Times(x, n), i * n)
      BY <2>1, AtMostScaled
    <3> QED BY <2>1, <3>1
  <2>8. Weight(s) \in BoundedPoints
    BY <2>1, <2>4, <2>5, <2>6, <2>7 DEF BoundedPoints, Points
  <2>9. Weight(s).count = n
    BY <2>4
  <2> QED BY <2>1, <2>3, <2>8, <2>9 DEF n
<1> QED BY <1>1, <1>2

LEMMA SumsAdd ==
    /\ NoPoints \in BoundedPoints
    /\ \A x, y \in BoundedPoints : AddPoints(x, y) \in BoundedPoints
<1>1. NoPoints \in BoundedPoints
  <2>1. Weight(NilScore) = NoPoints
    BY DEF Weight, NilScore
  <2>2. Sound(NilScore)
    BY DEF Sound
  <2> QED BY <2>1, <2>2, SoundWeight
<1>2. ASSUME NEW x \in BoundedPoints, NEW y \in BoundedPoints PROVE AddPoints(x, y) \in BoundedPoints
  <2> DEFINE a == x.catRate
             b == x.distAlign
             n == x.count
             c == y.catRate
             d == y.distAlign
             m == y.count
  <2>1. x \in Points /\ y \in Points
    BY DEF BoundedPoints
  <2>2. /\ a \in Fractions /\ b \in Fractions /\ n \in Nat
        /\ c \in Fractions /\ d \in Fractions /\ m \in Nat
    BY <2>1, PointsParts
  <2>3. /\ AtMost(a, 70 * n) /\ AtMost(b, 30 * n) /\ x.total = Plus(a, b)
        /\ AtMost(c, 70 * m) /\ AtMost(d, 30 * m) /\ y.total = Plus(c, d)
        /\ n = 0 => x = NoPoints
        /\ m = 0 => y = NoPoints
    <3>1. \A z \in BoundedPoints :
            /\ AtMost(z.catRate, 70 * z.count) /\ AtMost(z.distAlign, 30 * z.count)
            /\ z.total = Plus(z.catRate, z.distAlign)
            /\ z.count = 0 => z = NoPoints
      BY Zenon DEF BoundedPoints
    <3> QED BY <3>1
  <2>4. AddPoints(x, y) \in Points
    BY <2>1, PointsAdd DEF PointsOf!Monoid
  <2>5. AddPoints(x, y) = [catRate |-> Plus(a, c), distAlign |-> Plus(b, d),
                           total |-> Plus(Plus(a, b), Plus(c, d)), count |-> n + m]
    BY <2>3 DEF AddPoints
  <2>6. n + m = 0 => AddPoints(x, y) = NoPoints
    <3> SUFFICES ASSUME n + m = 0 PROVE AddPoints(x, y) = NoPoints
      OBVIOUS
    <3>1. n = 0 /\ m = 0
      BY <2>2
    <3>2. x = NoPoints /\ y = NoPoints
      BY <2>3, <3>1
    <3> QED BY <1>1, <3>2, PointsAdd DEF PointsOf!Monoid, BoundedPoints
  <2> HIDE DEF a, b, c, d, n, m
  <2>7. AtMost(Plus(a, c), 70 * (n + m)) /\ AtMost(Plus(b, d), 30 * (n + m))
    <3>1. /\ 70 * n \in Nat /\ 70 * m \in Nat /\ 70 * n + 70 * m = 70 * (n + m)
          /\ 30 * n \in Nat /\ 30 * m \in Nat /\ 30 * n + 30 * m = 30 * (n + m)
      BY <2>2
    <3> DEFINE n7 == 70 * n
               m7 == 70 * m
               n3 == 30 * n
               m3 == 30 * m
    <3>2. /\ n7 \in Nat /\ m7 \in Nat /\ n3 \in Nat /\ m3 \in Nat
          /\ AtMost(a, n7) /\ AtMost(c, m7) /\ AtMost(b, n3) /\ AtMost(d, m3)
      BY <2>3, <3>1
    <3> HIDE DEF n7, m7, n3, m3
    <3>3. AtMost(Plus(a, c), n7 + m7) /\ AtMost(Plus(b, d), n3 + m3)
      BY <2>2, <3>2, AtMostPlus
    <3> QED BY <3>1, <3>3 DEF n7, m7, n3, m3
  <2>8. Plus(Plus(a, b), Plus(c, d)) = Plus(Plus(a, c), Plus(b, d))
    <3>1. \A u, v, w \in Fractions : Plus(Plus(u, v), w) = Plus(u, Plus(v, w))
      BY PlusAssociates
    <3>2. \A u, v \in Fractions : Plus(u, v) \in Fractions /\ Plus(u, v) = Plus(v, u)
      BY PlusParts
    <3>3. Plus(Plus(a, b), Plus(c, d)) = Plus(a, Plus(b, Plus(c, d)))
      BY <2>2, <3>1, <3>2
    <3>4. Plus(b, Plus(c, d)) = Plus(c, Plus(b, d))
      <4>1. Plus(b, Plus(c, d)) = Plus(Plus(b, c), d)
        BY <2>2, <3>1
      <4>2. Plus(c, Plus(b, d)) = Plus(Plus(c, b), d)
        BY <2>2, <3>1
      <4>3. Plus(b, c) = Plus(c, b)
        BY <2>2, <3>2
      <4> QED BY <4>1, <4>2, <4>3
    <3>5. Plus(Plus(a, c), Plus(b, d)) = Plus(a, Plus(c, Plus(b, d)))
      BY <2>2, <3>1, <3>2
    <3> QED BY <3>3, <3>4, <3>5
  <2> QED BY <2>4, <2>5, <2>6, <2>7, <2>8 DEF BoundedPoints
<1> QED BY <1>1, <1>2

LEMMA PointsFold ==
    \A f, S : PointsOf!Sum(f, S) = FoldFunctionOnSet(AddPoints, NoPoints, f, S)
BY DEF PointsOf!Sum, PointsOf!SumFrom, PointsOf!FoldFunctionOnSet, FoldFunctionOnSet,
       PointsOf!MapThenFoldSet, MapThenFoldSet

LEMMA NumbersFold == \A f, S : Numbers!Sum(f, S) = SumFunctionOnSet(f, S)
BY DEF Numbers!Sum, Numbers!SumFrom, Numbers!FoldFunctionOnSet, FoldFunctionOnSet, SumFunctionOnSet,
       Numbers!MapThenFoldSet, MapThenFoldSet

\* The weighted sum is over all the entities: one without a score adds nothing.
LEMMA SumOfAll ==
    ASSUME NEW E, IsFiniteSet(E), \A e \in E : Sound(e.score)
    PROVE  /\ WeightedSum(E) = PointsOf!Sum([e \in E |-> Weight(e.score)], E)
           /\ WeightedSum(E) \in BoundedPoints
<1> DEFINE scored == WithScore(E)
           part == [e \in scored |-> Weighted(e.score)]
           f == [e \in E |-> Weight(e.score)]
<1>1. WeightedSum(E) = PointsOf!Sum(part, scored)
  <2>1. WeightedSum(E) = FoldFunctionOnSet(AddPoints, NoPoints, part, DOMAIN part)
    BY DEF WeightedSum, FoldFunction
  <2>2. DOMAIN part = scored
    OBVIOUS
  <2> HIDE DEF part, scored
  <2> QED BY <2>1, <2>2, PointsFold
<1>2. scored \subseteq E /\ \A e \in E : e \in scored <=> e.score.total # Nil
  BY DEF WithScore
<1> HIDE DEF scored
<1>3. \A e \in scored : part[e] = f[e]
  BY <1>2 DEF Weight
<1>4. \A e \in E : f[e] \in BoundedPoints /\ f[e] \in Points
  BY SoundWeight DEF BoundedPoints
<1>5. \A e \in E \ scored : f[e] = NoPoints
  BY <1>2 DEF Weight
<1> HIDE DEF part, f
<1>6. PointsOf!Sum(part, scored) = PointsOf!Sum(f, scored)
  <2>1. PointsOf!IsFiniteSet(scored)
    BY <1>2, FS_Subset, Finite
  <2> QED BY <1>3, <2>1, PointsOf!SumSame
<1>7. PointsOf!Sum(f, E) = PointsOf!Sum(f, scored)
  <2>1. PointsOf!IsFiniteSet(E) /\ \A e \in scored : f[e] \in Points
    BY <1>2, <1>4, Finite
  <2> QED BY <1>2, <1>5, <2>1, PointsAdd, PointsOf!SumLeaveOut
<1>8. PointsOf!Sum(f, E) \in BoundedPoints
  <2>1. PointsOf!IsFiniteSet(E) /\ \A e \in E : f[e] \in BoundedPoints
    BY <1>4, Finite
  <2> QED BY <2>1, SumsAdd, PointsOf!SumIn
<1> QED BY <1>1, <1>6, <1>7, <1>8 DEF f

\* An average of sound scores is sound, and weighs what they weigh together.
LEMMA AverageIsSound ==
    ASSUME NEW E, IsFiniteSet(E), \A e \in E : Sound(e.score)
    PROVE  /\ Sound(WeightedAverage(E)) /\ Weight(WeightedAverage(E)) = WeightedSum(E)
           /\ WeightedAverage(E).count = WeightedSum(E).count
<1> DEFINE sum == WeightedSum(E)
           n == sum.count
           a == sum.catRate
           b == sum.distAlign
           c == sum.total
           s == ScoreOf(Over(a, n), Over(b, n), Over(c, n), n)
<1>1. sum \in BoundedPoints
  BY SumOfAll
<1>2. /\ sum \in Points /\ AtMost(a, 70 * n) /\ AtMost(b, 30 * n) /\ c = Plus(a, b)
      /\ n = 0 => sum = NoPoints
  <2> HIDE DEF sum
  <2> QED BY <1>1 DEF BoundedPoints
<1>3. a \in Fractions /\ b \in Fractions /\ c \in Fractions /\ n \in Nat
  BY <1>2, PointsParts
<1>4. sum = [catRate |-> a, distAlign |-> b, total |-> c, count |-> n]
  BY <1>2, PointsParts
<1>5. WeightedAverage(E) = IF n = 0 THEN NilScore ELSE s
  BY DEF WeightedAverage
<1>6. CASE n = 0
  <2>1. WeightedAverage(E) = NilScore
    BY <1>5, <1>6
  <2>2. sum = NoPoints
    BY <1>2, <1>6
  <2>3. Weight(NilScore) = NoPoints /\ NilScore.count = 0 /\ Sound(NilScore)
    BY DEF Weight, NilScore, Sound
  <2> QED BY <1>6, <2>1, <2>2, <2>3
<1>7. CASE n # 0
  <2> DEFINE x == Over(a, n)
             y == Over(b, n)
             z == Over(c, n)
  <2>1. n \in Nat \ {0}
    BY <1>3, <1>7
  <2> HIDE DEF a, b, c, n
  <2>2. /\ x \in Fractions /\ y \in Fractions /\ z \in Fractions
        /\ Times(x, n) = a /\ Times(y, n) = b /\ Times(z, n) = c
    BY <1>3, <2>1, TimesOver
  <2>3. z = Plus(x, y)
    BY <1>2, <1>3, <2>1, OverPlus
  <2>4. AtMost(x, 70) /\ AtMost(y, 30)
    <3>1. \A i \in Nat, u \in Fractions : AtMost(u, i * n) => AtMost(Over(u, n), i)
      BY <2>1, AtMostScaled
    <3> QED BY <1>2, <1>3, <3>1
  <2> HIDE DEF x, y, z
  <2>5. WeightedAverage(E) = ScoreOf(x, y, z, n)
    BY <1>5, <1>7 DEF x, y, z
  <2>6. ScoreOf(x, y, z, n) = [total |-> z, grade |-> AssignGrade(z), catRate |-> x,
                              distAlign |-> y, count |-> n]
    BY DEF ScoreOf
  <2> DEFINE t == ScoreOf(x, y, z, n)
  <2>7. t.total = z /\ t.catRate = x /\ t.distAlign = y /\ t.count = n
    BY <2>6
  <2> HIDE DEF t
  <2>8. Sound(t)
    <3>1. t = ScoreOf(t.catRate, t.distAlign, t.total, t.count)
      BY <2>7 DEF t
    <3> QED BY <2>1, <2>2, <2>3, <2>4, <2>7, <3>1 DEF Sound
  <2>9. z # Nil
    BY <2>2, FractionType DEF Nil
  <2>10. Weight(t) = [catRate |-> a, distAlign |-> b, total |-> c, count |-> n]
    BY <2>2, <2>7, <2>9 DEF Weight, Weighted
  <2>11. WeightedAverage(E) = t
    BY <2>5 DEF t
  <2>12. Weight(WeightedAverage(E)) = sum
    BY <1>4, <2>10, <2>11
  <2>13. WeightedAverage(E).count = sum.count
    BY <2>7, <2>11 DEF n
  <2> QED BY <2>8, <2>11, <2>12, <2>13
<1> QED BY <1>6, <1>7

\* An average depends on the weighted sum alone.
LEMMA AveragesAgree ==
    ASSUME NEW D, NEW E, WeightedSum(D) = WeightedSum(E)
    PROVE  WeightedAverage(D) = WeightedAverage(E)
BY DEF WeightedAverage

\* Different entities weigh what their scores do, whatever they are called.
LEMMA SumOfEntities ==
    ASSUME NEW e, NEW S, IsFiniteSet(S), \A x \in S : Sound(e[x].score),
           \A x, y \in S : e[x] = e[y] => x = y
    PROVE  WeightedSum({e[x] : x \in S})
             = PointsOf!Sum([x \in S |-> Weight(e[x].score)], S)
<1> DEFINE E == {e[x] : x \in S}
           f == [d \in E |-> Weight(d.score)]
           g == [x \in S |-> Weight(e[x].score)]
<1>1. IsFiniteSet(E)
  <2> DEFINE h == [x \in S |-> e[x]]
  <2>1. h \in Surjection(S, E)
    BY DEF Surjection, Range
  <2> QED BY <2>1, FS_Surjection
<1>2. \A d \in E : Sound(d.score)
  OBVIOUS
<1>3. WeightedSum(E) = PointsOf!Sum(f, E)
  BY <1>1, <1>2, SumOfAll
<1>4. \A x \in S : g[x] = f[e[x]] /\ g[x] \in Points
  <2> TAKE x \in S
  <2>1. g[x] = f[e[x]]
    OBVIOUS
  <2>2. Weight(e[x].score) \in BoundedPoints
    BY SoundWeight
  <2> QED BY <2>1, <2>2 DEF BoundedPoints
<1> HIDE DEF f, g
<1>5. PointsOf!Sum(f, {e[x] : x \in S}) = PointsOf!Sum(g, S)
  BY <1>4, Finite, PointsAdd, PointsOf!SumImage
<1> QED BY <1>3, <1>5 DEF g

-----------------------------------------------------------------------------
(* What the scoring prefers.                                               *)

\* A deviation is a number.
LEMMA DeviationType ==
    ASSUME NEW n \in Int, NEW dist \in [Counters -> Int], NEW k \in Ranks
    PROVE  Deviation(n, dist, k) \in Int
<1>1. ScoredCategoriesInOrder[k] \in Counters
  BY DEF Ranks, ScoredCategoriesInOrder, Counters, Categories
<1>2. TargetDistribution[k] \in Int
  BY DEF Ranks, TargetDistribution
<1> QED BY <1>1, <1>2 DEF Deviation

\* A move from the category ranked j to the one ranked i shifts these two
\* deviations by an issue, and no other.
LEMMA MovedDeviations ==
    ASSUME NEW n \in Int, NEW dist \in [Counters -> Int],
           NEW i \in Ranks, NEW j \in Ranks, i # j
    PROVE  /\ Moved(dist, i, j) \in [Counters -> Int]
           /\ \A k \in Ranks : Deviation(n, Moved(dist, i, j), k) =
                Deviation(n, dist, k) + (IF k = i THEN 88 ELSE IF k = j THEN -88 ELSE 0)
<1> DEFINE cat(k) == ScoredCategoriesInOrder[k]
<1>1. \A k \in Ranks : cat(k) \in Counters /\ TargetDistribution[k] \in Int
  BY DEF Ranks, ScoredCategoriesInOrder, Counters, Categories, TargetDistribution
<1>2. \A k, m \in Ranks : k # m => cat(k) # cat(m)
  BY DEF Ranks, ScoredCategoriesInOrder
<1> HIDE DEF cat
<1>3. Moved(dist, i, j) = [dist EXCEPT ![cat(i)] = @ + 1, ![cat(j)] = @ - 1]
  BY DEF Moved, cat
<1>4. Moved(dist, i, j) \in [Counters -> Int]
  BY <1>1, <1>3
<1>5. ASSUME NEW k \in Ranks
      PROVE  Moved(dist, i, j)[cat(k)] =
               dist[cat(k)] + (IF k = i THEN 1 ELSE IF k = j THEN -1 ELSE 0)
  BY <1>1, <1>2, <1>3
<1>6. \A k \in Ranks : dist[cat(k)] \in Int
  BY <1>1
<1>7. \A k \in Ranks, d \in [Counters -> Int] :
        Deviation(n, d, k) = 88 * d[cat(k)] - TargetDistribution[k] * n
  BY DEF Deviation, cat
<1>8. ASSUME NEW k \in Ranks
      PROVE  Deviation(n, Moved(dist, i, j), k) =
               Deviation(n, dist, k) + (IF k = i THEN 88 ELSE IF k = j THEN -88 ELSE 0)
  <2> DEFINE target == TargetDistribution[k] * n
  <2>1. target \in Int
    BY <1>1
  <2>2. /\ Deviation(n, Moved(dist, i, j), k) = 88 * Moved(dist, i, j)[cat(k)] - target
        /\ Deviation(n, dist, k) = 88 * dist[cat(k)] - target
    BY <1>4, <1>7
  <2> HIDE DEF target
  <2> QED BY <1>5, <1>6, <2>1, <2>2
<1> QED BY <1>4, <1>8

\* The penalty of a deviation, by its sign.
LEMMA PenaltyValue ==
    ASSUME NEW n \in Int, NEW dist \in [Counters -> Int], NEW k \in Ranks
    PROVE  LET d == Deviation(n, dist, k) IN
           /\ Penalty(n, dist, k) \in Nat
           /\ d > 0 => Penalty(n, dist, k) = d * (1 + k)
           /\ d <= 0 => Penalty(n, dist, k) = -d * (7 - k)
<1> DEFINE d == Deviation(n, dist, k)
<1>1. d \in Int
  BY DeviationType
<1>2. Penalty(n, dist, k) = IF d > 0 THEN d * (2 + (k - 1)) ELSE -d * (6 - (k - 1))
  BY DEF Penalty, OverAllocationWeight, UnderAllocationWeight
<1> HIDE DEF d
<1>3. k \in {1, 2, 3, 4, 5}
  BY DEF Ranks
<1>4. /\ Penalty(n, dist, k) \in Nat
      /\ d > 0 => Penalty(n, dist, k) = d * (1 + k)
      /\ d <= 0 => Penalty(n, dist, k) = -d * (7 - k)
  BY <1>1, <1>2, <1>3
<1> QED BY <1>4 DEF d

\* Of two ranks, moving an issue to the higher one costs no more than it
\* saves, if that one stays at or below its target or the other at or above.
LEMMA PairPreference ==
    ASSUME NEW n \in Int, NEW dist \in [Counters -> Int],
           NEW i \in Ranks, NEW j \in Ranks, i < j,
           Deviation(n, dist, i) <= -88 \/ Deviation(n, dist, j) >= 88
    PROVE  Penalty(n, Moved(dist, i, j), i) + Penalty(n, Moved(dist, i, j), j)
             <= Penalty(n, dist, i) + Penalty(n, dist, j)
<1> DEFINE moved == Moved(dist, i, j)
           di == Deviation(n, dist, i)
           dj == Deviation(n, dist, j)
<1>1. i # j /\ i \in {1, 2, 3, 4, 5} /\ j \in {1, 2, 3, 4, 5}
  BY DEF Ranks
<1>2. di \in Int /\ dj \in Int
  BY DeviationType
<1>3. /\ moved \in [Counters -> Int]
      /\ Deviation(n, moved, i) = di + 88 /\ Deviation(n, moved, j) = dj - 88
  BY <1>1, <1>2, MovedDeviations
<1>4. /\ Penalty(n, dist, i) = IF di > 0 THEN di * (1 + i) ELSE -di * (7 - i)
      /\ Penalty(n, dist, j) = IF dj > 0 THEN dj * (1 + j) ELSE -dj * (7 - j)
  BY <1>2, PenaltyValue
<1> HIDE DEF moved
<1>5. /\ Penalty(n, moved, i) = IF di + 88 > 0 THEN (di + 88) * (1 + i)
                                               ELSE -(di + 88) * (7 - i)
      /\ Penalty(n, moved, j) = IF dj - 88 > 0 THEN (dj - 88) * (1 + j)
                                               ELSE -(dj - 88) * (7 - j)
  BY <1>2, <1>3, PenaltyValue
<1>6. di <= -88 \/ dj >= 88
  OBVIOUS
<1> HIDE DEF di, dj
<1>7. Penalty(n, moved, i) + Penalty(n, moved, j)
        <= Penalty(n, dist, i) + Penalty(n, dist, j)
  BY <1>1, <1>2, <1>4, <1>5, <1>6
<1> QED BY <1>7 DEF moved

\* Priority is preferred whatever the count and the distribution.
LEMMA Preference ==
    ASSUME NEW n \in Int, NEW dist \in [Counters -> Int]
    PROVE  Prefers(n, dist)
<1> SUFFICES ASSUME NEW i \in Ranks, NEW j \in Ranks, i < j,
                    Deviation(n, dist, i) <= -88 \/ Deviation(n, dist, j) >= 88
             PROVE  Aligned(n, Moved(dist, i, j)) >= Aligned(n, dist)
  BY DEF Prefers
<1> DEFINE moved == Moved(dist, i, j)
           before(k) == Penalty(n, dist, k)
           after(k) == Penalty(n, moved, k)
<1>1. i # j /\ i \in {1, 2, 3, 4, 5} /\ j \in {1, 2, 3, 4, 5}
  BY DEF Ranks
<1>2. moved \in [Counters -> Int]
  BY <1>1, MovedDeviations
<1>3. \A k \in Ranks : before(k) \in Nat /\ after(k) \in Nat
  BY <1>2, PenaltyValue
<1>4. \A k \in Ranks : k # i /\ k # j => after(k) = before(k)
  <2> SUFFICES ASSUME NEW k \in Ranks, k # i, k # j PROVE after(k) = before(k)
    OBVIOUS
  <2>1. Deviation(n, moved, k) = Deviation(n, dist, k) + 0
    BY <1>1, MovedDeviations
  <2>2. Deviation(n, moved, k) = Deviation(n, dist, k)
    BY <2>1, DeviationType
  <2> QED BY <2>2 DEF Penalty
<1>5. after(i) + after(j) <= before(i) + before(j)
  BY PairPreference
<1>6. /\ TotalPenalty(n, dist) = before(1) + before(2) + before(3) + before(4) + before(5)
      /\ TotalPenalty(n, moved) = after(1) + after(2) + after(3) + after(4) + after(5)
  BY DEF TotalPenalty
<1> HIDE DEF before, after, moved
<1>7. /\ TotalPenalty(n, moved) <= TotalPenalty(n, dist)
      /\ TotalPenalty(n, moved) \in Int /\ TotalPenalty(n, dist) \in Int
  BY <1>1, <1>3, <1>4, <1>5, <1>6 DEF Ranks
<1>8. Aligned(n, moved) >= Aligned(n, dist)
  BY <1>7 DEF Aligned
<1> QED BY <1>8 DEF moved

-----------------------------------------------------------------------------
(* The periods: their types, and the windows they keep.                    *)

\* The scope's periods are the ones it asks for, each with a window of days.
\* A closed one has the scope's dates where it has dates.
LEMMA ScopePeriods ==
    ASSUME NEW s \in RefreshScope, NEW p \in EmptyPeriods(s)
    PROVE  /\ p \in Period
           /\ p.setType \in RefreshedTypes(s)
           /\ p.setType = "closed" =>
                /\ s.start # NoDate => p.window.since = s.start
                /\ s.end # NoDate => p.window.until = s.end
                /\ ~HasDates(s) => p.window.since <= p.window.until
           /\ p.setType = "in_progress" => p.window.since <= p.window.until
<1> DEFINE cadences == RefreshCadences(s, Today)
<1>1. /\ Today \in Int /\ SprintStart(Today) \in Int /\ SprintDays \in Int /\ SprintDays > 0
      /\ s.start \in Int \cup {NoDate} /\ s.end \in Int \cup {NoDate}
  <2>1. Today \in Int /\ SprintDays \in Int /\ SprintDays > 0
    BY ParametersAssumption, SprintAssumption
  <2>2. Today \div SprintDays \in Int
    BY <2>1
  <2>3. SprintStart(Today) \in Int
    BY <2>1, <2>2 DEF SprintStart
  <2>4. s.start \in Int \cup {NoDate} /\ s.end \in Int \cup {NoDate}
    BY DEF RefreshScope
  <2> QED BY <2>1, <2>3, <2>4
<1>2. \A c \in CalculateCadences(Today) :
        c.window \in TimeWindow /\ c.window.since <= c.window.until
  BY <1>1 DEF CalculateCadences, TimeWindow, CurrentSprint, PreviousSprint
<1>3. LET c == ScopedCadence(s, Today) IN
        /\ c.window \in TimeWindow
        /\ s.start # NoDate => c.window.since = s.start
        /\ s.end # NoDate => c.window.until = s.end
  BY <1>1 DEF ScopedCadence, TimeWindow
<1>4. \A c \in cadences :
        /\ c.window \in TimeWindow
        /\ s.start # NoDate => c.window.since = s.start
        /\ s.end # NoDate => c.window.until = s.end
        /\ ~HasDates(s) => c.window.since <= c.window.until
  BY <1>2, <1>3 DEF RefreshCadences, HasDates
<1> HIDE DEF cadences
<1>5. PICK f \in FetchedPeriods(cadences, RefreshedTypes(s), Today, 0) :
        p = [setType |-> f.setType, window |-> f.window,
             issues |-> [a \in ActivityTypes |-> 0],
             total |-> 0, categorized |-> 0, distribution |-> NoIssues]
  BY DEF EmptyPeriods, EmptyPeriod, cadences
<1>6. CASE \E c \in cadences : f = ClosedPeriod(c, 0) /\ "closed" \in RefreshedTypes(s)
  <2>1. PICK c \in cadences : f = ClosedPeriod(c, 0) /\ "closed" \in RefreshedTypes(s)
    BY <1>6
  <2>2. f.setType = "closed" /\ f.window = c.window
    BY <2>1 DEF ClosedPeriod
  <2>3. p \in Period
    BY <1>4, <1>5, <2>2 DEF Period, SetTypes, NoIssues, ActivityDistribution
  <2> QED BY <1>4, <1>5, <2>1, <2>2, <2>3
<1>7. CASE f = InProgressPeriod(Today, 0) /\ "in_progress" \in RefreshedTypes(s)
  <2>1. f.setType = "in_progress" /\ f.window = [since |-> Today, until |-> Today]
    BY <1>7 DEF InProgressPeriod
  <2>2. p \in Period
    BY <1>1, <1>5, <2>1 DEF Period, SetTypes, TimeWindow, NoIssues, ActivityDistribution
  <2> QED BY <1>1, <1>5, <1>7, <2>1, <2>2
<1>8. (\E c \in cadences : f = ClosedPeriod(c, 0) /\ "closed" \in RefreshedTypes(s))
        \/ (f = InProgressPeriod(Today, 0) /\ "in_progress" \in RefreshedTypes(s))
  BY DEF FetchedPeriods
<1> QED BY <1>6, <1>7, <1>8

\* Every value has a category, or none.
LEMMA CategoryType ==
    ASSUME NEW type
    PROVE  mapActivityTypeToCategory(type) \in Categories \cup {""}
BY DEF mapActivityTypeToCategory, Categories

\* The counter of an issue.
CounterOf(type) ==
    IF mapActivityTypeToCategory(type) # "" THEN mapActivityTypeToCategory(type)
    ELSE "uncategorized"

\* What becomes of the parts of a period.
LEMMA CountedParts ==
    ASSUME NEW p \in Period, NEW type \in ActivityTypes
    PROVE  /\ CategorizeAndAdd(p, type).setType = p.setType
           /\ CategorizeAndAdd(p, type).window = p.window
           /\ CategorizeAndAdd(p, type).issues = [p.issues EXCEPT ![type] = @ + 1]
           /\ CategorizeAndAdd(p, type).total = p.total + 1
           /\ CategorizeAndAdd(p, type).categorized =
                IF mapActivityTypeToCategory(type) # "" THEN p.categorized + 1 ELSE p.categorized
           /\ CategorizeAndAdd(p, type).distribution =
                [p.distribution EXCEPT ![CounterOf(type)] = @ + 1]
           /\ \E i, n, c, d : CategorizeAndAdd(p, type) =
                [setType |-> p.setType, window |-> p.window, issues |-> i, total |-> n,
                 categorized |-> c, distribution |-> d]
<1> DEFINE issues == [p.issues EXCEPT ![type] = @ + 1]
           total == p.total + 1
           categorized == IF mapActivityTypeToCategory(type) # "" THEN p.categorized + 1
                          ELSE p.categorized
           distribution == [p.distribution EXCEPT ![CounterOf(type)] = @ + 1]
<1>1. CategorizeAndAdd(p, type) =
        [p EXCEPT !.issues = issues, !.total = total,
                  !.categorized = categorized, !.distribution = distribution]
  BY DEF CategorizeAndAdd, CounterOf
<1>2. p = [setType |-> p.setType, window |-> p.window, issues |-> p.issues,
           total |-> p.total, categorized |-> p.categorized, distribution |-> p.distribution]
  BY DEF Period
<1> HIDE DEF issues, total, categorized, distribution
<1>3. CategorizeAndAdd(p, type) =
        [setType |-> p.setType, window |-> p.window, issues |-> issues, total |-> total,
         categorized |-> categorized, distribution |-> distribution]
  BY <1>1, <1>2
<1>4. /\ CategorizeAndAdd(p, type).setType = p.setType
      /\ CategorizeAndAdd(p, type).window = p.window
      /\ CategorizeAndAdd(p, type).issues = issues
      /\ CategorizeAndAdd(p, type).total = total
      /\ CategorizeAndAdd(p, type).categorized = categorized
      /\ CategorizeAndAdd(p, type).distribution = distribution
  BY <1>3
<1> QED BY <1>3, <1>4 DEF issues, total, categorized, distribution

\* Counting an issue changes the counters of a period, and not its window.
LEMMA CategorizedType ==
    ASSUME NEW p \in Period, NEW type \in ActivityTypes
    PROVE  /\ CategorizeAndAdd(p, type) \in Period
           /\ CategorizeAndAdd(p, type).setType = p.setType
           /\ CategorizeAndAdd(p, type).window = p.window
<1> DEFINE q == CategorizeAndAdd(p, type)
<1>1. CounterOf(type) \in Counters
  BY CategoryType DEF Counters, CounterOf
<1>2. /\ p.setType \in SetTypes /\ p.window \in TimeWindow
      /\ p.issues \in [ActivityTypes -> Nat] /\ p.distribution \in [Counters -> Nat]
      /\ p.total \in Nat /\ p.categorized \in Nat
  BY DEF Period, ActivityDistribution
<1>3. /\ q.issues \in [ActivityTypes -> Nat] /\ q.distribution \in [Counters -> Nat]
      /\ q.total \in Nat /\ q.categorized \in Nat
      /\ q.setType = p.setType /\ q.window = p.window
  <2>1. /\ q.issues = [p.issues EXCEPT ![type] = @ + 1] /\ q.total = p.total + 1
        /\ q.categorized \in {p.categorized, p.categorized + 1}
        /\ q.distribution = [p.distribution EXCEPT ![CounterOf(type)] = @ + 1]
        /\ q.setType = p.setType /\ q.window = p.window
    BY CountedParts
  <2> HIDE DEF q
  <2> QED BY <1>1, <1>2, <2>1
<1>4. PICK i, n, c, d : q =
        [setType |-> p.setType, window |-> p.window, issues |-> i, total |-> n,
         categorized |-> c, distribution |-> d]
  BY CountedParts
<1> HIDE DEF q
<1>5. q \in Period
  BY <1>2, <1>3, <1>4 DEF Period, ActivityDistribution
<1> QED BY <1>3, <1>5 DEF q

-----------------------------------------------------------------------------
(* The answer: its entities are those of the configuration.                *)

\* What the filter keeps of a team's periods.
Kept(t, filter) == FilterPeriods(TeamPeriods(periods, t), filter)

\* The entities of the whole scorecard.
FullTeam(t, filter) == ComputeTeamScore(t, Kept(t, filter))

FullPillar(p, filter) == ComputePillarScore(p, {FullTeam(t, filter) : t \in TeamsOf[p]})

FullOrg(o, filter) == ComputeOrgScore(o, {FullPillar(p, filter) : p \in PillarsOf[o]})

\* The organizations of a scorecard, as records.
OrgEntity(o) ==
    o = [identifier |-> o.identifier, score |-> o.score, pillars |-> o.pillars]

PillarEntity(p) ==
    p = [identifier |-> p.identifier, score |-> p.score, teams |-> p.teams]

\* What an organization shows: its score and its pillars' scores are those of
\* the whole scorecard, and its teams are scored over the periods of a
\* configured team that the filter keeps.
Scored(o, filter) ==
    /\ OrgEntity(o) /\ o.identifier \in Orgs /\ o.score = FullOrg(o.identifier, filter).score
    /\ \A p \in o.pillars :
         /\ PillarEntity(p) /\ p.identifier \in Pillars
         /\ p.score = FullPillar(p.identifier, filter).score
         /\ \A e \in p.teams : \E t \in Teams : e = FullTeam(t, filter)

\* All that is computed is of the configuration.
LEMMA FullScored ==
    ASSUME NEW filter, NEW o \in ComputeFullScorecard(cfg, periods, filter)
    PROVE  Scored(o, filter)
<1>1. PICK id \in Orgs : o = FullOrg(id, filter)
  BY DEF ComputeFullScorecard, Kept, cfg, FullOrg, FullPillar, FullTeam
<1>2. /\ OrgEntity(o) /\ o.identifier = id
      /\ o.pillars = {FullPillar(p, filter) : p \in PillarsOf[id]}
  BY <1>1 DEF FullOrg, ComputeOrgScore, OrgEntity
<1>3. ASSUME NEW b \in PillarsOf[id], NEW p, p = FullPillar(b, filter)
      PROVE  /\ PillarEntity(p) /\ p.identifier \in Pillars
             /\ p.score = FullPillar(p.identifier, filter).score
             /\ \A e \in p.teams : \E t \in Teams : e = FullTeam(t, filter)
  <2>1. b \in Pillars
    BY DEF Pillars
  <2>2. TeamsOf[b] \subseteq Teams
    BY <2>1, UniqueIdentifiers
  <2>3. /\ PillarEntity(p) /\ p.identifier = b
        /\ p.teams = {FullTeam(t, filter) : t \in TeamsOf[b]}
    BY <1>3 DEF FullPillar, ComputePillarScore, PillarEntity
  <2> QED BY <1>3, <2>1, <2>2, <2>3
<1>4. \A p \in o.pillars :
        /\ PillarEntity(p) /\ p.identifier \in Pillars
        /\ p.score = FullPillar(p.identifier, filter).score
        /\ \A e \in p.teams : \E t \in Teams : e = FullTeam(t, filter)
  BY <1>2, <1>3
<1> QED BY <1>1, <1>2, <1>4 DEF Scored

\* The filter of a request leaves entities out, and adds none.
LEMMA FilteredScored ==
    ASSUME NEW orgs, NEW filter, NEW q, \A o \in orgs : Scored(o, filter),
           NEW o \in FilterScorecard(orgs, q)
    PROVE  Scored(o, filter)
<1>1. PICK u \in orgs : o = [u EXCEPT !.pillars = FilterPillars(@, q)]
  BY DEF FilterScorecard
<1>2. Scored(u, filter)
  OBVIOUS
<1>3. u = [identifier |-> u.identifier, score |-> u.score, pillars |-> u.pillars]
  BY <1>2 DEF Scored, OrgEntity
<1>4. o = [identifier |-> u.identifier, score |-> u.score,
           pillars |-> FilterPillars(u.pillars, q)]
  BY <1>1, <1>3
<1>5. /\ OrgEntity(o) /\ o.identifier \in Orgs
      /\ o.score = FullOrg(o.identifier, filter).score
      /\ o.pillars = FilterPillars(u.pillars, q)
  BY <1>2, <1>4 DEF OrgEntity, Scored
<1>6. ASSUME NEW p \in FilterPillars(u.pillars, q)
      PROVE  /\ PillarEntity(p) /\ p.identifier \in Pillars
             /\ p.score = FullPillar(p.identifier, filter).score
             /\ \A e \in p.teams : \E t \in Teams : e = FullTeam(t, filter)
  <2>1. PICK v \in u.pillars : p = [v EXCEPT !.teams = FilterTeams(@, q)]
    BY DEF FilterPillars
  <2>2. v = [identifier |-> v.identifier, score |-> v.score, teams |-> v.teams]
    BY <1>2 DEF Scored, PillarEntity
  <2>3. p = [identifier |-> v.identifier, score |-> v.score, teams |-> FilterTeams(v.teams, q)]
    BY <2>1, <2>2
  <2>4. /\ PillarEntity(p) /\ p.teams \subseteq v.teams
        /\ p.identifier = v.identifier /\ p.score = v.score
    BY <2>3 DEF PillarEntity, FilterTeams
  <2> QED BY <1>2, <2>4 DEF Scored
<1> QED BY <1>5, <1>6 DEF Scored

-----------------------------------------------------------------------------
(* The invariant, and the theorems that follow from it.                    *)

\* What a period keeps of the refresh that created it.
Fetched(p) == \E f \in EmptyPeriods(scope) : p.setType = f.setType /\ p.window = f.window

Inv ==
    /\ scope \in RefreshScope
    /\ periods \in [Stored -> SUBSET Period]
    /\ \A t \in Stored : \A p \in periods[t] : Fetched(p)
    /\ query.filter \in RefreshScope \cup {BadFilter}
    /\ answer.status \in {Unanswered, "ok", "not_found", "no_data", "bad_request"}
    /\ answer.status = Unanswered => answer.orgs = {}
    /\ answer.orgs # {} => query.filter \in RefreshScope
    /\ \A o \in answer.orgs : Scored(o, query.filter)

\* An answer that stays is still computed from periods that stay.
LEMMA StaysScored ==
    ASSUME NEW o, NEW filter, periods' = periods, query.filter' = filter, Scored(o, filter)
    PROVE  Scored(o, query.filter)'
<1>1. \A t : Kept(t, query.filter)' = Kept(t, filter)
  BY DEF Kept, FilterPeriods, TeamPeriods
<1>2. \A t : FullTeam(t, query.filter)' = FullTeam(t, filter)
  BY <1>1 DEF FullTeam
<1>3. \A p : FullPillar(p, query.filter)' = FullPillar(p, filter)
  BY <1>2 DEF FullPillar
<1>4. \A u : FullOrg(u, query.filter)' = FullOrg(u, filter)
  BY <1>3 DEF FullOrg
<1> QED BY <1>2, <1>3, <1>4 DEF Scored, OrgEntity, PillarEntity

LEMMA InitInv == Init => Inv
<1> SUFFICES ASSUME Init PROVE Inv
  OBVIOUS
<1>1. scope \in RefreshScope
  BY ParametersAssumption DEF Init
<1>2. EmptyPeriods(scope) \in SUBSET Period
  BY <1>1, ScopePeriods
<1>3. /\ periods \in [Stored -> SUBSET Period]
      /\ \A t \in Stored : \A p \in periods[t] : Fetched(p)
  BY <1>2 DEF Init, Fetched
<1>4. query.filter \in RefreshScope
  BY DEF Init, NoQuery, Unscoped, RefreshScope
<1>5. answer.status = Unanswered /\ answer.orgs = {}
  BY DEF Init
<1> QED BY <1>1, <1>3, <1>4, <1>5 DEF Inv

\* An issue goes into a period and leaves what the answer was computed from.
LEMMA FetchIssueInv ==
    ASSUME Inv, NEW t \in Stored, NEW p \in periods[t], NEW a \in ActivityTypes,
           FetchIssue(t, p, a)
    PROVE  Inv'
<1> DEFINE counted == CategorizeAndAdd(p, a)
<1>1. p \in Period /\ Fetched(p)
  BY DEF Inv
<1>2. counted \in Period /\ counted.setType = p.setType /\ counted.window = p.window
  BY <1>1, CategorizedType
<1> HIDE DEF counted
<1>3. Fetched(counted)
  BY <1>1, <1>2 DEF Fetched
<1>4. /\ periods' = [periods EXCEPT ![t] = (@ \ {p}) \cup {counted}]
      /\ scope' = scope /\ query' = query /\ answer' = answer
      /\ answer.status = Unanswered
  BY DEF FetchIssue, counted
<1>5. periods' \in [Stored -> SUBSET Period]
  BY <1>2, <1>4 DEF Inv
<1>6. \A u \in Stored : \A x \in periods'[u] : Fetched(x)
  BY <1>3, <1>4 DEF Inv
<1>7. \A u \in Stored : \A x \in periods'[u] : Fetched(x)'
  BY <1>4, <1>6 DEF Fetched, EmptyPeriods, EmptyPeriod
<1>8. answer'.orgs = {}
  BY <1>4 DEF Inv
<1> QED BY <1>4, <1>5, <1>7, <1>8 DEF Inv

\* The answer is computed from the periods as they are.
LEMMA GetScorecardInv ==
    ASSUME Inv, NEW q \in Queries, GetScorecard(q) PROVE Inv'
<1> DEFINE full == ComputeFullScorecard(cfg, periods, q.filter)
           shown == FilterScorecard(full, q)
<1>1. \A o \in full : Scored(o, q.filter)
  BY FullScored
<1>2. \A o \in shown : Scored(o, q.filter)
  BY <1>1, FilteredScored
<1> HIDE DEF full, shown
<1>3. /\ answer' \in {Refused("no_data"), Refused("bad_request"), Organizations(q)}
      /\ query' = q /\ scope' = scope /\ periods' = periods
  BY DEF GetScorecard
<1>4. /\ answer'.status \in {"ok", "not_found", "no_data", "bad_request"}
      /\ answer'.orgs \in {{}, full, shown}
  <2>1. Organizations(q) \in {[status |-> "ok", orgs |-> full], Refused("not_found"),
                              [status |-> "ok", orgs |-> shown]}
    BY DEF Organizations, full, shown
  <2> QED BY <1>3, <2>1 DEF Refused
<1>5. \A o \in answer'.orgs : Scored(o, q.filter)
  BY <1>1, <1>2, <1>4
<1>6. \A o : Scored(o, q.filter) => Scored(o, query.filter)'
  BY <1>3, StaysScored
<1>7. /\ q.filter \in RefreshScope \cup {BadFilter}
      /\ answer'.orgs # {} => q.filter \in RefreshScope
  <2>1. q.filter = BadFilter => answer'.orgs = {}
    BY DEF GetScorecard, Refused
  <2> QED BY <2>1, ParametersAssumption
<1>8. \A t \in Stored : \A p \in periods'[t] : Fetched(p)'
  BY <1>3 DEF Inv, Fetched, EmptyPeriods
<1>9. answer'.status # Unanswered
  BY <1>4 DEF Unanswered
<1> QED BY <1>3, <1>4, <1>5, <1>6, <1>7, <1>8, <1>9 DEF Inv

LEMMA StepInv == Inv /\ [Next]_vars => Inv'
<1> SUFFICES ASSUME Inv, [Next]_vars PROVE Inv'
  OBVIOUS
<1>1. CASE \E t \in Stored : \E p \in periods[t], a \in ActivityTypes : FetchIssue(t, p, a)
  BY <1>1, FetchIssueInv
<1>2. CASE \E q \in Queries : GetScorecard(q)
  BY <1>2, GetScorecardInv
<1>3. CASE UNCHANGED vars
  <2>1. scope' = scope /\ periods' = periods /\ query' = query /\ answer' = answer
    BY <1>3 DEF vars
  <2>2. \A o \in answer'.orgs : Scored(o, query.filter)'
    BY <2>1, StaysScored DEF Inv
  <2>3. \A t \in Stored : \A p \in periods'[t] : Fetched(p)'
    BY <2>1 DEF Inv, Fetched, EmptyPeriods
  <2> QED BY <2>1, <2>2, <2>3 DEF Inv
<1> QED BY <1>1, <1>2, <1>3 DEF Next

LEMMA Invariance == Spec => []Inv
<1> QED BY InitInv, StepInv, PTL DEF Spec

\* Every variable keeps its type.
THEOREM TypeCorrect == Spec => []TypeOK
<1>1. Inv => TypeOK
  BY DEF Inv, TypeOK, Shown, Scored
<1> QED BY <1>1, Invariance, PTL

\* In every period of every refresh a higher priority is preferred.
THEOREM PriorityPreferred == Spec => []PriorityIsPreferred
<1>1. Inv => PriorityIsPreferred
  <2> SUFFICES ASSUME Inv, NEW t \in Stored, NEW p \in periods[t]
               PROVE  Prefers(p.categorized - p.distribution["wellness"], p.distribution)
    BY DEF PriorityIsPreferred
  <2>1. p \in Period
    BY DEF Inv
  <2>2. p.distribution \in [Counters -> Nat] /\ p.categorized \in Nat
    BY <2>1 DEF Period, ActivityDistribution
  <2>3. "wellness" \in Counters
    BY DEF Counters, Categories
  <2>4. p.distribution["wellness"] \in Nat /\ p.distribution \in [Counters -> Int]
    BY <2>2, <2>3
  <2>5. p.categorized - p.distribution["wellness"] \in Int
    BY <2>2, <2>4
  <2> QED BY <2>4, <2>5, Preference
<1> QED BY <1>1, Invariance, PTL

\* The filter that is the refresh's scope keeps what the refresh fetched, but
\* for a window that ends before it begins.
LEMMA ScopeKeepsFetched ==
    ASSUME Inv, NEW t \in Stored, query.filter = scope
    PROVE  Kept(t, query.filter) = {p \in periods[t] : p.window.since <= p.window.until}
<1>1. Kept(t, query.filter) = FilterPeriods(periods[t], scope)
  BY DEF Kept, TeamPeriods, Inv
<1>2. ASSUME NEW p \in periods[t]
      PROVE  p \in FilterPeriods(periods[t], scope) <=> p.window.since <= p.window.until
  <2>1. PICK f \in EmptyPeriods(scope) : p.setType = f.setType /\ p.window = f.window
    BY DEF Inv, Fetched
  <2>2. scope \in RefreshScope /\ p \in Period
    BY DEF Inv
  <2>3. /\ p.setType \in RefreshedTypes(scope)
        /\ p.setType = "closed" =>
             /\ scope.start # NoDate => p.window.since = scope.start
             /\ scope.end # NoDate => p.window.until = scope.end
             /\ ~HasDates(scope) => p.window.since <= p.window.until
        /\ p.setType = "in_progress" => p.window.since <= p.window.until
    BY <2>1, <2>2, ScopePeriods
  <2>4. /\ p.window.since \in Int /\ p.window.until \in Int
        /\ p.setType \in {"closed", "in_progress"}
    BY <2>2 DEF Period, TimeWindow, SetTypes
  <2>5. scope.status # "" => p.setType = scope.status
    BY <2>3 DEF RefreshedTypes
  <2>6. p \in FilterPeriods(periods[t], scope) <=>
          (p.setType = "closed" =>
             /\ scope.start # NoDate => p.window.until >= scope.start
             /\ scope.end # NoDate => p.window.since <= scope.end)
    BY <2>5 DEF FilterPeriods
  <2>7. CASE p.setType = "in_progress"
    BY <2>3, <2>6, <2>7
  <2>8. CASE p.setType = "closed"
    <3>1. CASE scope.start # NoDate
      BY <2>3, <2>4, <2>6, <2>8, <3>1
    <3>2. CASE scope.end # NoDate
      BY <2>3, <2>4, <2>6, <2>8, <3>2
    <3>3. CASE scope.start = NoDate /\ scope.end = NoDate
      BY <2>3, <2>6, <2>8, <3>3 DEF HasDates
    <3> QED BY <3>1, <3>2, <3>3
  <2> QED BY <2>4, <2>7, <2>8
<1>3. FilterPeriods(periods[t], scope) \subseteq periods[t]
  BY DEF FilterPeriods
<1> QED BY <1>1, <1>2, <1>3

\* What a refresh fetched is what a scorecard with its parameters shows, for
\* every range of dates, day and sprint length.
THEOREM RefreshShown == Spec => []RefreshIsShown
<1>1. Inv => RefreshIsShown
  <2> SUFFICES ASSUME Inv, query.filter = scope, NEW e \in ShownTeams, e.identifier \in Stored
               PROVE  {x.period : x \in e.periods}
                        = {x \in periods[e.identifier] : x.window.since <= x.window.until}
    BY DEF RefreshIsShown
  <2>1. PICK o \in answer.orgs : \E p \in o.pillars : e \in p.teams
    BY DEF ShownTeams, ShownPillars, Shown
  <2>2. PICK t \in Teams : e = ComputeTeamScore(t, Kept(t, query.filter))
    BY <2>1 DEF Inv, Scored, FullTeam
  <2> DEFINE ps == Kept(t, query.filter)
  <2>3. /\ e.identifier = t
        /\ e.periods = {[period |-> p, score |-> PeriodsScore({p})] : p \in ps}
    BY <2>2 DEF ComputeTeamScore
  <2>4. {x.period : x \in e.periods} = ps
    <3> DEFINE row(p) == [period |-> p, score |-> PeriodsScore({p})]
    <3>1. \A p : row(p).period = p
      OBVIOUS
    <3>2. e.periods = {row(p) : p \in ps}
      BY <2>3
    <3> HIDE DEF ps, row
    <3> QED BY <3>1, <3>2
  <2> QED BY <2>3, <2>4, ScopeKeepsFetched
<1> QED BY <1>1, Invariance, PTL

-----------------------------------------------------------------------------
(* What the filters of a request leave.                                    *)

\* A team is shown by a scorecard under a pillar of an organization.
HasTeam(orgs, a, b, c) ==
    \E o \in orgs : o.identifier = a /\
        \E p \in o.pillars : p.identifier = b /\ \E t \in p.teams : t.identifier = c

\* A scorecard of all that is configured.
IsFull(orgs) ==
    /\ \A o \in orgs : OrgEntity(o) /\ \A p \in o.pillars : PillarEntity(p)
    /\ {o.identifier : o \in orgs} = Orgs
    /\ \A o \in orgs : {p.identifier : p \in o.pillars} = PillarsOf[o.identifier]
    /\ \A o \in orgs : \A p \in o.pillars :
         {t.identifier : t \in p.teams} = TeamsOf[p.identifier]

LEMMA FullIsFull == ASSUME NEW filter PROVE IsFull(ComputeFullScorecard(cfg, periods, filter))
<1> DEFINE Team(t) == ComputeTeamScore(t, Kept(t, filter))
           Pillar(p) == ComputePillarScore(p, {Team(t) : t \in TeamsOf[p]})
           Org(o) == ComputeOrgScore(o, {Pillar(p) : p \in PillarsOf[o]})
           full == {Org(o) : o \in Orgs}
<1>1. ComputeFullScorecard(cfg, periods, filter) = full
  BY DEF ComputeFullScorecard, Kept, cfg
<1>2. \A t : Team(t).identifier = t
  BY DEF ComputeTeamScore
<1> HIDE DEF Team
<1>3. ASSUME NEW p
      PROVE  /\ Pillar(p).identifier = p /\ PillarEntity(Pillar(p))
             /\ Pillar(p).teams = {Team(t) : t \in TeamsOf[p]}
  BY DEF ComputePillarScore, PillarEntity
<1>4. \A p : {t.identifier : t \in Pillar(p).teams} = TeamsOf[p]
  BY <1>2, <1>3
<1> HIDE DEF Pillar
<1>5. ASSUME NEW o
      PROVE  /\ Org(o).identifier = o /\ OrgEntity(Org(o))
             /\ Org(o).pillars = {Pillar(p) : p \in PillarsOf[o]}
  BY DEF ComputeOrgScore, OrgEntity
<1>6. ASSUME NEW o PROVE {p.identifier : p \in Org(o).pillars} = PillarsOf[o]
  <2>1. Org(o).pillars = {Pillar(p) : p \in PillarsOf[o]}
    BY <1>5
  <2>2. ASSUME NEW b \in PillarsOf[o] PROVE b \in {p.identifier : p \in Org(o).pillars}
    <3>1. Pillar(b) \in Org(o).pillars /\ Pillar(b).identifier = b
      BY <1>3, <2>1
    <3> QED BY <3>1
  <2>3. ASSUME NEW p \in Org(o).pillars PROVE p.identifier \in PillarsOf[o]
    <3>1. PICK b \in PillarsOf[o] : p = Pillar(b)
      BY <2>1
    <3> QED BY <1>3, <3>1
  <2> QED BY <2>2, <2>3
<1> HIDE DEF Org
<1>7. {o.identifier : o \in full} = Orgs
  BY <1>5
<1>8. ASSUME NEW o \in full
      PROVE  /\ OrgEntity(o) /\ {p.identifier : p \in o.pillars} = PillarsOf[o.identifier]
             /\ \A p \in o.pillars :
                  /\ PillarEntity(p)
                  /\ {t.identifier : t \in p.teams} = TeamsOf[p.identifier]
  BY <1>3, <1>4, <1>5, <1>6
<1> HIDE DEF full
<1> QED BY <1>1, <1>7, <1>8 DEF IsFull

\* The teams of a full scorecard are those of the configuration.
LEMMA FullTeams ==
    ASSUME NEW orgs, IsFull(orgs), NEW a, NEW b, NEW c
    PROVE  HasTeam(orgs, a, b, c) <=> a \in Orgs /\ b \in PillarsOf[a] /\ c \in TeamsOf[b]
<1>1. ASSUME HasTeam(orgs, a, b, c) PROVE a \in Orgs /\ b \in PillarsOf[a] /\ c \in TeamsOf[b]
  <2>1. PICK o \in orgs : o.identifier = a /\
            \E p \in o.pillars : p.identifier = b /\ \E t \in p.teams : t.identifier = c
    BY <1>1 DEF HasTeam
  <2>2. PICK p \in o.pillars : p.identifier = b /\ \E t \in p.teams : t.identifier = c
    BY <2>1
  <2> QED BY <2>1, <2>2 DEF IsFull
<1>2. ASSUME a \in Orgs, b \in PillarsOf[a], c \in TeamsOf[b] PROVE HasTeam(orgs, a, b, c)
  <2>1. PICK o \in orgs : o.identifier = a
    BY <1>2 DEF IsFull
  <2>2. PICK p \in o.pillars : p.identifier = b
    BY <1>2, <2>1 DEF IsFull
  <2>3. PICK t \in p.teams : t.identifier = c
    BY <1>2, <2>1, <2>2 DEF IsFull
  <2> QED BY <2>1, <2>2, <2>3 DEF HasTeam
<1> QED BY <1>1, <1>2

\* An entity that the filter keeps is named as before.
LEMMA KeptPillar ==
    ASSUME NEW p, PillarEntity(p), NEW q, NEW kept, kept = [p EXCEPT !.teams = FilterTeams(@, q)]
    PROVE  kept.identifier = p.identifier /\ kept.teams = FilterTeams(p.teams, q)
<1>1. kept = [identifier |-> p.identifier, score |-> p.score, teams |-> FilterTeams(p.teams, q)]
  BY DEF PillarEntity
<1> QED BY <1>1

LEMMA KeptOrg ==
    ASSUME NEW o, OrgEntity(o), NEW q, NEW kept,
           kept = [o EXCEPT !.pillars = FilterPillars(@, q)]
    PROVE  kept.identifier = o.identifier /\ kept.pillars = FilterPillars(o.pillars, q)
<1>1. kept = [identifier |-> o.identifier, score |-> o.score,
              pillars |-> FilterPillars(o.pillars, q)]
  BY DEF OrgEntity
<1> QED BY <1>1

\* The filter leaves exactly the teams whose path it selects.
LEMMA FilterTeamsLeft ==
    ASSUME NEW orgs, IsFull(orgs), NEW q, NEW a, NEW b, NEW c
    PROVE  HasTeam(FilterScorecard(orgs, q), a, b, c) <=>
              /\ HasTeam(orgs, a, b, c)
              /\ Selected(q.org, a) /\ Selected(q.pillar, b) /\ Selected(q.team, c)
<1>1. ASSUME HasTeam(FilterScorecard(orgs, q), a, b, c)
      PROVE  /\ HasTeam(orgs, a, b, c)
             /\ Selected(q.org, a) /\ Selected(q.pillar, b) /\ Selected(q.team, c)
  <2>1. PICK k \in FilterScorecard(orgs, q) : k.identifier = a /\
            \E p \in k.pillars : p.identifier = b /\ \E t \in p.teams : t.identifier = c
    BY <1>1 DEF HasTeam
  <2>2. PICK o \in orgs : /\ Selected(q.org, o.identifier)
                          /\ k = [o EXCEPT !.pillars = FilterPillars(@, q)]
    BY DEF FilterScorecard
  <2>3. k.identifier = o.identifier /\ k.pillars = FilterPillars(o.pillars, q)
    BY <2>2, KeptOrg DEF IsFull
  <2>4. PICK m \in FilterPillars(o.pillars, q) :
            m.identifier = b /\ \E t \in m.teams : t.identifier = c
    BY <2>1, <2>3
  <2>5. PICK p \in o.pillars : /\ Selected(q.pillar, p.identifier)
                               /\ m = [p EXCEPT !.teams = FilterTeams(@, q)]
    BY DEF FilterPillars
  <2>6. m.identifier = p.identifier /\ m.teams = FilterTeams(p.teams, q)
    BY <2>5, KeptPillar DEF IsFull
  <2>7. PICK t \in p.teams : t.identifier = c /\ Selected(q.team, t.identifier)
    BY <2>4, <2>6 DEF FilterTeams
  <2> QED BY <2>1, <2>2, <2>3, <2>4, <2>5, <2>6, <2>7 DEF HasTeam
<1>2. ASSUME HasTeam(orgs, a, b, c),
             Selected(q.org, a), Selected(q.pillar, b), Selected(q.team, c)
      PROVE  HasTeam(FilterScorecard(orgs, q), a, b, c)
  <2>1. PICK o \in orgs : o.identifier = a /\
            \E p \in o.pillars : p.identifier = b /\ \E t \in p.teams : t.identifier = c
    BY <1>2 DEF HasTeam
  <2>2. PICK p \in o.pillars : p.identifier = b /\ \E t \in p.teams : t.identifier = c
    BY <2>1
  <2>3. PICK t \in p.teams : t.identifier = c
    BY <2>2
  <2>4. t \in FilterTeams(p.teams, q)
    BY <1>2, <2>3 DEF FilterTeams
  <2> DEFINE m == [p EXCEPT !.teams = FilterTeams(@, q)]
             k == [o EXCEPT !.pillars = FilterPillars(@, q)]
  <2>5. m \in FilterPillars(o.pillars, q)
    BY <1>2, <2>2, <2>4 DEF FilterPillars
  <2>6. k \in FilterScorecard(orgs, q)
    BY <1>2, <2>1, <2>5 DEF FilterScorecard
  <2>7. m.identifier = p.identifier /\ m.teams = FilterTeams(p.teams, q)
    BY KeptPillar DEF IsFull
  <2>8. k.identifier = o.identifier /\ k.pillars = FilterPillars(o.pillars, q)
    BY KeptOrg DEF IsFull
  <2> HIDE DEF m, k
  <2> QED BY <2>1, <2>2, <2>3, <2>4, <2>5, <2>6, <2>7, <2>8 DEF HasTeam
<1> QED BY <1>1, <1>2

\* The filter leaves something exactly when a path of the deepest level that
\* is asked for is selected.
LEMMA FilterLeaves ==
    ASSUME NEW orgs, IsFull(orgs), NEW q
    PROVE  FilterScorecard(orgs, q) # {} <=>
              \E a \in Orgs :
                 /\ Selected(q.org, a)
                 /\ \/ \E b \in PillarsOf[a] : /\ Selected(q.pillar, b)
                                               /\ q.team # "" => q.team \in TeamsOf[b]
                    \/ q.pillar = "" /\ q.team = ""
<1>1. ASSUME NEW p, p.identifier \in Pillars, PillarEntity(p),
             {t.identifier : t \in p.teams} = TeamsOf[p.identifier], q.team # ""
      PROVE  FilterTeams(p.teams, q) # {} <=> q.team \in TeamsOf[p.identifier]
  BY <1>1 DEF FilterTeams, Selected
<1>2. ASSUME NEW o \in orgs
      PROVE  FilterPillars(o.pillars, q) # {} <=>
               \E b \in PillarsOf[o.identifier] : /\ Selected(q.pillar, b)
                                                  /\ q.team # "" => q.team \in TeamsOf[b]
  <2>1. FilterPillars(o.pillars, q) # {} <=>
            \E p \in o.pillars : /\ Selected(q.pillar, p.identifier)
                                 /\ q.team # "" => FilterTeams(p.teams, q) # {}
    BY DEF FilterPillars
  <2>2. o.identifier \in Orgs /\ PillarsOf[o.identifier] \subseteq Pillars
    BY DEF IsFull, Pillars
  <2>3. \A p \in o.pillars : p.identifier \in Pillars
    BY <2>2 DEF IsFull
  <2>4. \A p \in o.pillars : q.team # "" =>
            (FilterTeams(p.teams, q) # {} <=> q.team \in TeamsOf[p.identifier])
    BY <1>1, <2>3 DEF IsFull
  <2>5. {p.identifier : p \in o.pillars} = PillarsOf[o.identifier]
    BY DEF IsFull
  <2> QED BY <2>1, <2>4, <2>5
<1>3. FilterScorecard(orgs, q) # {} <=>
          \E o \in orgs : /\ Selected(q.org, o.identifier)
                          /\ \/ FilterPillars(o.pillars, q) # {}
                             \/ q.pillar = "" /\ q.team = ""
  BY DEF FilterScorecard
<1>4. {o.identifier : o \in orgs} = Orgs
  BY DEF IsFull
<1> QED BY <1>2, <1>3, <1>4

LEMMA ConfiguredIds ==
    /\ \A a \in Orgs : PillarsOf[a] \subseteq Pillars
    /\ \A b \in Pillars : TeamsOf[b] \subseteq Teams
BY UniqueIdentifiers DEF Pillars

\* What a request for organizations, pillars or teams is answered with.
LEMMA AnswerMatches ==
    ASSUME answer = Organizations(query) PROVE FilterShowsMatches
<1> DEFINE full == ComputeFullScorecard(cfg, periods, query.filter)
           shown == FilterScorecard(full, query)
           all == query.org = "" /\ query.pillar = "" /\ query.team = ""
           teams == {path \in TeamPaths : OnPath(path) /\ Selected(query.team, path[3])}
<1>1. IsFull(full)
  BY FullIsFull
<1>2. answer = IF all THEN [status |-> "ok", orgs |-> full]
               ELSE IF shown = {} THEN Refused("not_found")
               ELSE [status |-> "ok", orgs |-> shown]
  BY DEF Organizations
<1> HIDE DEF full
<1>3. \A a, b, c : HasTeam(shown, a, b, c) <=>
          /\ a \in Orgs /\ b \in PillarsOf[a] /\ c \in TeamsOf[b]
          /\ Selected(query.org, a) /\ Selected(query.pillar, b) /\ Selected(query.team, c)
  BY <1>1, FullTeams, FilterTeamsLeft
<1>4. \A a, b, c : HasTeam(full, a, b, c) <=>
          a \in Orgs /\ b \in PillarsOf[a] /\ c \in TeamsOf[b]
  BY <1>1, FullTeams
<1>5. shown # {} <=>
         \E a \in Orgs :
            /\ Selected(query.org, a)
            /\ \/ \E b \in PillarsOf[a] : /\ Selected(query.pillar, b)
                                          /\ query.team # "" => query.team \in TeamsOf[b]
               \/ query.pillar = "" /\ query.team = ""
  BY <1>1, FilterLeaves
<1> HIDE DEF shown
<1>6. /\ answer.status \in {"ok", "not_found"}
      /\ answer.status = "not_found" <=> ~all /\ shown = {}
      /\ answer.orgs = IF all THEN full ELSE shown
  <2> HIDE DEF all
  <2>1. CASE all
    <3>1. answer = [status |-> "ok", orgs |-> full]
      BY <1>2, <2>1
    <3> QED BY <2>1, <3>1
  <2>2. CASE ~all /\ shown = {}
    <3>1. answer = [status |-> "not_found", orgs |-> {}]
      BY <1>2, <2>2 DEF Refused
    <3> QED BY <2>2, <3>1
  <2>3. CASE ~all /\ shown # {}
    <3>1. answer = [status |-> "ok", orgs |-> shown]
      BY <1>2, <2>3
    <3> QED BY <2>3, <3>1
  <2> QED BY <2>1, <2>2, <2>3
<1>7. \A a, b, c : HasTeam(answer.orgs, a, b, c) <=> <<a, b, c>> \in teams
  <2> TAKE a, b, c
  <2>1. <<a, b, c>> \in teams <=>
          /\ a \in Orgs /\ b \in PillarsOf[a] /\ c \in TeamsOf[b]
          /\ Selected(query.org, a) /\ Selected(query.pillar, b) /\ Selected(query.team, c)
    BY ConfiguredIds DEF TeamPaths, OnPath
  <2>2. all => Selected(query.org, a) /\ Selected(query.pillar, b) /\ Selected(query.team, c)
    BY DEF Selected
  <2> HIDE DEF teams, all
  <2>3. CASE all
    <3>1. answer.orgs = full
      BY <1>6, <2>3
    <3> QED BY <1>4, <2>1, <2>2, <2>3, <3>1
  <2>4. CASE ~all
    <3>1. answer.orgs = shown
      BY <1>6, <2>4
    <3> QED BY <1>3, <2>1, <3>1
  <2> QED BY <2>3, <2>4
<1>8. ShownPaths = teams
  <2>1. \A path : path \in ShownPaths <=>
            \E o \in answer.orgs : \E p \in o.pillars : \E t \in p.teams :
                path = <<o.identifier, p.identifier, t.identifier>>
    BY DEF ShownPaths, Shown
  <2>2. \A path \in teams : path = <<path[1], path[2], path[3]>>
    BY DEF TeamPaths
  <2> HIDE DEF teams
  <2>3. ASSUME NEW path \in ShownPaths PROVE path \in teams
    <3>1. PICK o \in answer.orgs : \E p \in o.pillars : \E t \in p.teams :
                path = <<o.identifier, p.identifier, t.identifier>>
      BY <2>1
    <3>2. PICK p \in o.pillars : \E t \in p.teams :
                path = <<o.identifier, p.identifier, t.identifier>>
      BY <3>1
    <3>3. PICK t \in p.teams : path = <<o.identifier, p.identifier, t.identifier>>
      BY <3>2
    <3>4. HasTeam(answer.orgs, o.identifier, p.identifier, t.identifier)
      BY DEF HasTeam
    <3> QED BY <1>7, <3>3, <3>4
  <2>4. ASSUME NEW path \in teams PROVE path \in ShownPaths
    <3>1. HasTeam(answer.orgs, path[1], path[2], path[3])
      BY <1>7, <2>2
    <3>2. PICK o \in answer.orgs : o.identifier = path[1] /\
            \E p \in o.pillars : p.identifier = path[2] /\ \E t \in p.teams : t.identifier = path[3]
      BY <3>1 DEF HasTeam
    <3>3. PICK p \in o.pillars : p.identifier = path[2] /\ \E t \in p.teams : t.identifier = path[3]
      BY <3>2
    <3>4. PICK t \in p.teams : t.identifier = path[3]
      BY <3>3
    <3>5. path = <<o.identifier, p.identifier, t.identifier>>
      BY <2>2, <3>2, <3>3, <3>4
    <3> QED BY <2>1, <3>5
  <2> QED BY <2>3, <2>4
<1>9. answer.status = "not_found" <=>
         IF query.team # "" THEN teams = {}
         ELSE IF query.pillar # "" THEN \A path \in PillarPaths : ~OnPath(path)
         ELSE query.org \notin Orgs \cup {""}
  <2>1. CASE query.team # ""
    <3>1. teams # {} <=>
            \E a \in Orgs : /\ Selected(query.org, a)
                            /\ \E b \in PillarsOf[a] : /\ Selected(query.pillar, b)
                                                       /\ query.team \in TeamsOf[b]
      <4>1. ASSUME NEW path \in teams
            PROVE  /\ path[1] \in Orgs /\ Selected(query.org, path[1])
                   /\ path[2] \in PillarsOf[path[1]] /\ Selected(query.pillar, path[2])
                   /\ query.team \in TeamsOf[path[2]]
        BY <2>1 DEF TeamPaths, OnPath, Selected
      <4>2. ASSUME NEW a \in Orgs, Selected(query.org, a), NEW b \in PillarsOf[a],
                   Selected(query.pillar, b), query.team \in TeamsOf[b]
            PROVE  <<a, b, query.team>> \in teams
        BY <4>2, ConfiguredIds DEF TeamPaths, OnPath, Selected
      <4> HIDE DEF teams
      <4> QED BY <4>1, <4>2
    <3> HIDE DEF teams
    <3> QED BY <1>5, <1>6, <2>1, <3>1
  <2>2. CASE query.team = "" /\ query.pillar # ""
    <3>1. (\E path \in PillarPaths : OnPath(path)) <=>
            \E a \in Orgs : /\ Selected(query.org, a)
                            /\ \E b \in PillarsOf[a] : Selected(query.pillar, b)
      <4>1. ASSUME NEW path \in PillarPaths, OnPath(path)
            PROVE  /\ path[1] \in Orgs /\ Selected(query.org, path[1])
                   /\ path[2] \in PillarsOf[path[1]] /\ Selected(query.pillar, path[2])
        BY <4>1 DEF PillarPaths, OnPath
      <4>2. ASSUME NEW a \in Orgs, Selected(query.org, a), NEW b \in PillarsOf[a],
                   Selected(query.pillar, b)
            PROVE  <<a, b>> \in PillarPaths /\ OnPath(<<a, b>>)
        BY <4>2, ConfiguredIds DEF PillarPaths, OnPath
      <4> QED BY <4>1, <4>2
    <3> HIDE DEF teams
    <3> QED BY <1>5, <1>6, <2>2, <3>1
  <2>3. CASE query.team = "" /\ query.pillar = ""
    <3>1. shown # {} <=> \E a \in Orgs : Selected(query.org, a)
      BY <1>5, <2>3
    <3>2. query.org # "" => ((\E a \in Orgs : Selected(query.org, a)) <=> query.org \in Orgs)
      BY DEF Selected
    <3>3. answer.status = "not_found" <=> query.org # "" /\ query.org \notin Orgs
      BY <1>6, <2>3, <3>1, <3>2
    <3> QED BY <2>3, <3>3
  <2> QED BY <2>1, <2>2, <2>3
<1> QED BY <1>8, <1>9 DEF FilterShowsMatches

\* An answer stays what its request was answered with.
Answered == answer.status \in {"ok", "not_found"} => answer = Organizations(query)

\* The answer has exactly the teams that match, and is 404 exactly when the
\* deepest level asked for has no match, for every hierarchy and request.
THEOREM MatchesShown == Spec => []FilterShowsMatches
<1>1. Init => Answered
  BY DEF Init, Answered, Unanswered
<1>2. Answered /\ [Next]_vars => Answered'
  <2> SUFFICES ASSUME Answered, [Next]_vars PROVE Answered'
    OBVIOUS
  <2>1. CASE answer'.status \notin {"ok", "not_found"}
    BY <2>1 DEF Answered
  <2>2. ASSUME NEW q \in Queries, GetScorecard(q), answer'.status \in {"ok", "not_found"}
        PROVE  Answered'
    <3>1. answer' = Organizations(q) /\ query' = q /\ periods' = periods
      BY <2>2 DEF GetScorecard, Refused
    <3> QED BY <3>1 DEF Answered, Organizations
  <2>3. ASSUME NEW t \in Stored, NEW p \in periods[t], NEW a \in ActivityTypes,
               FetchIssue(t, p, a)
        PROVE  Answered'
    BY <2>3 DEF FetchIssue, Answered, Unanswered
  <2>4. CASE UNCHANGED vars
    BY <2>4 DEF vars, Answered, Organizations
  <2> QED BY <2>1, <2>2, <2>3, <2>4 DEF Next
<1>3. Answered => FilterShowsMatches
  <2>1. answer.status \notin {"ok", "not_found"} => FilterShowsMatches
    BY DEF FilterShowsMatches
  <2> QED BY <2>1, AnswerMatches DEF Answered
<1> QED BY <1>1, <1>2, <1>3, PTL DEF Spec

-----------------------------------------------------------------------------
(* The counters of a period.                                               *)

\* The reconciler's table is the documented one.
LEMMA TablesAgree ==
    ASSUME NEW type, NEW c \in Categories
    PROVE  <<type, c>> \in activityTypeMapping <=> mapActivityTypeToCategory(type) = c
BY DEF Categories, activityTypeMapping, mapActivityTypeToCategory

\* A counter goes up by one in a sum that has it.
LEMMA SumPlusOne ==
    ASSUME NEW f, NEW g, NEW S, IsFiniteSet(S), NEW x, \A y \in S : f[y] \in Nat,
           \A y \in S : g[y] = IF y = x THEN f[y] + 1 ELSE f[y]
    PROVE  /\ SumFunctionOnSet(f, S) \in Nat
           /\ SumFunctionOnSet(g, S) =
                IF x \in S THEN SumFunctionOnSet(f, S) + 1 ELSE SumFunctionOnSet(f, S)
<1> DEFINE R == S \ {x}
<1>1. /\ \A y \in S : g[y] \in Nat
      /\ x \in S => g[x] = f[x] + 1
      /\ \A y \in R : g[y] = f[y]
      /\ x \notin S => \A y \in S : g[y] = f[y]
  OBVIOUS
<1>2. /\ Numbers!IsFiniteSet(S) /\ Numbers!IsFiniteSet(R)
      /\ \A y \in S : f[y] \in Nat
      /\ \A y \in R : f[y] \in Nat
  <2>1. IsFiniteSet(R)
    BY FS_Subset
  <2> QED BY <2>1, Finite
<1>3. Numbers!Sum(f, S) \in Nat
  BY <1>2, NumbersAdd, Numbers!SumType
<1>4. ASSUME x \notin S PROVE Numbers!Sum(g, S) = Numbers!Sum(f, S)
  BY <1>1, <1>2, <1>4, Numbers!SumSame
<1>5. ASSUME x \in S PROVE Numbers!Sum(g, S) = Numbers!Sum(f, S) + 1
  <2>1. Numbers!Sum(g, R) = Numbers!Sum(f, R)
    BY <1>1, <1>2, Numbers!SumSame
  <2>2. Numbers!Sum(f, R) \in Nat
    BY <1>2, NumbersAdd, Numbers!SumType
  <2>3. Numbers!Sum(f, S) = f[x] + Numbers!Sum(f, R)
    BY <1>2, <1>5, NumbersAdd, Numbers!SumFirst
  <2>4. Numbers!Sum(g, S) = g[x] + Numbers!Sum(g, R)
    BY <1>1, <1>2, <1>5, NumbersAdd, Numbers!SumFirst
  <2>5. f[x] \in Nat
    BY <1>5
  <2> QED BY <1>1, <1>5, <2>1, <2>2, <2>3, <2>4, <2>5
<1> QED BY <1>3, <1>4, <1>5, NumbersFold

LEMMA SumOfZeros ==
    ASSUME NEW f, NEW S, IsFiniteSet(S), \A x \in S : f[x] = 0
    PROVE  SumFunctionOnSet(f, S) = 0
<1>1. Numbers!Sum(f, S) \in {0}
  <2>1. \A a, b \in {0} : a + b \in {0}
    OBVIOUS
  <2> QED BY <2>1, Finite, Numbers!SumIn
<1> QED BY <1>1, NumbersFold

TypesOf(c) == {a \in ActivityTypes : <<a, c>> \in activityTypeMapping}

\* The counters of a period are those of its issues.
Agrees(p) ==
    /\ p.total = SumFunctionOnSet(p.issues, ActivityTypes)
    /\ p.categorized = SumFunctionOnSet(p.distribution, Categories)
    /\ p.total = p.categorized + p.distribution["uncategorized"]
    /\ \A c \in Categories : p.distribution[c] = SumFunctionOnSet(p.issues, TypesOf(c))

LEMMA FinitePeriod ==
    /\ IsFiniteSet(ActivityTypes) /\ IsFiniteSet(Categories)
    /\ \A c : IsFiniteSet(TypesOf(c)) /\ TypesOf(c) \subseteq ActivityTypes
<1>1. IsFiniteSet(Categories)
  <2>1. \A S, x : IsFiniteSet(S) => IsFiniteSet(S \cup {x})
    BY FS_AddElement
  <2>2. IsFiniteSet({"wellness"} \cup {"incidents"} \cup {"security"})
    BY <2>1, FS_Singleton
  <2>3. IsFiniteSet({"wellness"} \cup {"incidents"} \cup {"security"} \cup {"quality"}
                     \cup {"future"} \cup {"product"})
    BY <2>1, <2>2
  <2>4. Categories = {"wellness"} \cup {"incidents"} \cup {"security"} \cup {"quality"}
                     \cup {"future"} \cup {"product"}
    BY DEF Categories
  <2> QED BY <2>3, <2>4
<1>2. \A c : TypesOf(c) \subseteq ActivityTypes
  BY DEF TypesOf
<1> QED BY <1>1, <1>2, ActivityTypesAssumption, FS_Subset

LEMMA EmptyAgrees ==
    ASSUME NEW s, NEW p \in EmptyPeriods(s)
    PROVE  Agrees(p)
<1>1. /\ p.issues = [a \in ActivityTypes |-> 0] /\ p.total = 0 /\ p.categorized = 0
      /\ p.distribution = [c \in Counters |-> 0]
  BY DEF EmptyPeriods, EmptyPeriod, NoIssues
<1>2. SumFunctionOnSet(p.issues, ActivityTypes) = 0
  BY <1>1, FinitePeriod, SumOfZeros
<1>3. SumFunctionOnSet(p.distribution, Categories) = 0
  BY <1>1, FinitePeriod, SumOfZeros DEF Counters
<1>4. \A c \in Categories : SumFunctionOnSet(p.issues, TypesOf(c)) = 0
  BY <1>1, FinitePeriod, SumOfZeros
<1> QED BY <1>1, <1>2, <1>3, <1>4 DEF Agrees, Counters

LEMMA CountedAgrees ==
    ASSUME NEW p \in Period, Agrees(p), NEW type \in ActivityTypes
    PROVE  Agrees(CategorizeAndAdd(p, type))
<1> DEFINE q == CategorizeAndAdd(p, type)
           category == mapActivityTypeToCategory(type)
           counter == CounterOf(type)
<1>1. /\ q.issues = [p.issues EXCEPT ![type] = @ + 1] /\ q.total = p.total + 1
      /\ q.categorized = IF category # "" THEN p.categorized + 1 ELSE p.categorized
      /\ q.distribution = [p.distribution EXCEPT ![counter] = @ + 1]
  BY CountedParts
<1>2. /\ category \in Categories \cup {""} /\ counter \in Counters
      /\ category # "" => counter = category
      /\ category = "" => counter = "uncategorized"
  BY CategoryType DEF Counters, CounterOf
<1>3. "uncategorized" \notin Categories /\ "" \notin Categories
  BY DEF Categories
<1>4. /\ p.issues \in [ActivityTypes -> Nat] /\ p.distribution \in [Counters -> Nat]
      /\ p.total \in Nat /\ p.categorized \in Nat
  BY DEF Period, ActivityDistribution
<1>5. /\ p.total = SumFunctionOnSet(p.issues, ActivityTypes)
      /\ p.categorized = SumFunctionOnSet(p.distribution, Categories)
      /\ p.total = p.categorized + p.distribution["uncategorized"]
      /\ \A c \in Categories : p.distribution[c] = SumFunctionOnSet(p.issues, TypesOf(c))
  BY DEF Agrees
<1>6. \A c \in Categories : type \in TypesOf(c) <=> category = c
  BY TablesAgree DEF TypesOf
<1> DEFINE issues == p.issues
           dist == p.distribution
           newIssues == [issues EXCEPT ![type] = @ + 1]
           newDist == [dist EXCEPT ![counter] = @ + 1]
<1>13. /\ issues \in [ActivityTypes -> Nat] /\ dist \in [Counters -> Nat]
       /\ q.issues = newIssues /\ q.distribution = newDist
  BY <1>1, <1>4
<1> HIDE DEF q, category, counter, issues, dist
<1>14. ASSUME NEW S \in SUBSET ActivityTypes, IsFiniteSet(S)
       PROVE  SumFunctionOnSet(newIssues, S) =
                IF type \in S THEN SumFunctionOnSet(issues, S) + 1 ELSE SumFunctionOnSet(issues, S)
  <2>1. \A y \in S : issues[y] \in Nat
    BY <1>13, <1>14
  <2>2. \A y \in S : newIssues[y] = IF y = type THEN issues[y] + 1 ELSE issues[y]
    BY <1>13, <1>14
  <2> HIDE DEF newIssues
  <2> QED BY <1>14, <2>1, <2>2, SumPlusOne
<1>15. ASSUME NEW S \in SUBSET Counters, IsFiniteSet(S)
       PROVE  SumFunctionOnSet(newDist, S) =
                IF counter \in S THEN SumFunctionOnSet(dist, S) + 1 ELSE SumFunctionOnSet(dist, S)
  <2>1. \A y \in S : dist[y] \in Nat
    BY <1>2, <1>13, <1>15
  <2>2. \A y \in S : newDist[y] = IF y = counter THEN dist[y] + 1 ELSE dist[y]
    BY <1>2, <1>13, <1>15
  <2> HIDE DEF newDist
  <2> QED BY <1>15, <2>1, <2>2, SumPlusOne
<1> HIDE DEF newIssues, newDist
<1>7. q.total = SumFunctionOnSet(q.issues, ActivityTypes)
  <2>1. SumFunctionOnSet(newIssues, ActivityTypes) = SumFunctionOnSet(issues, ActivityTypes) + 1
    BY <1>14, FinitePeriod
  <2> QED BY <1>1, <1>5, <1>13, <2>1 DEF issues
<1>8. SumFunctionOnSet(q.distribution, Categories) =
        IF counter \in Categories THEN p.categorized + 1 ELSE p.categorized
  <2>1. Categories \in SUBSET Counters
    BY DEF Counters
  <2>2. SumFunctionOnSet(newDist, Categories) =
          IF counter \in Categories THEN SumFunctionOnSet(dist, Categories) + 1
          ELSE SumFunctionOnSet(dist, Categories)
    BY <1>15, <2>1, FinitePeriod
  <2> QED BY <1>5, <1>13, <2>2 DEF dist
<1>9. q.categorized = SumFunctionOnSet(q.distribution, Categories)
  BY <1>1, <1>2, <1>3, <1>8
<1>10. q.total = q.categorized + q.distribution["uncategorized"]
  <2>1. "uncategorized" \in Counters
    BY DEF Counters
  <2>2. q.distribution["uncategorized"] =
          IF counter = "uncategorized" THEN p.distribution["uncategorized"] + 1
          ELSE p.distribution["uncategorized"]
    BY <1>1, <1>2, <1>4, <2>1
  <2>3. p.distribution["uncategorized"] \in Nat
    BY <1>4, <2>1
  <2>4. category # "" => counter # "uncategorized"
    BY <1>2, <1>3
  <2> DEFINE u == p.distribution["uncategorized"]
             v == q.distribution["uncategorized"]
  <2>5. u \in Nat /\ p.total = p.categorized + u
        /\ v = IF counter = "uncategorized" THEN u + 1 ELSE u
    BY <1>5, <2>2, <2>3
  <2> DEFINE i == p.total
             j == p.categorized
             k == q.total
             m == q.categorized
  <2>7. /\ i \in Nat /\ j \in Nat /\ k = i + 1 /\ i = j + u
        /\ m = IF category # "" THEN j + 1 ELSE j
    BY <1>1, <1>4, <2>5
  <2> HIDE DEF u, v, i, j, k, m
  <2>8. u \in Nat /\ i \in Nat /\ j \in Nat /\ k = i + 1 /\ i = j + u
    BY <2>5, <2>7
  <2>6. k = m + v
    <3>1. CASE category # ""
      <4>1. m = j + 1 /\ v = u
        BY <2>4, <2>5, <2>7, <3>1
      <4> QED BY <2>8, <4>1
    <3>2. CASE category = ""
      <4>1. m = j /\ v = u + 1
        BY <1>2, <2>5, <2>7, <3>2
      <4> QED BY <2>8, <4>1
    <3> QED BY <3>1, <3>2
  <2> QED BY <2>6 DEF v, k, m
<1>11. ASSUME NEW c \in Categories
       PROVE  q.distribution[c] = SumFunctionOnSet(q.issues, TypesOf(c))
  <2>1. c \in Counters /\ c # "" /\ c # "uncategorized"
    BY <1>3 DEF Counters
  <2>2. q.distribution[c] = IF counter = c THEN p.distribution[c] + 1 ELSE p.distribution[c]
    BY <1>1, <1>2, <1>4, <2>1
  <2>3. SumFunctionOnSet(q.issues, TypesOf(c)) =
          IF type \in TypesOf(c) THEN SumFunctionOnSet(p.issues, TypesOf(c)) + 1
          ELSE SumFunctionOnSet(p.issues, TypesOf(c))
    <3>1. TypesOf(c) \in SUBSET ActivityTypes /\ IsFiniteSet(TypesOf(c))
      BY FinitePeriod
    <3>2. SumFunctionOnSet(newIssues, TypesOf(c)) =
            IF type \in TypesOf(c) THEN SumFunctionOnSet(issues, TypesOf(c)) + 1
            ELSE SumFunctionOnSet(issues, TypesOf(c))
      BY <1>14, <3>1
    <3> QED BY <1>13, <3>2 DEF issues
  <2> QED BY <1>2, <1>5, <1>6, <2>1, <2>2, <2>3
<1>12. Agrees(q)
  BY <1>7, <1>9, <1>10, <1>11 DEF Agrees
<1> QED BY <1>12 DEF q

-----------------------------------------------------------------------------
(* The scores of periods.                                                  *)

\* The score of a count, of which some are categorized, is sound.
LEMMA ScoreIsSound ==
    ASSUME NEW count \in Nat, NEW categorized \in Nat, categorized <= count,
           NEW dist \in [Counters -> Nat]
    PROVE  /\ Sound(ComputeScore(count, categorized, dist))
           /\ ComputeScore(count, categorized, dist).count = count
<1> DEFINE a == Fraction(70 * categorized, count)
           b == ComputeDistributionAlignment(categorized, dist)
           s == ScoreOf(a, b, Plus(a, b), count)
<1>1. ComputeScore(count, categorized, dist) = IF count = 0 THEN NilScore ELSE s
  BY DEF ComputeScore
<1>2. CASE count = 0
  BY <1>1, <1>2 DEF Sound, NilScore
<1>3. CASE count # 0
  <2>1. count \in Nat \ {0} /\ 70 * categorized \in Nat /\ 70 * categorized <= 70 * count
    BY <1>3
  <2>2. a \in Fractions /\ AtMost(a, 70)
    <3> DEFINE n == 70 * categorized
    <3>1. n \in Nat /\ n <= 70 * count
      BY <2>1
    <3> HIDE DEF n
    <3>2. Stands(Fraction(n, count), n, count)
      BY <2>1, <3>1, FractionStands
    <3>3. AtMost(Fraction(n, count), 70)
      BY <2>1, <3>1, <3>2, AtMostValue
    <3> QED BY <3>2, <3>3 DEF n, Stands
  <2>3. b \in Fractions /\ AtMost(b, 30)
    <3> DEFINE scored == categorized - dist["wellness"]
               aligned == Aligned(scored, dist)
               total == TotalPenalty(scored, dist)
               n == 30 * aligned
               d == 352 * scored
    <3>1. scored \in Int
      BY DEF Counters, Categories
    <3>2. b = IF scored <= 0 THEN Zero ELSE Fraction(n, d)
      BY DEF ComputeDistributionAlignment
    <3>3. CASE scored <= 0
      <4>1. AtMost(Zero, 30)
        BY DEF AtMost, Zero
      <4> QED BY <3>2, <3>3, <4>1, ZeroIsFraction
    <3>4. CASE scored > 0
      <4>1. total \in Nat
        <5> HIDE DEF scored
        <5>1. dist \in [Counters -> Int]
          OBVIOUS
        <5>2. \A k \in Ranks : Penalty(scored, dist, k) \in Nat
          BY <3>1, <5>1, PenaltyValue
        <5>3. Ranks = {1, 2, 3, 4, 5}
          BY DEF Ranks
        <5>4. /\ Penalty(scored, dist, 1) \in Nat /\ Penalty(scored, dist, 2) \in Nat
              /\ Penalty(scored, dist, 3) \in Nat /\ Penalty(scored, dist, 4) \in Nat
              /\ Penalty(scored, dist, 5) \in Nat
          BY <5>2, <5>3
        <5> QED BY <5>4 DEF TotalPenalty
      <4>2. aligned = IF total < 352 * scored THEN 352 * scored - total ELSE 0
        BY DEF Aligned
      <4> HIDE DEF scored, total
      <4>3. aligned \in Nat /\ aligned <= 352 * scored
        BY <3>1, <3>4, <4>1, <4>2
      <4> HIDE DEF aligned
      <4>4. n \in Nat /\ d \in Nat \ {0} /\ n <= 30 * d
        BY <3>1, <3>4, <4>3
      <4> HIDE DEF n, d
      <4>5. Stands(Fraction(n, d), n, d)
        BY <4>4, FractionStands
      <4>6. AtMost(Fraction(n, d), 30)
        BY <4>4, <4>5, AtMostValue
      <4> QED BY <3>2, <3>4, <4>5, <4>6, <3>1 DEF Stands
    <3> HIDE DEF scored
    <3> QED BY <3>1, <3>3, <3>4
  <2> HIDE DEF a, b
  <2>4. s.count = count /\ s.catRate = a /\ s.distAlign = b /\ s.total = Plus(a, b)
    BY DEF ScoreOf
  <2>5. s = ScoreOf(s.catRate, s.distAlign, s.total, s.count)
    BY <2>4
  <2> HIDE DEF s
  <2>6. Sound(s)
    BY <2>1, <2>2, <2>3, <2>4, <2>5 DEF Sound
  <2> QED BY <1>1, <1>3, <2>4, <2>6
<1> QED BY <1>2, <1>3

\* Periods as the invariant has them.
Fine(ps) == ps \subseteq Period /\ IsFiniteSet(ps) /\ \A p \in ps : Agrees(p)

\* The score of some periods is sound, and counts the issues of them all.
LEMMA PeriodsAreSound ==
    ASSUME NEW ps, Fine(ps)
    PROVE  /\ Sound(PeriodsScore(ps)) /\ PeriodsScore(ps).count = TotalOf(ps)
           /\ TotalOf(ps) \in Nat
<1> DEFINE totals == [p \in ps |-> p.total]
           parts == [p \in ps |-> p.categorized]
           dist == MergeDistribution(ps)
<1>1. ps \subseteq Period /\ Numbers!IsFiniteSet(ps) /\ \A p \in ps : Agrees(p)
  BY Finite DEF Fine
<1>2. \A p \in ps : p.total \in Nat /\ p.categorized \in Nat /\ p.distribution \in [Counters -> Nat]
  BY <1>1 DEF Period, ActivityDistribution
<1>3. \A p \in ps : p.categorized <= p.total
  <2> TAKE p \in ps
  <2> DEFINE u == p.distribution["uncategorized"]
             i == p.total
             j == p.categorized
  <2>1. "uncategorized" \in Counters
    BY DEF Counters
  <2>2. i = j + u
    BY <1>1 DEF Agrees
  <2>3. u \in Nat /\ i \in Nat /\ j \in Nat
    BY <1>2, <2>1
  <2> HIDE DEF u, i, j
  <2>4. j <= i
    BY <2>2, <2>3
  <2> QED BY <2>4 DEF i, j
<1>4. TotalOf(ps) = Numbers!Sum(totals, ps)
  BY NumbersFold DEF TotalOf, SumFunction
<1>5. SumFunction(parts) = Numbers!Sum(parts, ps)
  BY NumbersFold DEF SumFunction
<1> DEFINE R == {x \in Nat \X Nat : x[1] <= x[2]}
<1>6. <<Numbers!Sum(parts, ps), Numbers!Sum(totals, ps)>> \in R
  <2>1. <<0, 0>> \in R
    OBVIOUS
  <2>2. \A a, b, c, d : <<a, b>> \in R /\ <<c, d>> \in R => <<a + c, b + d>> \in R
    OBVIOUS
  <2>3. \A p \in ps : <<parts[p], totals[p]>> \in R
    BY <1>2, <1>3
  <2> HIDE DEF R, parts, totals
  <2> QED BY <1>1, <2>1, <2>2, <2>3, Numbers!SumRelated
<1>7. dist \in [Counters -> Nat]
  <2>1. ASSUME NEW c \in Counters
        PROVE  SumFunction([p \in ps |-> p.distribution[c]]) \in Nat
    <3> DEFINE f == [p \in ps |-> p.distribution[c]]
    <3>1. \A p \in ps : f[p] \in Nat
      BY <1>2
    <3>2. SumFunction(f) = Numbers!Sum(f, ps)
      BY NumbersFold DEF SumFunction
    <3> HIDE DEF f
    <3>3. Numbers!Sum(f, ps) \in Nat
      BY <1>1, <3>1, NumbersAdd, Numbers!SumType
    <3>4. SumFunction(f) \in Nat
      BY <3>2, <3>3
    <3> QED BY <3>4 DEF f
  <2> QED BY <2>1 DEF MergeDistribution
<1> DEFINE i == TotalOf(ps)
           j == SumFunction(parts)
<1>8. i \in Nat /\ j \in Nat /\ j <= i
  BY <1>4, <1>5, <1>6
<1>9. PeriodsScore(ps) = ComputeScore(i, j, dist)
  BY DEF PeriodsScore
<1> HIDE DEF i, j, dist
<1>10. /\ Sound(PeriodsScore(ps)) /\ PeriodsScore(ps).count = i /\ i \in Nat
  BY <1>7, <1>8, <1>9, ScoreIsSound
<1> QED BY <1>10 DEF i

LEMMA FinePart == ASSUME NEW ps, Fine(ps), NEW qs, qs \subseteq ps PROVE Fine(qs)
BY FS_Subset DEF Fine

\* The periods are finitely many, and their counters are right.
Filled == \A t \in Stored : Fine(periods[t])

LEMMA ScopePeriodsFinite ==
    ASSUME NEW s
    PROVE  IsFiniteSet(EmptyPeriods(s))
<1> DEFINE created(f) == EmptyPeriod(f)
           a(c) == created(ClosedPeriod(c, 0))
           b == created(InProgressPeriod(Today, 0))
<1>1. PICK c, d : RefreshCadences(s, Today) = {c, d}
  BY DEF RefreshCadences, CalculateCadences
<1>2. EmptyPeriods(s) \subseteq {a(c)} \cup {a(d)} \cup {b}
  BY <1>1 DEF EmptyPeriods, FetchedPeriods
<1> HIDE DEF a, b
<1>3. IsFiniteSet({a(c)} \cup {a(d)} \cup {b})
  BY FS_Singleton, FS_Union
<1> QED BY <1>2, <1>3, FS_Subset

LEMMA InitFilled == Init => Filled
<1> SUFFICES ASSUME Init PROVE Filled
  OBVIOUS
<1>1. scope \in RefreshScope
  BY ParametersAssumption DEF Init
<1>2. EmptyPeriods(scope) \subseteq Period /\ \A p \in EmptyPeriods(scope) : Agrees(p)
  BY <1>1, ScopePeriods, EmptyAgrees
<1>3. Fine(EmptyPeriods(scope))
  BY <1>2, ScopePeriodsFinite DEF Fine
<1> QED BY <1>3 DEF Init, Filled

LEMMA StepFilled == Inv /\ Filled /\ [Next]_vars => Filled'
<1> SUFFICES ASSUME Inv, Filled, [Next]_vars PROVE Filled'
  OBVIOUS
<1>1. ASSUME NEW t \in Stored, NEW p \in periods[t], NEW a \in ActivityTypes, FetchIssue(t, p, a)
      PROVE  Filled'
  <2> DEFINE counted == CategorizeAndAdd(p, a)
             new == (periods[t] \ {p}) \cup {counted}
  <2>1. Fine(periods[t])
    BY DEF Filled
  <2>2. p \in Period /\ Agrees(p)
    BY <2>1 DEF Fine
  <2>3. counted \in Period /\ Agrees(counted)
    BY <2>2, CategorizedType, CountedAgrees
  <2> HIDE DEF counted
  <2>4. IsFiniteSet(new)
    <3>1. IsFiniteSet(periods[t]) /\ IsFiniteSet(periods[t] \ {p})
      BY <2>1, FS_RemoveElement DEF Fine
    <3> QED BY <3>1, FS_AddElement
  <2>5. Fine(new)
    BY <2>1, <2>3, <2>4 DEF Fine
  <2> HIDE DEF new
  <2>6. periods' = [periods EXCEPT ![t] = new] /\ periods \in [Stored -> SUBSET Period]
    BY <1>1 DEF FetchIssue, counted, new, Inv
  <2>7. \A u \in Stored : Fine(periods'[u])
    BY <2>5, <2>6 DEF Filled
  <2> QED BY <2>7 DEF Filled
<1>2. CASE periods' = periods
  BY <1>2 DEF Filled
<1>3. (\E t \in Stored : \E p \in periods[t], a \in ActivityTypes : FetchIssue(t, p, a))
        \/ periods' = periods
  BY DEF Next, GetScorecard, vars
<1> QED BY <1>1, <1>2, <1>3

LEMMA Filling == Spec => []Filled
BY InitFilled, StepFilled, Invariance, PTL DEF Spec

\* In every refresh the counters of every period are those of its issues.
THEOREM CountersRight == Spec => []CountersAgree
<1>1. Inv /\ Filled => CountersAgree
  <2> SUFFICES ASSUME Filled, NEW t \in Stored, NEW p \in periods[t] PROVE Agrees(p)
    BY DEF CountersAgree, Agrees, TypesOf
  <2> QED BY DEF Filled, Fine
<1> QED BY <1>1, Invariance, Filling, PTL

-----------------------------------------------------------------------------
(* The scores of the whole scorecard.                                      *)

LEMMA KeptFine ==
    ASSUME Inv, Filled, NEW t, NEW filter
    PROVE  Fine(Kept(t, filter))
<1>1. Fine(TeamPeriods(periods, t))
  <2>1. CASE t \in Stored
    BY <2>1 DEF TeamPeriods, Inv, Filled
  <2>2. CASE t \notin Stored
    BY <2>2, FS_EmptySet DEF TeamPeriods, Inv, Fine
  <2> QED BY <2>1, <2>2
<1>2. Kept(t, filter) \subseteq TeamPeriods(periods, t)
  BY DEF Kept, FilterPeriods
<1> QED BY <1>1, <1>2, FinePart

LEMMA TeamScore ==
    ASSUME Inv, Filled, NEW t, NEW filter
    PROVE  /\ FullTeam(t, filter).identifier = t
           /\ FullTeam(t, filter).score = PeriodsScore(Kept(t, filter))
           /\ Sound(FullTeam(t, filter).score)
           /\ FullTeam(t, filter).score.count = TotalOf(Kept(t, filter))
           /\ TotalOf(Kept(t, filter)) \in Nat
<1>1. /\ FullTeam(t, filter).identifier = t
      /\ FullTeam(t, filter).score = PeriodsScore(Kept(t, filter))
  BY DEF FullTeam, ComputeTeamScore
<1> QED BY <1>1, KeptFine, PeriodsAreSound

\* What a team of the whole scorecard weighs.
TeamWeight(t, filter) == Weight(FullTeam(t, filter).score)

\* A weighted sum over some teams.
LEMMA TeamsSum ==
    ASSUME Inv, Filled, NEW S, IsFiniteSet(S), NEW filter
    PROVE  /\ WeightedSum({FullTeam(t, filter) : t \in S})
                = PointsOf!Sum([t \in S |-> TeamWeight(t, filter)], S)
           /\ IsFiniteSet({FullTeam(t, filter) : t \in S})
           /\ \A e \in {FullTeam(t, filter) : t \in S} : Sound(e.score)
<1> DEFINE e == [t \in S |-> FullTeam(t, filter)]
           E == {e[t] : t \in S}
<1>1. E = {FullTeam(t, filter) : t \in S}
  OBVIOUS
<1>2. \A t \in S : Sound(e[t].score) /\ e[t].identifier = t
  BY TeamScore
<1>3. \A t, u \in S : e[t] = e[u] => t = u
  BY <1>2
<1>4. [t \in S |-> Weight(e[t].score)] = [t \in S |-> TeamWeight(t, filter)]
  BY DEF TeamWeight
<1> HIDE DEF e
<1>5. WeightedSum(E) = PointsOf!Sum([t \in S |-> Weight(e[t].score)], S)
  BY <1>2, <1>3, SumOfEntities
<1>6. IsFiniteSet(E)
  <2> DEFINE h == [t \in S |-> e[t]]
  <2>1. h \in Surjection(S, E)
    BY DEF Surjection, Range
  <2> QED BY <2>1, FS_Surjection
<1>7. \A d \in E : Sound(d.score)
  BY <1>2
<1> QED BY <1>1, <1>4, <1>5, <1>6, <1>7

LEMMA PillarScore ==
    ASSUME Inv, Filled, NEW p \in Pillars, NEW filter
    PROVE  /\ FullPillar(p, filter).identifier = p
           /\ Sound(FullPillar(p, filter).score)
           /\ Weight(FullPillar(p, filter).score)
                = PointsOf!Sum([t \in TeamsOf[p] |-> TeamWeight(t, filter)], TeamsOf[p])
<1> DEFINE E == {FullTeam(t, filter) : t \in TeamsOf[p]}
<1>1. IsFiniteSet(TeamsOf[p])
  BY UniqueIdentifiers, FiniteHierarchy, FS_Subset
<1>2. /\ WeightedSum(E) = PointsOf!Sum([t \in TeamsOf[p] |-> TeamWeight(t, filter)], TeamsOf[p])
      /\ IsFiniteSet(E) /\ \A e \in E : Sound(e.score)
  BY <1>1, TeamsSum
<1>3. FullPillar(p, filter).identifier = p /\ FullPillar(p, filter).score = WeightedAverage(E)
  BY DEF FullPillar, ComputePillarScore
<1> HIDE DEF E
<1>4. Sound(WeightedAverage(E)) /\ Weight(WeightedAverage(E)) = WeightedSum(E)
  BY <1>2, AverageIsSound
<1> QED BY <1>2, <1>3, <1>4

\* An organization's score is the average over all its teams.
LEMMA OrgScore ==
    ASSUME Inv, Filled, NEW o \in Orgs, NEW filter
    PROVE  /\ Sound(FullOrg(o, filter).score)
           /\ FullOrg(o, filter).score
                = WeightedAverage({FullTeam(t, filter) : t \in TeamsIn(o)})
           /\ FullOrg(o, filter).score.count
                = SumFunction([t \in TeamsIn(o) |-> TotalOf(Kept(t, filter))])
<1> DEFINE ps == PillarsOf[o]
           e == [p \in ps |-> FullPillar(p, filter)]
           E == {e[p] : p \in ps}
           w == [t \in Teams |-> TeamWeight(t, filter)]
           g == [p \in ps |-> PointsOf!Sum(w, TeamsOf[p])]
           T == {FullTeam(t, filter) : t \in TeamsIn(o)}
           n == [t \in TeamsIn(o) |-> TotalOf(Kept(t, filter))]
<1>1. /\ ps \subseteq Pillars /\ IsFiniteSet(ps) /\ TeamsIn(o) = UNION {TeamsOf[p] : p \in ps}
      /\ TeamsIn(o) \subseteq Teams /\ IsFiniteSet(TeamsIn(o))
      /\ \A p \in ps : TeamsOf[p] \subseteq Teams /\ IsFiniteSet(TeamsOf[p])
  <2>1. ps \subseteq Pillars
    BY DEF Pillars
  <2>2. \A p \in Pillars : TeamsOf[p] \subseteq Teams
    BY UniqueIdentifiers
  <2>3. TeamsIn(o) = UNION {TeamsOf[p] : p \in ps}
    BY DEF TeamsIn
  <2>4. TeamsIn(o) \subseteq Teams
    BY <2>1, <2>2, <2>3
  <2> QED BY <2>1, <2>2, <2>3, <2>4, FiniteHierarchy, FS_Subset
<1>2. \A t \in Teams : w[t] \in Points /\ w[t].count = TotalOf(Kept(t, filter))
  <2> TAKE t \in Teams
  <2>1. Weight(FullTeam(t, filter).score) \in BoundedPoints
    BY TeamScore, SoundWeight
  <2>2. Weight(FullTeam(t, filter).score).count = TotalOf(Kept(t, filter))
    BY TeamScore, SoundWeight
  <2> QED BY <2>1, <2>2 DEF TeamWeight, BoundedPoints
<1>3. ASSUME NEW S \in SUBSET Teams, IsFiniteSet(S)
      PROVE  PointsOf!Sum([t \in S |-> TeamWeight(t, filter)], S) = PointsOf!Sum(w, S)
  <2> DEFINE f == [t \in S |-> TeamWeight(t, filter)]
  <2>1. \A t \in S : f[t] = w[t]
    OBVIOUS
  <2> HIDE DEF f, w
  <2>2. PointsOf!Sum(f, S) = PointsOf!Sum(w, S)
    BY <1>3, <2>1, Finite, PointsOf!SumSame
  <2> QED BY <2>2 DEF f
<1>4. ASSUME NEW p \in ps
      PROVE  /\ e[p].identifier = p /\ Sound(e[p].score)
             /\ Weight(e[p].score) = g[p]
  <2>1. p \in Pillars
    BY <1>1
  <2>2. Weight(FullPillar(p, filter).score)
          = PointsOf!Sum([t \in TeamsOf[p] |-> TeamWeight(t, filter)], TeamsOf[p])
    BY <2>1, PillarScore
  <2>3. PointsOf!Sum([t \in TeamsOf[p] |-> TeamWeight(t, filter)], TeamsOf[p])
          = PointsOf!Sum(w, TeamsOf[p])
    BY <1>1, <1>3
  <2>4. FullPillar(p, filter).identifier = p /\ Sound(FullPillar(p, filter).score)
    BY <2>1, PillarScore
  <2> QED BY <2>2, <2>3, <2>4
<1>5. FullOrg(o, filter).score = WeightedAverage(E)
  <2>1. E = {FullPillar(p, filter) : p \in PillarsOf[o]}
    OBVIOUS
  <2> HIDE DEF E
  <2> QED BY <2>1 DEF FullOrg, ComputeOrgScore
<1>6. [p \in ps |-> Weight(e[p].score)] = g
  BY <1>4
<1> HIDE DEF e
<1>7. WeightedSum(E) = PointsOf!Sum(g, ps)
  <2>1. \A p, q \in ps : e[p] = e[q] => p = q
    BY <1>4
  <2>2. WeightedSum({e[p] : p \in ps}) = PointsOf!Sum([p \in ps |-> Weight(e[p].score)], ps)
    <3> HIDE DEF ps, g
    <3> QED BY <1>1, <1>4, <2>1, SumOfEntities
  <2> QED BY <1>6, <2>2
<1>8. IsFiniteSet(E) /\ \A d \in E : Sound(d.score)
  <2> DEFINE h == [p \in ps |-> e[p]]
  <2>1. h \in Surjection(ps, E)
    BY DEF Surjection, Range
  <2>2. IsFiniteSet(E)
    BY <1>1, <2>1, FS_Surjection
  <2> QED BY <1>4, <2>2
<1>9. PointsOf!Sum(w, TeamsIn(o)) = PointsOf!Sum(g, ps)
  <2>1. \A p \in ps : PointsOf!IsFiniteSet(TeamsOf[p]) /\ g[p] = PointsOf!Sum(w, TeamsOf[p])
    BY <1>1, Finite
  <2>2. \A p, q \in ps : p # q => TeamsOf[p] \cap TeamsOf[q] = {}
    BY <1>1, UniqueIdentifiers
  <2>3. \A p \in ps : \A t \in TeamsOf[p] : w[t] \in Points
    BY <1>1, <1>2
  <2>4. PointsOf!IsFiniteSet(ps)
    BY <1>1, Finite
  <2> HIDE DEF g, w, ps
  <2>5. PointsOf!Sum(w, UNION {TeamsOf[p] : p \in ps}) = PointsOf!Sum(g, ps)
    BY <2>1, <2>2, <2>3, <2>4, PointsAdd, PointsOf!SumParts
  <2> QED BY <1>1, <2>5
<1>10. WeightedSum(T) = PointsOf!Sum(w, TeamsIn(o))
  BY <1>1, <1>3, TeamsSum
<1>11. FullOrg(o, filter).score = WeightedAverage(T)
  <2> HIDE DEF T, E
  <2> QED BY <1>5, <1>7, <1>9, <1>10, AveragesAgree
<1>12. Sound(WeightedAverage(E)) /\ WeightedAverage(E).count = WeightedSum(E).count
  <2> HIDE DEF E
  <2> QED BY <1>8, AverageIsSound
<1>13. PointsOf!Sum(w, TeamsIn(o)).count = Numbers!Sum(n, TeamsIn(o))
  <2>1. \A t \in TeamsIn(o) : w[t] \in Points /\ n[t] = w[t].count
    BY <1>1, <1>2
  <2> HIDE DEF w, n
  <2> QED BY <1>1, <2>1, CountsAdd
<1>14. SumFunction(n) = Numbers!Sum(n, TeamsIn(o))
  BY NumbersFold DEF SumFunction
<1> HIDE DEF E, T, n, w, g, ps
<1>15. FullOrg(o, filter).score.count = SumFunction(n)
  BY <1>5, <1>7, <1>9, <1>12, <1>13, <1>14
<1>16. Sound(FullOrg(o, filter).score)
  BY <1>5, <1>12
<1> QED BY <1>11, <1>15, <1>16 DEF T, n

LEMMA CountedIsKept == ASSUME NEW t PROVE Counted(t) = Kept(t, query.filter)
BY DEF Counted, Kept

\* What is shown of an entity is what the whole scorecard has of it.
LEMMA ShownIsFull ==
    ASSUME Inv
    PROVE  /\ \A o \in Shown : /\ o.identifier \in Orgs
                               /\ o.score = FullOrg(o.identifier, query.filter).score
           /\ \A p \in ShownPillars : /\ p.identifier \in Pillars
                                      /\ p.score = FullPillar(p.identifier, query.filter).score
           /\ \A e \in ShownTeams : \E t \in Teams : e = FullTeam(t, query.filter)
<1>1. \A o \in Shown : Scored(o, query.filter)
  BY DEF Inv, Shown
<1>2. ASSUME NEW p \in ShownPillars
      PROVE  /\ p.identifier \in Pillars
             /\ p.score = FullPillar(p.identifier, query.filter).score
             /\ \A e \in p.teams : \E t \in Teams : e = FullTeam(t, query.filter)
  BY <1>1 DEF ShownPillars, Scored
<1> QED BY <1>1, <1>2 DEF Scored, ShownTeams

\* For every hierarchy and every request an organization's score is the
\* average over all its teams, and its issues are its teams' issues.
THEOREM OrgScores == Spec => []OrgScoreIsOverTeams
<1>1. Inv /\ Filled => OrgScoreIsOverTeams
  <2> SUFFICES ASSUME Inv, Filled, NEW o \in Shown
               PROVE  LET teams == TeamsIn(o.identifier) IN
                      /\ o.score = WeightedAverage({ComputeTeamScore(t, Counted(t)) : t \in teams})
                      /\ o.score.count = SumFunction([t \in teams |-> TotalOf(Counted(t))])
    BY DEF OrgScoreIsOverTeams
  <2> DEFINE id == o.identifier
  <2>1. id \in Orgs /\ o.score = FullOrg(id, query.filter).score
    BY ShownIsFull
  <2>2. /\ o.score = WeightedAverage({FullTeam(t, query.filter) : t \in TeamsIn(id)})
        /\ o.score.count = SumFunction([t \in TeamsIn(id) |-> TotalOf(Kept(t, query.filter))])
    BY <2>1, OrgScore
  <2> QED BY <2>2, CountedIsKept DEF FullTeam
<1> QED BY <1>1, Invariance, Filling, PTL

LEMMA SoundInRange ==
    ASSUME NEW s, Sound(s)
    PROVE  IF s.count = 0 THEN s = NilScore
           ELSE /\ InPoints(s.total, 100)
                /\ AtLeast(s.catRate, 0) /\ AtLeast(s.distAlign, 0)
                /\ s.total = Plus(s.catRate, s.distAlign)
<1>1. CASE s = NilScore
  BY <1>1 DEF NilScore
<1>2. CASE s # NilScore
  <2>1. /\ s.count # 0 /\ s.total = Plus(s.catRate, s.distAlign)
        /\ s.catRate \in Fractions /\ AtMost(s.catRate, 70)
        /\ s.distAlign \in Fractions /\ AtMost(s.distAlign, 30)
    BY <1>2 DEF Sound
  <2>2. ASSUME NEW a \in Fractions, NEW k \in Nat, AtMost(a, k)
        PROVE  InPoints(a, k)
    <3> DEFINE n == a.num
               d == a.den
    <3>1. n \in Nat /\ d \in Nat \ {0} /\ n <= k * d
      BY <2>2, FractionType DEF AtMost
    <3> HIDE DEF n, d
    <3>2. n >= 0 * d
      BY <3>1
    <3> QED BY <3>1, <3>2 DEF InPoints, AtLeast, n, d
  <2>3. s.total \in Fractions
    BY <2>1, PlusParts
  <2>4. AtMost(s.total, 100)
    <3> DEFINE i == 70
               j == 30
    <3>1. i \in Nat /\ j \in Nat /\ i + j = 100
      OBVIOUS
    <3>2. AtMost(s.catRate, i) /\ AtMost(s.distAlign, j)
      BY <2>1
    <3> HIDE DEF i, j
    <3>3. AtMost(Plus(s.catRate, s.distAlign), i + j)
      BY <2>1, <3>1, <3>2, AtMostPlus
    <3> QED BY <2>1, <3>1, <3>3
  <2>5. InPoints(s.total, 100) /\ InPoints(s.catRate, 70) /\ InPoints(s.distAlign, 30)
    BY <2>1, <2>2, <2>3, <2>4
  <2> QED BY <2>1, <2>5 DEF InPoints
<1> QED BY <1>1, <1>2

\* At every level of every answer a score is null exactly when no issue was
\* counted, and otherwise within 100 points and the sum of two parts that are not
\* negative: the bounds of the parts, which Sound carries through the averages,
\* add up to 100.
THEOREM ScoresRight == Spec => []ScoresInRange
<1>1. Inv /\ Filled => ScoresInRange
  <2> SUFFICES ASSUME Inv, Filled,
                      NEW e \in ShownEntities
               PROVE  Sound(e.score)
    BY SoundInRange DEF ScoresInRange
  <2>1. CASE e \in Shown
    BY <2>1, ShownIsFull, OrgScore
  <2>2. CASE e \in ShownPillars
    BY <2>2, ShownIsFull, PillarScore
  <2>3. CASE e \in ShownTeams
    <3>1. PICK t \in Teams : e = FullTeam(t, query.filter)
      BY <2>3, ShownIsFull
    <3> QED BY <3>1, TeamScore
  <2>4. CASE e \in UNION {t.periods : t \in ShownTeams}
    <3>1. PICK t \in Teams : e \in FullTeam(t, query.filter).periods
      BY <2>4, ShownIsFull
    <3>2. PICK p \in Kept(t, query.filter) : e = [period |-> p, score |-> PeriodsScore({p})]
      BY <3>1 DEF FullTeam, ComputeTeamScore
    <3>3. Fine(Kept(t, query.filter))
      BY KeptFine
    <3>4. Fine({p})
      BY <3>3, FinePart
    <3>5. Sound(PeriodsScore({p}))
      BY <3>4, PeriodsAreSound
    <3> QED BY <3>2, <3>5
  <2> QED BY <2>1, <2>2, <2>3, <2>4 DEF ShownEntities
<1> QED BY <1>1, Invariance, Filling, PTL

\* The issues of some periods are those of each set type.
LEMMA SectionsSplit ==
    ASSUME NEW ps, Fine(ps)
    PROVE  LET types == {p.setType : p \in ps}
               section == [s \in types |-> PeriodsScore({p \in ps : p.setType = s})]
           IN  TotalOf(ps) = SumFunction([s \in types |-> section[s].count])
<1> DEFINE types == {p.setType : p \in ps}
           part == [s \in types |-> {p \in ps : p.setType = s}]
           section == [s \in types |-> PeriodsScore({p \in ps : p.setType = s})]
           g == [s \in types |-> section[s].count]
           f == [p \in ps |-> p.total]
<1>1. types \subseteq SetTypes
  BY DEF Fine, Period
<1>2. Numbers!IsFiniteSet(types)
  <2>1. SetTypes = {"closed"} \cup {"in_progress"}
    BY DEF SetTypes
  <2>2. IsFiniteSet(SetTypes)
    BY <2>1, FS_Singleton, FS_Union
  <2>3. IsFiniteSet(types)
    BY <1>1, <2>2, FS_Subset
  <2> QED BY <2>3, Finite
<1>3. ASSUME NEW s \in types
      PROVE  /\ Numbers!IsFiniteSet(part[s]) /\ part[s] \subseteq ps
             /\ g[s] = Numbers!Sum(f, part[s])
  <2> DEFINE qs == {p \in ps : p.setType = s}
             h == [p \in qs |-> p.total]
  <2>1. part[s] = qs /\ g[s] = PeriodsScore(qs).count /\ qs \subseteq ps
    OBVIOUS
  <2>2. Fine(qs)
    BY <2>1, FinePart
  <2>3. \A p \in qs : h[p] = f[p]
    OBVIOUS
  <2>4. TotalOf(qs) = Numbers!Sum(h, qs)
    BY NumbersFold DEF TotalOf, SumFunction
  <2> HIDE DEF qs, f, h, g, part
  <2>5. Numbers!IsFiniteSet(qs)
    BY <2>2, Finite DEF Fine
  <2>6. Numbers!Sum(h, qs) = Numbers!Sum(f, qs)
    BY <2>3, <2>5, Numbers!SumSame
  <2>7. PeriodsScore(qs).count = TotalOf(qs)
    BY <2>2, PeriodsAreSound
  <2> QED BY <2>1, <2>4, <2>5, <2>6, <2>7
<1>4. \A s, u \in types : s # u => part[s] \cap part[u] = {}
  OBVIOUS
<1>5. \A s \in types : \A p \in part[s] : f[p] \in Nat
  <2>1. \A p \in ps : p.total \in Nat
    BY DEF Fine, Period
  <2> QED BY <2>1
<1>6. UNION {part[s] : s \in types} = ps
  <2>1. \A p \in ps : p.setType \in types /\ p \in part[p.setType]
    OBVIOUS
  <2>2. \A s \in types : part[s] \subseteq ps
    BY <1>3
  <2> HIDE DEF types, part
  <2> QED BY <2>1, <2>2
<1>7. Numbers!Sum(f, UNION {part[s] : s \in types}) = Numbers!Sum(g, types)
  <2>1. \A s \in types : Numbers!IsFiniteSet(part[s]) /\ g[s] = Numbers!Sum(f, part[s])
    BY <1>3
  <2> DEFINE N == Nat
  <2>2. ASSUME NEW a, NEW b, NEW c, NEW P, Numbers!IsFiniteSet(P),
               \A s \in P : Numbers!IsFiniteSet(b[s]) /\ c[s] = Numbers!Sum(a, b[s]),
               \A s, u \in P : s # u => b[s] \cap b[u] = {},
               \A s \in P : \A x \in b[s] : a[x] \in N
        PROVE  Numbers!Sum(a, UNION {b[s] : s \in P}) = Numbers!Sum(c, P)
    BY <2>2, NumbersAdd, Numbers!SumParts
  <2>3. \A s \in types : \A p \in part[s] : f[p] \in N
    BY <1>5
  <2> HIDE DEF types, part, f, g, N
  <2> QED BY <1>2, <1>4, <2>1, <2>2, <2>3
<1>8. TotalOf(ps) = Numbers!Sum(f, ps)
  BY NumbersFold DEF TotalOf, SumFunction
<1>9. SumFunction(g) = Numbers!Sum(g, types)
  BY NumbersFold DEF SumFunction
<1>10. TotalOf(ps) = SumFunction(g)
  BY <1>6, <1>7, <1>8, <1>9
<1> QED BY <1>10

\* In every answer a team's sections split its issues, and each is what a
\* request for its set type alone is answered with.
THEOREM SectionsRight == Spec => []SectionsAreStatusViews
<1>1. Inv /\ Filled => SectionsAreStatusViews
  <2> SUFFICES ASSUME Inv, Filled, NEW e \in ShownTeams
               PROVE  /\ e.score.count
                           = SumFunction([s \in DOMAIN e.sections |-> e.sections[s].count])
                      /\ \A s \in DOMAIN e.sections :
                           e.sections[s] = PeriodsScore(FilterPeriods(
                               TeamPeriods(periods, e.identifier),
                               [query.filter EXCEPT !.status = s]))
    BY DEF SectionsAreStatusViews
  <2>1. PICK t \in Teams : e = FullTeam(t, query.filter)
    BY ShownIsFull
  <2> DEFINE ps == Kept(t, query.filter)
             types == {p.setType : p \in ps}
             section == [s \in types |-> PeriodsScore({p \in ps : p.setType = s})]
  <2>2. e.identifier = t /\ e.score.count = TotalOf(ps) /\ Fine(ps)
    BY <2>1, TeamScore, KeptFine
  <2>3. e.sections = section
    BY <2>1 DEF FullTeam, ComputeTeamScore
  <2>4. TotalOf(ps) = SumFunction([s \in types |-> section[s].count])
    BY <2>2, SectionsSplit
  <2>5. e.score.count = SumFunction([s \in DOMAIN e.sections |-> e.sections[s].count])
    <3>1. DOMAIN section = types
      OBVIOUS
    <3> HIDE DEF section, types, ps
    <3> QED BY <2>2, <2>3, <2>4, <3>1
  <2>6. query.filter \in RefreshScope
    <3>1. answer.orgs # {}
      BY DEF ShownTeams, ShownPillars, Shown
    <3> QED BY <3>1 DEF Inv
  <2>7. ASSUME NEW s \in types
        PROVE  {p \in ps : p.setType = s}
                 = FilterPeriods(TeamPeriods(periods, t), [query.filter EXCEPT !.status = s])
    <3> DEFINE q == query.filter
               r == [q EXCEPT !.status = s]
               all == TeamPeriods(periods, t)
    <3>1. r.status = s /\ r.start = q.start /\ r.end = q.end
      BY <2>6 DEF RefreshScope
    <3>2. PICK x \in ps : x.setType = s
      OBVIOUS
    <3>3. ps = FilterPeriods(all, q)
      BY DEF Kept
    <3>4. s # ""
      <4>1. x \in Period
        BY <2>2 DEF Fine
      <4> QED BY <3>2, <4>1 DEF Period, SetTypes
    <3>5. q.status # "" => q.status = s
      BY <3>2, <3>3 DEF FilterPeriods
    <3> HIDE DEF q, r, all, ps
    <3>6. {p \in ps : p.setType = s} = FilterPeriods(all, r)
      BY <3>1, <3>3, <3>4, <3>5 DEF FilterPeriods
    <3> QED BY <3>6 DEF q, r, all
  <2>8. ASSUME NEW s \in DOMAIN e.sections
        PROVE  e.sections[s] = PeriodsScore(FilterPeriods(TeamPeriods(periods, e.identifier),
                                                          [query.filter EXCEPT !.status = s]))
    <3>1. s \in types /\ e.sections[s] = PeriodsScore({p \in ps : p.setType = s})
      BY <2>3
    <3> HIDE DEF ps
    <3> QED BY <2>2, <2>7, <3>1
  <2> QED BY <2>5, <2>8
<1> QED BY <1>1, Invariance, Filling, PTL
=============================================================================
