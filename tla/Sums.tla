-------------------------------- MODULE Sums --------------------------------
(***************************************************************************)
(* Sums over finite sets, in any commutative monoid: what the folds of the *)
(* community modules compute, whatever element they choose next.  The      *)
(* scores use them with whole numbers and with fractions.                  *)
(***************************************************************************)
EXTENDS Functions, FiniteSetTheorems, TLAPS

CONSTANTS Elements, Base, Add(_,_)

Monoid ==
    /\ Base \in Elements
    /\ \A a, b \in Elements : Add(a, b) \in Elements /\ Add(a, b) = Add(b, a)
    /\ \A a, b, c \in Elements : Add(Add(a, b), c) = Add(a, Add(b, c))
    /\ \A a \in Elements : Add(Base, a) = a

SumFrom(base, f, S) == FoldFunctionOnSet(Add, base, f, S)

Sum(f, S) == SumFrom(Base, f, S)

LEMMA Reorder ==
    ASSUME Monoid
    PROVE  \A a, b, c \in Elements : /\ Add(a, Add(b, c)) = Add(b, Add(a, c))
                                     /\ Add(Add(a, b), c) = Add(a, Add(b, c))
<1> SUFFICES ASSUME NEW a \in Elements, NEW b \in Elements, NEW c \in Elements
             PROVE  /\ Add(a, Add(b, c)) = Add(b, Add(a, c))
                    /\ Add(Add(a, b), c) = Add(a, Add(b, c))
  OBVIOUS
<1>1. \A x, y, z \in Elements : Add(Add(x, y), z) = Add(x, Add(y, z))
  BY DEF Monoid
<1>2. Add(a, b) = Add(b, a)
  BY DEF Monoid
<1>3. Add(Add(a, b), c) = Add(a, Add(b, c))
  BY <1>1
<1>4. Add(Add(b, a), c) = Add(b, Add(a, c))
  BY <1>1
<1> QED BY <1>2, <1>3, <1>4

-----------------------------------------------------------------------------
(* A sum is what its recursion says.                                       *)

\* A set of subsets of a finite set has a smallest one.
LEMMA Smallest ==
    ASSUME NEW S, IsFiniteSet(S), NEW Family \in SUBSET SUBSET S, Family # {}
    PROVE  \E least \in Family : \A T \in Family : T \subseteq least => T = least
<1>1. IsWellFoundedOn(StrictSubsetOrdering(S), FiniteSubsetsOf(S))
  BY FS_StrictSubsetOrderingWellFounded
<1>2. Family \subseteq FiniteSubsetsOf(S)
  BY FS_Subset DEF FiniteSubsetsOf
<1>3. PICK least \in Family : \A T \in Family : ~(<<T, least>> \in StrictSubsetOrdering(S))
  BY <1>1, <1>2, WFMin
<1>4. ASSUME NEW T \in Family, T \subseteq least PROVE T = least
  BY <1>3, <1>4 DEF StrictSubsetOrdering
<1> QED BY <1>4

Choice(S) == CHOOSE x \in S : TRUE

\* The function that the fold over S of f is defined with.
Folds(b, f, S, g) ==
    g = [s \in SUBSET S |-> IF s = {} THEN b
                            ELSE Add(f[Choice(s)], g[s \ {Choice(s)}])]

LEMMA SumIsFold == \A b, f, S : SumFrom(b, f, S) = (CHOOSE g : Folds(b, f, S, g))[S]
BY Zenon DEF SumFrom, FoldFunctionOnSet, MapThenFoldSet, Folds, Choice

LEMMA FoldStep ==
    ASSUME NEW b, NEW f, NEW S, NEW g, Folds(b, f, S, g), NEW s \in SUBSET S
    PROVE  /\ s = {} => g[s] = b
           /\ s # {} => /\ Choice(s) \in s
                        /\ g[s] = Add(f[Choice(s)], g[s \ {Choice(s)}])
<1>1. g[s] = IF s = {} THEN b ELSE Add(f[Choice(s)], g[s \ {Choice(s)}])
  BY DEF Folds
<1> QED BY <1>1 DEF Choice

LEMMA FoldsAgree ==
    ASSUME NEW b, NEW f, NEW S, NEW T, NEW g, NEW h, Folds(b, f, S, g), Folds(b, f, T, h),
           NEW s, IsFiniteSet(s), s \subseteq S, s \subseteq T
    PROVE  g[s] = h[s]
<1> DEFINE Bad == {u \in SUBSET s : g[u] # h[u]}
<1> SUFFICES ASSUME Bad # {} PROVE FALSE
  OBVIOUS
<1>1. PICK u \in Bad : \A v \in Bad : v \subseteq u => v = u
  <2>1. Bad \in SUBSET SUBSET s
    OBVIOUS
  <2> HIDE DEF Bad
  <2> QED BY <2>1, Smallest
<1>2. g[u] # h[u] /\ u \in SUBSET S /\ u \in SUBSET T
  OBVIOUS
<1>3. /\ u = {} => g[u] = b
      /\ u # {} => Choice(u) \in u /\ g[u] = Add(f[Choice(u)], g[u \ {Choice(u)}])
  BY <1>2, FoldStep
<1>4. /\ u = {} => h[u] = b
      /\ u # {} => h[u] = Add(f[Choice(u)], h[u \ {Choice(u)}])
  BY <1>2, FoldStep
<1>5. u # {} => g[u \ {Choice(u)}] = h[u \ {Choice(u)}]
  BY <1>1, <1>3
<1> QED BY <1>2, <1>3, <1>4, <1>5

\* From the sums over the smaller sets, the function of a larger one is put
\* together.
LEMMA FoldExists == ASSUME NEW b, NEW f, NEW S, IsFiniteSet(S) PROVE \E g : Folds(b, f, S, g)
<1> DEFINE Bad == {T \in SUBSET S : ~\E g : Folds(b, f, T, g)}
<1> SUFFICES ASSUME Bad # {} PROVE FALSE
  OBVIOUS
<1>1. PICK T \in Bad : \A v \in Bad : v \subseteq T => v = T
  <2>1. Bad \in SUBSET SUBSET S
    OBVIOUS
  <2> HIDE DEF Bad
  <2> QED BY <2>1, Smallest
<1> DEFINE Part(s) == CHOOSE g : Folds(b, f, s, g)
           x == Choice(T)
           g == [s \in SUBSET T |-> IF s # T THEN SumFrom(b, f, s)
                                    ELSE IF T = {} THEN b ELSE Add(f[x], SumFrom(b, f, T \ {x}))]
<1>2. ASSUME NEW s \in SUBSET T, s # T PROVE Folds(b, f, s, Part(s)) /\ SumFrom(b, f, s) = Part(s)[s]
  BY <1>1, <1>2, SumIsFold
<1>3. ASSUME NEW s \in SUBSET T PROVE g[s] = IF s = {} THEN b
                                              ELSE Add(f[Choice(s)], g[s \ {Choice(s)}])
  <2>1. CASE s = T
    <3>1. CASE T = {}
      BY <2>1, <3>1
    <3>2. CASE T # {}
      <4>1. x \in T
        BY <3>2 DEF Choice
      <4>2. g[T \ {x}] = SumFrom(b, f, T \ {x})
        BY <4>1
      <4> QED BY <2>1, <3>2, <4>2
    <3> QED BY <3>1, <3>2
  <2>2. CASE s # T
    <3> DEFINE y == Choice(s)
               rest == s \ {y}
               part == Part(s)
    <3>1. g[s] = part[s] /\ Folds(b, f, s, part)
      BY <1>2, <2>2
    <3> HIDE DEF part
    <3>2. CASE s = {}
      <4>1. part[s] = b
        BY <3>1, <3>2, FoldStep
      <4> QED BY <3>1, <3>2, <4>1
    <3>3. CASE s # {}
      <4>1. y \in s /\ part[s] = Add(f[y], part[rest])
        BY <3>1, <3>3, FoldStep
      <4>2. rest \in SUBSET T /\ rest # T
        BY <4>1
      <4>3. g[rest] = Part(rest)[rest] /\ Folds(b, f, rest, Part(rest))
        BY <1>2, <4>2
      <4>4. IsFiniteSet(rest)
        BY <4>2, FS_Subset
      <4>5. part[rest] = Part(rest)[rest]
        BY <3>1, <4>3, <4>4, FoldsAgree
      <4> QED BY <3>1, <3>3, <4>1, <4>3, <4>5
    <3> QED BY <3>2, <3>3
  <2> QED BY <2>1, <2>2
<1>4. Folds(b, f, T, g)
  <2>1. g = [s \in SUBSET T |-> g[s]]
    OBVIOUS
  <2> HIDE DEF g
  <2> QED BY <1>3, <2>1 DEF Folds
<1> QED BY <1>4

\* The fold over no element is its base, and any other is the chosen element's
\* value added to the fold over the rest.
LEMMA SumFromStep ==
    ASSUME NEW b, NEW f, NEW S, IsFiniteSet(S)
    PROVE  /\ S = {} => SumFrom(b, f, S) = b
           /\ S # {} => /\ Choice(S) \in S
                        /\ SumFrom(b, f, S) = Add(f[Choice(S)], SumFrom(b, f, S \ {Choice(S)}))
<1> DEFINE g == CHOOSE g : Folds(b, f, S, g)
           x == Choice(S)
           h == CHOOSE h : Folds(b, f, S \ {x}, h)
<1>1. IsFiniteSet(S \ {x})
  BY FS_Subset
<1>2. Folds(b, f, S, g) /\ Folds(b, f, S \ {x}, h)
  BY <1>1, FoldExists
<1>3. SumFrom(b, f, S) = g[S] /\ SumFrom(b, f, S \ {x}) = h[S \ {x}]
  BY SumIsFold
<1> HIDE DEF g, h
<1>4. g[S \ {x}] = h[S \ {x}]
  BY <1>1, <1>2, FoldsAgree
<1>5. S = {} => g[S] = b
  BY <1>2, FoldStep
<1>6. S # {} => x \in S /\ g[S] = Add(f[x], g[S \ {x}])
  <2>1. \A s \in SUBSET S : s # {} => /\ Choice(s) \in s
                                      /\ g[s] = Add(f[Choice(s)], g[s \ {Choice(s)}])
    BY <1>2, FoldStep
  <2>2. S \in SUBSET S
    OBVIOUS
  <2> QED BY <2>1, <2>2
<1> QED BY <1>3, <1>4, <1>5, <1>6

LEMMA SumStep ==
    ASSUME NEW f, NEW S, IsFiniteSet(S)
    PROVE  /\ S = {} => Sum(f, S) = Base
           /\ S # {} => /\ Choice(S) \in S
                        /\ Sum(f, S) = Add(f[Choice(S)], Sum(f, S \ {Choice(S)}))
BY SumFromStep DEF Sum

\* A sum depends on the values of its elements alone.
LEMMA SumSame ==
    ASSUME NEW f, NEW g, NEW S, IsFiniteSet(S), \A x \in S : f[x] = g[x]
    PROVE  Sum(f, S) = Sum(g, S)
<1> DEFINE Bad == {T \in SUBSET S : Sum(f, T) # Sum(g, T)}
<1> SUFFICES ASSUME Bad # {} PROVE FALSE
  OBVIOUS
<1>1. PICK T \in Bad : \A U \in Bad : U \subseteq T => U = T
  <2>1. Bad \in SUBSET SUBSET S
    OBVIOUS
  <2> HIDE DEF Bad
  <2> QED BY <2>1, Smallest
<1>2. T \in SUBSET S /\ IsFiniteSet(T) /\ Sum(f, T) # Sum(g, T)
  BY FS_Subset
<1>3. T # {}
  BY <1>2, SumStep
<1> DEFINE x == Choice(T)
           rest == T \ {x}
<1>4. x \in T /\ Sum(f, T) = Add(f[x], Sum(f, rest)) /\ Sum(g, T) = Add(g[x], Sum(g, rest))
  BY <1>2, <1>3, SumStep
<1>5. Sum(f, rest) = Sum(g, rest)
  <2>1. rest \in SUBSET S /\ rest \subseteq T /\ rest # T
    BY <1>2, <1>4
  <2> HIDE DEF rest
  <2> QED BY <1>1, <2>1
<1> QED BY <1>2, <1>4, <1>5

-----------------------------------------------------------------------------
(* Sums in a commutative monoid.                                           *)

\* What holds of Base and the values, and is kept by Add, holds of the sum.
LEMMA SumIn ==
    ASSUME NEW P, Base \in P, \A a, b \in P : Add(a, b) \in P,
           NEW f, NEW S, IsFiniteSet(S), \A x \in S : f[x] \in P
    PROVE  Sum(f, S) \in P
<1> DEFINE Bad == {T \in SUBSET S : Sum(f, T) \notin P}
<1> SUFFICES ASSUME Bad # {} PROVE FALSE
  OBVIOUS
<1>1. PICK T \in Bad : \A U \in Bad : U \subseteq T => U = T
  <2>1. Bad \in SUBSET SUBSET S
    OBVIOUS
  <2> HIDE DEF Bad
  <2> QED BY <2>1, Smallest
<1>2. T \in SUBSET S /\ IsFiniteSet(T) /\ Sum(f, T) \notin P
  BY FS_Subset
<1>3. T # {}
  BY <1>2, SumStep
<1> DEFINE x == Choice(T)
           rest == T \ {x}
<1>4. x \in T /\ Sum(f, T) = Add(f[x], Sum(f, rest))
  BY <1>2, <1>3, SumStep
<1>5. Sum(f, rest) \in P
  <2>1. rest \in SUBSET S /\ rest \subseteq T /\ rest # T
    BY <1>2, <1>4
  <2> HIDE DEF rest
  <2> QED BY <1>1, <2>1
<1> QED BY <1>2, <1>4, <1>5

LEMMA SumType ==
    ASSUME Monoid, NEW f, NEW S, IsFiniteSet(S), \A x \in S : f[x] \in Elements
    PROVE  Sum(f, S) \in Elements
BY SumIn DEF Monoid

\* Any element may come first.
LEMMA SumFirst ==
    ASSUME Monoid, NEW f, NEW S, IsFiniteSet(S), \A x \in S : f[x] \in Elements, NEW x \in S
    PROVE  Sum(f, S) = Add(f[x], Sum(f, S \ {x}))
<1> DEFINE Bad == {T \in SUBSET S : \E z \in T : Sum(f, T) # Add(f[z], Sum(f, T \ {z}))}
<1> SUFFICES ASSUME Bad # {} PROVE FALSE
  OBVIOUS
<1>1. PICK T \in Bad : \A U \in Bad : U \subseteq T => U = T
  <2>1. Bad \in SUBSET SUBSET S
    OBVIOUS
  <2> HIDE DEF Bad
  <2> QED BY <2>1, Smallest
<1>2. T \in SUBSET S /\ IsFiniteSet(T)
  BY FS_Subset
<1>3. PICK z \in T : Sum(f, T) # Add(f[z], Sum(f, T \ {z}))
  OBVIOUS
<1>4. ASSUME NEW U \in SUBSET S, U \subseteq T, U # T, NEW u \in U
      PROVE  Sum(f, U) = Add(f[u], Sum(f, U \ {u}))
  BY <1>1, <1>4
<1> HIDE DEF Bad
<1> DEFINE y == Choice(T)
           rest == (T \ {y}) \ {z}
<1>5. y \in T /\ Sum(f, T) = Add(f[y], Sum(f, T \ {y}))
  BY <1>2, <1>3, SumStep
<1>6. y # z
  BY <1>3, <1>5
<1> HIDE DEF y
<1>7. Sum(f, T \ {y}) = Add(f[z], Sum(f, rest))
  BY <1>2, <1>3, <1>4, <1>5, <1>6
<1>8. Sum(f, T \ {z}) = Add(f[y], Sum(f, rest))
  <2>1. rest = (T \ {z}) \ {y}
    OBVIOUS
  <2> QED BY <1>2, <1>3, <1>4, <1>5, <1>6, <2>1
<1>9. Sum(f, rest) \in Elements
  <2>1. IsFiniteSet(rest) /\ \A u \in rest : f[u] \in Elements
    BY <1>2, FS_Subset
  <2> HIDE DEF rest
  <2> QED BY <2>1, SumType
<1>10. f[y] \in Elements /\ f[z] \in Elements
  BY <1>2, <1>3, <1>5
<1> HIDE DEF rest
<1>11. Add(f[y], Add(f[z], Sum(f, rest))) = Add(f[z], Add(f[y], Sum(f, rest)))
  BY <1>9, <1>10, Reorder
<1> QED BY <1>3, <1>5, <1>7, <1>8, <1>11

LEMMA SumOfOne ==
    ASSUME Monoid, NEW f, NEW x, f[x] \in Elements
    PROVE  Sum(f, {x}) = f[x]
<1>1. IsFiniteSet({x}) /\ {x} \ {x} = {}
  BY FS_Singleton
<1>2. Sum(f, {x}) = Add(f[x], Sum(f, {}))
  BY <1>1, SumFirst
<1>3. Sum(f, {}) = Base
  BY FS_EmptySet, SumStep
<1> QED BY <1>2, <1>3 DEF Monoid

\* The sum over two sets that have no element in common.
LEMMA SumUnion ==
    ASSUME Monoid, NEW f, NEW S, NEW T, IsFiniteSet(S), IsFiniteSet(T), S \cap T = {},
           \A x \in S \cup T : f[x] \in Elements
    PROVE  Sum(f, S \cup T) = Add(Sum(f, S), Sum(f, T))
<1> DEFINE Bad == {U \in SUBSET S : Sum(f, U \cup T) # Add(Sum(f, U), Sum(f, T))}
<1> SUFFICES ASSUME Bad # {} PROVE FALSE
  OBVIOUS
<1>1. PICK U \in Bad : \A V \in Bad : V \subseteq U => V = U
  <2>1. Bad \in SUBSET SUBSET S
    OBVIOUS
  <2> HIDE DEF Bad
  <2> QED BY <2>1, Smallest
<1>2. U \in SUBSET S /\ IsFiniteSet(U) /\ Sum(f, U \cup T) # Add(Sum(f, U), Sum(f, T))
  BY FS_Subset
<1>3. Sum(f, T) \in Elements
  BY SumType
<1>4. U # {}
  <2> SUFFICES ASSUME U = {} PROVE FALSE
    OBVIOUS
  <2>1. U \cup T = T /\ Sum(f, U) = Base
    BY <1>2, SumStep
  <2>2. Add(Base, Sum(f, T)) = Sum(f, T)
    BY <1>3 DEF Monoid
  <2> QED BY <1>2, <2>1, <2>2
<1>5. PICK x \in U : TRUE
  BY <1>4
<1> DEFINE rest == U \ {x}
<1>6. /\ rest \in SUBSET S /\ rest \subseteq U /\ rest # U /\ IsFiniteSet(rest)
      /\ (U \cup T) \ {x} = rest \cup T
  BY <1>2, <1>5, FS_Subset
<1>7. Sum(f, rest \cup T) = Add(Sum(f, rest), Sum(f, T))
  <2> HIDE DEF rest
  <2> QED BY <1>1, <1>6
<1>8. Sum(f, U) = Add(f[x], Sum(f, rest))
  BY <1>2, <1>5, SumFirst
<1>9. Sum(f, U \cup T) = Add(f[x], Sum(f, rest \cup T))
  <2>1. IsFiniteSet(U \cup T) /\ x \in U \cup T /\ \A z \in U \cup T : f[z] \in Elements
    BY <1>2, <1>5, FS_Union
  <2> QED BY <1>6, <2>1, SumFirst
<1>10. f[x] \in Elements /\ Sum(f, rest) \in Elements
  <2>1. \A z \in rest : f[z] \in Elements
    BY <1>2
  <2> QED BY <1>2, <1>5, <1>6, <2>1, SumType
<1>11. Add(Add(f[x], Sum(f, rest)), Sum(f, T)) = Add(f[x], Add(Sum(f, rest), Sum(f, T)))
  BY <1>3, <1>10, Reorder
<1> QED BY <1>2, <1>7, <1>8, <1>9, <1>11

\* A relation that Add keeps is kept by sums.
LEMMA SumRelated ==
    ASSUME NEW R, <<Base, Base>> \in R,
           \A a, b, c, d : <<a, b>> \in R /\ <<c, d>> \in R => <<Add(a, c), Add(b, d)>> \in R,
           NEW f, NEW g, NEW S, IsFiniteSet(S), \A x \in S : <<f[x], g[x]>> \in R
    PROVE  <<Sum(f, S), Sum(g, S)>> \in R
<1> DEFINE Bad == {T \in SUBSET S : <<Sum(f, T), Sum(g, T)>> \notin R}
<1> SUFFICES ASSUME Bad # {} PROVE FALSE
  OBVIOUS
<1>1. PICK T \in Bad : \A U \in Bad : U \subseteq T => U = T
  <2>1. Bad \in SUBSET SUBSET S
    OBVIOUS
  <2> HIDE DEF Bad
  <2> QED BY <2>1, Smallest
<1>2. T \in SUBSET S /\ IsFiniteSet(T) /\ <<Sum(f, T), Sum(g, T)>> \notin R
  BY FS_Subset
<1>3. T # {}
  BY <1>2, SumStep
<1> DEFINE x == Choice(T)
           rest == T \ {x}
<1>4. x \in T /\ Sum(f, T) = Add(f[x], Sum(f, rest)) /\ Sum(g, T) = Add(g[x], Sum(g, rest))
  BY <1>2, <1>3, SumStep
<1>5. <<Sum(f, rest), Sum(g, rest)>> \in R
  <2>1. rest \in SUBSET S /\ rest \subseteq T /\ rest # T
    BY <1>2, <1>4
  <2> HIDE DEF rest
  <2> QED BY <1>1, <2>1
<1> QED BY <1>2, <1>4, <1>5

\* Elements whose value is Base can be left out.
LEMMA SumLeaveOut ==
    ASSUME Monoid, NEW f, NEW S, NEW T, IsFiniteSet(S), T \subseteq S,
           \A x \in T : f[x] \in Elements, \A x \in S \ T : f[x] = Base
    PROVE  Sum(f, S) = Sum(f, T)
<1>1. IsFiniteSet(T) /\ IsFiniteSet(S \ T) /\ T \cup (S \ T) = S /\ T \cap (S \ T) = {}
  BY FS_Subset
<1>2. Sum(f, S \ T) = Base
  <2>1. Base \in {Base} /\ \A a, b \in {Base} : Add(a, b) \in {Base}
    BY DEF Monoid
  <2>2. \A x \in S \ T : f[x] \in {Base}
    OBVIOUS
  <2> QED BY <1>1, <2>1, <2>2, SumIn
<1>3. Sum(f, T) \in Elements
  BY <1>1, SumType
<1>4. Sum(f, S) = Add(Sum(f, T), Sum(f, S \ T))
  <2>1. \A x \in T \cup (S \ T) : f[x] \in Elements
    BY DEF Monoid
  <2> QED BY <1>1, <2>1, SumUnion
<1>5. Add(Sum(f, T), Base) = Sum(f, T)
  BY <1>3 DEF Monoid
<1> QED BY <1>2, <1>4, <1>5

\* The sum over the values of a function that takes none of them twice.
LEMMA SumImage ==
    ASSUME Monoid, NEW f, NEW e, NEW g, NEW S, IsFiniteSet(S),
           \A x, y \in S : e[x] = e[y] => x = y,
           \A x \in S : g[x] = f[e[x]] /\ g[x] \in Elements
    PROVE  Sum(f, {e[x] : x \in S}) = Sum(g, S)
<1> DEFINE Image(T) == {e[x] : x \in T}
           Bad == {T \in SUBSET S : Sum(f, Image(T)) # Sum(g, T)}
<1> SUFFICES ASSUME Bad # {} PROVE FALSE
  OBVIOUS
<1>1. PICK T \in Bad : \A U \in Bad : U \subseteq T => U = T
  <2>1. Bad \in SUBSET SUBSET S
    OBVIOUS
  <2> HIDE DEF Bad
  <2> QED BY <2>1, Smallest
<1>2. T \in SUBSET S /\ IsFiniteSet(T) /\ Sum(f, Image(T)) # Sum(g, T)
  BY FS_Subset
<1>3. T # {}
  <2> SUFFICES ASSUME T = {} PROVE FALSE
    OBVIOUS
  <2>1. Image(T) = {}
    OBVIOUS
  <2>2. IsFiniteSet({})
    BY FS_EmptySet
  <2> HIDE DEF Image
  <2> QED BY <1>2, <2>1, <2>2, SumStep
<1> DEFINE x == Choice(T)
           rest == T \ {x}
<1>4. x \in T /\ Sum(g, T) = Add(g[x], Sum(g, rest))
  BY <1>2, <1>3, SumStep
<1> HIDE DEF x
<1>5. Sum(f, Image(rest)) = Sum(g, rest)
  <2>1. rest \in SUBSET S /\ rest \subseteq T /\ rest # T
    BY <1>2, <1>4
  <2> HIDE DEF rest, Image
  <2>2. rest \notin Bad
    BY <1>1, <2>1
  <2> QED BY <2>1, <2>2
<1>6. e[x] \in Image(T) /\ Image(T) \ {e[x]} = Image(rest) /\ f[e[x]] = g[x]
  BY <1>2, <1>4
<1>7. IsFiniteSet(Image(T))
  <2> DEFINE onT == [y \in T |-> e[y]]
  <2>1. onT \in Surjection(T, Image(T))
    BY DEF Surjection
  <2> HIDE DEF onT, Image
  <2> QED BY <1>2, <2>1, FS_Surjection
<1>8. \A y \in Image(T) : f[y] \in Elements
  BY <1>2
<1> HIDE DEF Image, Bad
<1>9. Sum(f, Image(T)) = Add(f[e[x]], Sum(f, Image(T) \ {e[x]}))
  BY <1>6, <1>7, <1>8, SumFirst
<1> QED BY <1>2, <1>4, <1>5, <1>6, <1>9

\* The sum over a set in parts is the sum of the parts' sums.
LEMMA SumParts ==
    ASSUME Monoid, NEW f, NEW parts, NEW g, NEW P, IsFiniteSet(P),
           \A p \in P : IsFiniteSet(parts[p]) /\ g[p] = Sum(f, parts[p]),
           \A p, q \in P : p # q => parts[p] \cap parts[q] = {},
           \A p \in P : \A x \in parts[p] : f[x] \in Elements
    PROVE  Sum(f, UNION {parts[p] : p \in P}) = Sum(g, P)
<1> DEFINE All(Q) == UNION {parts[p] : p \in Q}
           Bad == {Q \in SUBSET P : ~(IsFiniteSet(All(Q)) /\ Sum(f, All(Q)) = Sum(g, Q))}
<1> SUFFICES ASSUME Bad # {} PROVE FALSE
  <2>1. P \in SUBSET P
    OBVIOUS
  <2> QED BY <2>1
<1>1. PICK Q \in Bad : \A U \in Bad : U \subseteq Q => U = Q
  <2>1. Bad \in SUBSET SUBSET P
    OBVIOUS
  <2> HIDE DEF Bad
  <2> QED BY <2>1, Smallest
<1>2. Q \in SUBSET P /\ IsFiniteSet(Q) /\ ~(IsFiniteSet(All(Q)) /\ Sum(f, All(Q)) = Sum(g, Q))
  BY FS_Subset
<1>3. Q # {}
  <2> SUFFICES ASSUME Q = {} PROVE FALSE
    OBVIOUS
  <2>1. All(Q) = {}
    OBVIOUS
  <2>2. IsFiniteSet({})
    BY FS_EmptySet
  <2> HIDE DEF All
  <2> QED BY <1>2, <2>1, <2>2, SumStep
<1> DEFINE q == Choice(Q)
           rest == Q \ {q}
<1>4. q \in Q /\ Sum(g, Q) = Add(g[q], Sum(g, rest))
  BY <1>2, <1>3, SumStep
<1> HIDE DEF q
<1>5. IsFiniteSet(All(rest)) /\ Sum(f, All(rest)) = Sum(g, rest)
  <2>1. rest \in SUBSET P /\ rest \subseteq Q /\ rest # Q
    BY <1>2, <1>4
  <2> HIDE DEF rest, All
  <2>2. rest \notin Bad
    BY <1>1, <2>1
  <2> QED BY <2>1, <2>2
<1>6. All(Q) = parts[q] \cup All(rest)
  BY <1>4
<1>7. parts[q] \cap All(rest) = {}
  BY <1>2, <1>4
<1>8. \A x \in parts[q] \cup All(rest) : f[x] \in Elements
  BY <1>2, <1>4
<1>9. IsFiniteSet(parts[q]) /\ g[q] = Sum(f, parts[q])
  BY <1>2, <1>4
<1> HIDE DEF All, Bad, rest
<1>10. Sum(f, All(Q)) = Add(Sum(f, parts[q]), Sum(f, All(rest)))
  BY <1>5, <1>6, <1>7, <1>8, <1>9, SumUnion
<1>11. IsFiniteSet(All(Q))
  BY <1>5, <1>6, <1>9, FS_Union
<1> QED BY <1>2, <1>4, <1>5, <1>9, <1>10, <1>11
=============================================================================
