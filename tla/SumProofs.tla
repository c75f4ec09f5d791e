------------------------------ MODULE SumProofs ------------------------------
(* Facts about the sum of a function over a finite set, which is what         *)
(* MapThenSumSet computes: a quota is a sum of requests, and what a user was  *)
(* billed is a sum of bills.  The induction is on the least number for which  *)
(* a claim fails.                                                             *)
EXTENDS Integers, FiniteSetsExt, FiniteSetTheorems, WellFoundedInduction, TLAPS

\* What f adds up to over the members of S.
Total(f, S) == MapThenSumSet(LAMBDA x : f[x], S)

AnyOf(s) == CHOOSE x \in s : TRUE

\* g adds up f over s, given what it adds up to over s without one member.
AddsUp(g, f, s) == g[s] = IF s = {} THEN 0 ELSE f[AnyOf(s)] + g[s \ {AnyOf(s)}]

\* g adds f up over every subset of S.
IsSum(g, f, S) ==
  g = [s \in SUBSET S |-> IF s = {} THEN 0 ELSE f[AnyOf(s)] + g[s \ {AnyOf(s)}]]

IsOn(g, S) == g = [s \in SUBSET S |-> g[s]]

\* A nonempty set of natural numbers has a least member.
LEMMA LeastNumber ==
  ASSUME NEW T \in SUBSET Nat, T # {}
  PROVE  \E x \in T : \A y \in T : x <= y
<1> DEFINE R == {ss \in Nat \X Nat : ss[1] < ss[2]}
<1>1. IsWellFoundedOn(R, Nat)
  BY NatLessThanWellFounded DEF OpToRel
<1>2. PICK x \in T : \A y \in T : ~ (<<y, x>> \in R)
  <2> HIDE DEF R
  <2> QED
    BY <1>1, WFMin
<1>3. \A y \in T : ~(y < x)
  BY <1>2
<1> QED
  BY <1>3

\* If some finite set is in F, then one of least cardinality is.
LEMMA SmallestSet ==
  ASSUME NEW F, NEW S \in F, \A s \in F : IsFiniteSet(s)
  PROVE  \E s \in F : \A t \in F : Cardinality(s) <= Cardinality(t)
<1> DEFINE T == {Cardinality(s) : s \in F}
<1>1. T \in SUBSET Nat /\ T # {}
  BY FS_CardinalityType
<1>2. PICK n \in T : \A m \in T : n <= m
  <2> HIDE DEF T
  <2> QED
    BY <1>1, LeastNumber
<1> QED
  BY <1>2

LEMMA Member ==
  ASSUME NEW s, s # {}
  PROVE  AnyOf(s) \in s
  BY DEF AnyOf

\* There is a function that adds f up over every subset of S.
LEMMA SummationExists ==
  ASSUME NEW S, IsFiniteSet(S), NEW f
  PROVE  \E g : IsSum(g, f, S)
<1> DEFINE Upto(n) == \E g : IsOn(g, S) /\ \A s \in SUBSET S : Cardinality(s) <= n => AddsUp(g, f, s)
           T == {n \in Nat : ~Upto(n)}
<1>1. \A s \in SUBSET S : IsFiniteSet(s) /\ Cardinality(s) \in Nat /\ Cardinality(s) <= Cardinality(S)
  BY FS_Subset, FS_CardinalityType
<1>2. Upto(0)
  <2> DEFINE z == [s \in SUBSET S |-> 0]
  <2>1. \A s \in SUBSET S : Cardinality(s) <= 0 => s = {}
    BY <1>1, FS_EmptySet
  <2>2. IsOn(z, S) /\ \A s \in SUBSET S : Cardinality(s) <= 0 => AddsUp(z, f, s)
    BY <2>1 DEF AddsUp, IsOn
  <2> QED
    BY <2>2
<1>3. ASSUME NEW n \in Nat, Upto(n) PROVE Upto(n + 1)
  <2>1. PICK g : IsOn(g, S) /\ \A s \in SUBSET S : Cardinality(s) <= n => AddsUp(g, f, s)
    BY <1>3
  <2> DEFINE h == [s \in SUBSET S |-> IF s = {} THEN 0 ELSE f[AnyOf(s)] + g[s \ {AnyOf(s)}]]
  <2>2. ASSUME NEW s \in SUBSET S, Cardinality(s) <= n + 1 PROVE AddsUp(h, f, s)
    <3>1. CASE s = {}
      BY <3>1 DEF AddsUp
    <3>2. CASE s # {}
      <4> DEFINE r == s \ {AnyOf(s)}
      <4>1. r \in SUBSET S /\ Cardinality(r) <= n
        BY <1>1, <2>2, <3>2, Member, FS_RemoveElement
      <4>2. h[r] = g[r]
        BY <2>1, <4>1 DEF AddsUp
      <4> QED
        BY <3>2, <4>2 DEF AddsUp
    <3> QED
      BY <3>1, <3>2
  <2>3. IsOn(h, S)
    BY DEF IsOn
  <2> HIDE DEF h
  <2> QED
    BY <2>2, <2>3
<1>4. T = {}
  <2> SUFFICES ASSUME T # {} PROVE FALSE
    OBVIOUS
  <2>1. PICK n \in T : \A m \in T : n <= m
    <3>1. T \in SUBSET Nat
      OBVIOUS
    <3> HIDE DEF T
    <3> QED
      BY <3>1, LeastNumber
  <2> HIDE DEF Upto
  <2>2. n # 0
    BY <1>2
  <2>3. n - 1 \in Nat /\ ~(n <= n - 1)
    BY <2>2
  <2>4. Upto(n - 1)
    BY <2>1, <2>3
  <2>5. Upto(n)
    BY <1>3, <2>3, <2>4
  <2> QED
    BY <2>5
<1>5. PICK g : IsOn(g, S) /\ \A s \in SUBSET S : Cardinality(s) <= Cardinality(S) => AddsUp(g, f, s)
  BY <1>1, <1>4
<1>6. \A s \in SUBSET S : g[s] = IF s = {} THEN 0 ELSE f[AnyOf(s)] + g[s \ {AnyOf(s)}]
  BY <1>1, <1>5 DEF AddsUp
<1>7. IsSum(g, f, S)
  BY <1>5, <1>6 DEF IsOn, IsSum
<1> QED
  BY <1>7

\* The sum is what the function of any set around S says of S.
LEMMA SummationAgrees ==
  ASSUME NEW S, IsFiniteSet(S), NEW f, NEW U, IsFiniteSet(U), S \subseteq U, NEW g, NEW h,
         IsSum(g, f, S),
         IsSum(h, f, U)
  PROVE  g[S] = h[S]
<1> DEFINE F == {s \in SUBSET S : g[s] # h[s]}
<1>1. ASSUME F # {} PROVE FALSE
  <2>1. PICK s \in F : \A t \in F : Cardinality(s) <= Cardinality(t)
    <3>1. \A t \in F : IsFiniteSet(t)
      BY FS_Subset
    <3> HIDE DEF F
    <3> QED
      BY <1>1, <3>1, SmallestSet
  <2>2. s \in SUBSET S /\ s \in SUBSET U /\ g[s] # h[s] /\ IsFiniteSet(s)
    BY <2>1, FS_Subset
  <2>3. s # {}
    BY <2>2 DEF IsSum
  <2> DEFINE r == s \ {AnyOf(s)}
  <2>4. Cardinality(r) = Cardinality(s) - 1 /\ Cardinality(s) \in Nat /\ Cardinality(r) \in Nat
    BY <2>2, <2>3, Member, FS_RemoveElement, FS_CardinalityType
  <2>5. g[r] = h[r]
    <3>1. ~(Cardinality(s) <= Cardinality(r))
      BY <2>4
    <3>2. r \in SUBSET S
      BY <2>2
    <3> HIDE DEF r
    <3> QED
      BY <2>1, <3>1, <3>2
  <2>6. g[s] = f[AnyOf(s)] + g[r] /\ h[s] = f[AnyOf(s)] + h[r]
    BY <2>2, <2>3 DEF IsSum
  <2> QED
    BY <2>2, <2>5, <2>6
<1> QED
  BY <1>1

LEMMA TotalFold ==
  ASSUME NEW S, IsFiniteSet(S), NEW f
  PROVE  \E g : /\ IsSum(g, f, S)
                /\ Total(f, S) = g[S]
<1> DEFINE fold == CHOOSE g : IsSum(g, f, S)
<1>1. IsSum(fold, f, S)
  BY SummationExists
<1>2. Total(f, S) = fold[S]
  BY DEF Total, MapThenSumSet, MapThenFoldSet, AnyOf, IsSum
<1> QED
  BY <1>1, <1>2

LEMMA TotalUnfold ==
  ASSUME NEW S, IsFiniteSet(S), NEW f
  PROVE  Total(f, S) = IF S = {} THEN 0 ELSE f[AnyOf(S)] + Total(f, S \ {AnyOf(S)})
<1>1. PICK g : /\ IsSum(g, f, S)
               /\ Total(f, S) = g[S]
  BY TotalFold
<1>2. CASE S = {}
  BY <1>1, <1>2 DEF IsSum
<1>3. CASE S # {}
  <2> DEFINE R == S \ {AnyOf(S)}
  <2>1. IsFiniteSet(R) /\ R \subseteq S
    BY FS_Subset
  <2> HIDE DEF R
  <2>2. PICK h : /\ IsSum(h, f, R)
                 /\ Total(f, R) = h[R]
    BY <2>1, TotalFold
  <2>3. h[R] = g[R]
    BY <1>1, <2>1, <2>2, SummationAgrees
  <2> USE DEF R
  <2>4. g[S] = f[AnyOf(S)] + g[R]
    BY <1>1, <1>3 DEF IsSum
  <2> QED
    BY <1>1, <1>3, <2>2, <2>3, <2>4
<1> QED
  BY <1>2, <1>3

-----------------------------------------------------------------------------
(* Sums of integers.                                                       *)

LEMMA EmptyTotal == ASSUME NEW f PROVE Total(f, {}) = 0
  BY TotalUnfold, FS_EmptySet

LEMMA TotalIsInt ==
  ASSUME NEW S, IsFiniteSet(S), NEW f, \A x \in S : f[x] \in Int
  PROVE  Total(f, S) \in Int
<1> DEFINE F == {s \in SUBSET S : Total(f, s) \notin Int}
<1>1. ASSUME F # {} PROVE FALSE
  <2>1. PICK s \in F : \A t \in F : Cardinality(s) <= Cardinality(t)
    <3>1. \A t \in F : IsFiniteSet(t)
      BY FS_Subset
    <3> HIDE DEF F
    <3> QED
      BY <1>1, <3>1, SmallestSet
  <2>2. s \in SUBSET S /\ IsFiniteSet(s) /\ Total(f, s) \notin Int
    BY <2>1, FS_Subset
  <2>3. s # {} /\ AnyOf(s) \in s /\ Total(f, s) = f[AnyOf(s)] + Total(f, s \ {AnyOf(s)})
    <3>1. s # {}
      BY <2>2, EmptyTotal
    <3> QED
      BY <2>2, <3>1, TotalUnfold, Member
  <2> DEFINE r == s \ {AnyOf(s)}
  <2>4. Cardinality(r) = Cardinality(s) - 1 /\ Cardinality(s) \in Nat
    BY <2>2, <2>3, FS_RemoveElement, FS_CardinalityType
  <2>5. Total(f, r) \in Int
    <3>1. ~(Cardinality(s) <= Cardinality(r)) /\ r \in SUBSET S
      BY <2>2, <2>4
    <3> QED
      BY <2>1, <3>1
  <2> QED
    BY <2>2, <2>3, <2>5
<1> QED
  BY <1>1

\* Any member may be taken out first.
LEMMA TotalWithout ==
  ASSUME NEW S, IsFiniteSet(S), NEW f, \A y \in S : f[y] \in Int, NEW x \in S
  PROVE  Total(f, S) = f[x] + Total(f, S \ {x})
<1> DEFINE F == {s \in SUBSET S : \E y \in s : Total(f, s) # f[y] + Total(f, s \ {y})}
<1>1. ASSUME F # {} PROVE FALSE
  <2>1. PICK s \in F : \A t \in F : Cardinality(s) <= Cardinality(t)
    <3>1. \A t \in F : IsFiniteSet(t)
      BY FS_Subset
    <3> HIDE DEF F
    <3> QED
      BY <1>1, <3>1, SmallestSet
  <2>2. s \in SUBSET S /\ IsFiniteSet(s)
    BY <2>1, FS_Subset
  <2>3. PICK y \in s : Total(f, s) # f[y] + Total(f, s \ {y})
    BY <2>1
  <2> DEFINE p == AnyOf(s)
             rest == (s \ {y}) \ {p}
  <2>4. s # {} /\ p \in s /\ Total(f, s) = f[p] + Total(f, s \ {p})
    BY <2>2, <2>3, TotalUnfold, Member
  <2>5. p # y
    BY <2>3, <2>4
  <2>6. \A t \in SUBSET s : t # s => \A z \in t : Total(f, t) = f[z] + Total(f, t \ {z})
    <3> SUFFICES ASSUME NEW t \in SUBSET s, t # s PROVE t \notin F
      BY <2>2
    <3>1. ~(Cardinality(s) <= Cardinality(t))
      BY <2>2, FS_Subset, FS_CardinalityType
    <3> QED
      BY <2>1, <3>1
  <2>7. Total(f, s \ {p}) = f[y] + Total(f, rest)
    <3>1. (s \ {p}) \ {y} = rest
      OBVIOUS
    <3> QED
      BY <2>4, <2>5, <2>6, <3>1
  <2>8. Total(f, s \ {y}) = f[p] + Total(f, rest)
    BY <2>4, <2>5, <2>6
  <2>9. Total(f, rest) \in Int /\ f[y] \in Int /\ f[p] \in Int
    <3>1. IsFiniteSet(rest) /\ rest \subseteq S
      BY <2>2, FS_Subset
    <3> QED
      BY <2>2, <2>4, <3>1, TotalIsInt
  <2> QED
    BY <2>3, <2>4, <2>7, <2>8, <2>9
<1> QED
  BY <1>1

LEMMA TotalWith ==
  ASSUME NEW S, IsFiniteSet(S), NEW f, \A y \in S : f[y] \in Int, NEW x, x \notin S, f[x] \in Int
  PROVE  Total(f, S \cup {x}) = Total(f, S) + f[x]
<1> DEFINE U == S \cup {x}
<1>1. IsFiniteSet(U) /\ x \in U /\ (\A y \in U : f[y] \in Int) /\ U \ {x} = S
  BY FS_AddElement
<1> HIDE DEF U
<1>2. Total(f, U) = f[x] + Total(f, S)
  BY <1>1, TotalWithout
<1>3. Total(f, S) \in Int
  BY TotalIsInt
<1>4. Total(f, U) = Total(f, S) + f[x]
  BY <1>2, <1>3
<1> QED
  BY <1>4 DEF U

\* Sums of naturals grow with the set.
LEMMA TotalGrows ==
  ASSUME NEW S, IsFiniteSet(S), NEW f, \A x \in S : f[x] \in Nat, NEW T \in SUBSET S
  PROVE  Total(f, T) <= Total(f, S)
<1> DEFINE F == {s \in SUBSET S : \E t \in SUBSET s : ~(Total(f, t) <= Total(f, s))}
<1>0. \A s \in SUBSET S : IsFiniteSet(s) /\ Total(f, s) \in Int /\ Cardinality(s) \in Nat
  <2> SUFFICES ASSUME NEW s \in SUBSET S
               PROVE  IsFiniteSet(s) /\ Total(f, s) \in Int /\ Cardinality(s) \in Nat
    OBVIOUS
  <2>1. IsFiniteSet(s) /\ \A x \in s : f[x] \in Int
    BY FS_Subset
  <2> QED
    BY <2>1, TotalIsInt, FS_CardinalityType
<1>1. ASSUME F # {} PROVE FALSE
  <2>1. PICK s \in F : \A t \in F : Cardinality(s) <= Cardinality(t)
    <3>1. \A t \in F : IsFiniteSet(t)
      BY <1>0
    <3> HIDE DEF F
    <3> QED
      BY <1>1, <3>1, SmallestSet
  <2>2. PICK t \in SUBSET s : ~(Total(f, t) <= Total(f, s))
    BY <2>1
  <2>3. s \in SUBSET S /\ t \in SUBSET S /\ t # s
    BY <1>0, <2>1, <2>2
  <2>4. PICK x \in s : x \notin t
    BY <2>3
  <2> DEFINE r == s \ {x}
  <2>5. Total(f, s) = f[x] + Total(f, r)
    BY <1>0, <2>3, TotalWithout
  <2>6. Total(f, t) <= Total(f, r)
    <3>1. Cardinality(r) = Cardinality(s) - 1 /\ r \in SUBSET S /\ t \in SUBSET r
      BY <1>0, <2>3, <2>4, FS_RemoveElement
    <3>2. ~(Cardinality(s) <= Cardinality(r))
      BY <1>0, <2>3, <3>1
    <3> QED
      BY <2>1, <3>1, <3>2
  <2>7. f[x] \in Nat /\ Total(f, r) \in Int /\ Total(f, t) \in Int
    BY <1>0, <2>3
  <2> QED
    BY <2>2, <2>5, <2>6, <2>7
<1> QED
  BY <1>1

\* Sums are added by adding the functions.
LEMMA TotalPlus ==
  ASSUME NEW S, IsFiniteSet(S), NEW f, NEW g, NEW h,
         \A x \in S : f[x] \in Int /\ g[x] \in Int /\ h[x] = f[x] + g[x]
  PROVE  Total(h, S) = Total(f, S) + Total(g, S)
<1> DEFINE F == {s \in SUBSET S : Total(h, s) # Total(f, s) + Total(g, s)}
<1>1. ASSUME F # {} PROVE FALSE
  <2>1. PICK s \in F : \A t \in F : Cardinality(s) <= Cardinality(t)
    <3>1. \A t \in F : IsFiniteSet(t)
      BY FS_Subset
    <3> HIDE DEF F
    <3> QED
      BY <1>1, <3>1, SmallestSet
  <2>2. s \in SUBSET S /\ IsFiniteSet(s) /\ Total(h, s) # Total(f, s) + Total(g, s)
    BY <2>1, FS_Subset
  <2>3. PICK x \in s : TRUE
    <3>1. s # {}
      BY <2>2, EmptyTotal
    <3> QED
      BY <3>1
  <2> DEFINE r == s \ {x}
  <2>4. /\ Total(f, s) = f[x] + Total(f, r) /\ Total(g, s) = g[x] + Total(g, r)
        /\ Total(h, s) = h[x] + Total(h, r)
    <3>1. \A y \in s : f[y] \in Int /\ g[y] \in Int /\ h[y] \in Int
      BY <2>2
    <3> QED
      BY <2>2, <3>1, TotalWithout
  <2>5. Total(h, r) = Total(f, r) + Total(g, r)
    <3>1. Cardinality(r) = Cardinality(s) - 1 /\ Cardinality(s) \in Nat /\ r \in SUBSET S
      BY <2>2, FS_RemoveElement, FS_CardinalityType
    <3>2. ~(Cardinality(s) <= Cardinality(r))
      BY <3>1
    <3> QED
      BY <2>1, <3>1, <3>2
  <2>6. Total(f, r) \in Int /\ Total(g, r) \in Int /\ f[x] \in Int /\ g[x] \in Int /\ h[x] = f[x] + g[x]
    <3>1. IsFiniteSet(r) /\ \A y \in r : f[y] \in Int /\ g[y] \in Int
      BY <2>2, FS_RemoveElement
    <3> QED
      BY <2>2, <3>1, TotalIsInt
  <2> QED
    BY <2>2, <2>4, <2>5, <2>6
<1> QED
  BY <1>1

LEMMA TotalOfZeros ==
  ASSUME NEW S, IsFiniteSet(S), NEW f, \A x \in S : f[x] = 0
  PROVE  Total(f, S) = 0
<1>1. Total(f, S) = Total(f, S) + Total(f, S)
  BY TotalPlus
<1>2. Total(f, S) \in Int
  BY TotalIsInt
<1>3. \A n \in Int : n = n + n => n = 0
  OBVIOUS
<1> QED
  BY <1>1, <1>2, <1>3, Zenon

\* Functions that agree on a set have the same sum over it.
LEMMA TotalAgrees ==
  ASSUME NEW S, IsFiniteSet(S), NEW f, NEW g, \A x \in S : f[x] \in Int /\ g[x] = f[x]
  PROVE  Total(g, S) = Total(f, S)
<1> DEFINE z == [x \in S |-> 0]
<1>1. \A x \in S : z[x] \in Int /\ z[x] = 0
  OBVIOUS
<1> HIDE DEF z
<1>2. Total(z, S) = 0
  BY <1>1, TotalOfZeros
<1>3. Total(g, S) = Total(f, S) + Total(z, S)
  BY <1>1, TotalPlus
<1>4. Total(f, S) \in Int
  BY TotalIsInt
<1> QED
  BY <1>2, <1>3, <1>4

\* A sum over two sets without a common member.
LEMMA TotalUnion ==
  ASSUME NEW S, IsFiniteSet(S), NEW T, IsFiniteSet(T), S \cap T = {}, NEW f,
         \A x \in S \cup T : f[x] \in Int
  PROVE  Total(f, S \cup T) = Total(f, S) + Total(f, T)
<1> DEFINE F == {s \in SUBSET T : Total(f, S \cup s) # Total(f, S) + Total(f, s)}
<1>0. \A s \in SUBSET T : IsFiniteSet(s) /\ IsFiniteSet(S \cup s) /\ Total(f, s) \in Int /\ Total(f, S) \in Int
                            /\ Cardinality(s) \in Nat
  <2> SUFFICES ASSUME NEW s \in SUBSET T
               PROVE  IsFiniteSet(s) /\ IsFiniteSet(S \cup s) /\ Total(f, s) \in Int /\ Total(f, S) \in Int
                        /\ Cardinality(s) \in Nat
    OBVIOUS
  <2>1. IsFiniteSet(s) /\ (\A x \in s : f[x] \in Int) /\ \A x \in S : f[x] \in Int
    BY FS_Subset
  <2> QED
    BY <2>1, FS_Union, TotalIsInt, FS_CardinalityType
<1>1. ASSUME F # {} PROVE FALSE
  <2>1. PICK s \in F : \A t \in F : Cardinality(s) <= Cardinality(t)
    <3>1. \A t \in F : IsFiniteSet(t)
      BY <1>0
    <3> HIDE DEF F
    <3> QED
      BY <1>1, <3>1, SmallestSet
  <2>2. s \in SUBSET T /\ Total(f, S \cup s) # Total(f, S) + Total(f, s)
    BY <2>1
  <2>3. PICK x \in s : TRUE
    <3>1. s = {} => S \cup s = S /\ Total(f, s) = 0
      BY EmptyTotal
    <3> QED
      BY <1>0, <2>2, <3>1
  <2> DEFINE r == s \ {x}
  <2>4. Total(f, s) = f[x] + Total(f, r)
    <3>1. \A y \in s : f[y] \in Int
      BY <2>2
    <3> QED
      BY <1>0, <2>2, <3>1, TotalWithout
  <2>5. Total(f, S \cup s) = f[x] + Total(f, S \cup r)
    <3> DEFINE U == S \cup s
    <3>1. x \in U /\ U \ {x} = S \cup r /\ IsFiniteSet(U) /\ \A y \in U : f[y] \in Int
      BY <1>0, <2>2
    <3> HIDE DEF U, r
    <3>2. Total(f, U) = f[x] + Total(f, U \ {x})
      BY <3>1, TotalWithout
    <3> QED
      BY <3>1, <3>2 DEF U
  <2>6. Total(f, S \cup r) = Total(f, S) + Total(f, r)
    <3>1. Cardinality(r) = Cardinality(s) - 1 /\ Cardinality(s) \in Nat /\ r \in SUBSET T
      BY <1>0, <2>2, FS_RemoveElement
    <3>2. ~(Cardinality(s) <= Cardinality(r))
      BY <3>1
    <3> QED
      BY <2>1, <3>1, <3>2
  <2>7. f[x] \in Int /\ Total(f, r) \in Int /\ Total(f, S) \in Int
    BY <1>0, <2>2
  <2> QED
    BY <2>2, <2>4, <2>5, <2>6, <2>7
<1>2. T \notin F
  BY <1>1
<1> QED
  BY <1>2
==============================================================================
