------------------------ MODULE ResearchRetrievalProofs ------------------------
(***************************************************************************)
(* Theorems about SourceSelection and ResearchRetrieval: the selection is  *)
(* as diverse as the candidates allow, a connection is open only to an     *)
(* admitted address, and every URL has one true verdict.                   *)
(***************************************************************************)
EXTENDS ResearchRetrieval, FiniteSetTheorems, SequenceTheorems, WellFoundedInduction, TLAPS

-------------------------------------------------------------------------------
(* Numbers in order. *)

LEMMA LeastNumber ==
  ASSUME NEW T \in SUBSET Nat, T # {}
  PROVE  \E x \in T : \A y \in T : x <= y
<1> DEFINE R == OpToRel(<, Nat)
<1>1. \A x, y \in Nat : <<x, y>> \in R <=> x < y
  BY DEF OpToRel
<1>2. \E x \in T : \A y \in T : ~(<<y, x>> \in R)
  <2>1. IsWellFoundedOn(R, Nat)
    BY NatLessThanWellFounded
  <2> HIDE DEF R
  <2> QED BY <2>1, WFMin
<1>3. PICK x \in T : \A y \in T : ~(<<y, x>> \in R)
  BY <1>2
<1> HIDE DEF R
<1>4. ASSUME NEW y \in T PROVE x <= y
  <2>1. x \in Nat /\ y \in Nat /\ ~(y < x)
    BY <1>1, <1>3
  <2> QED BY <2>1
<1> QED
  BY <1>4

\* The numbers below n, and those up to n, are n.
LEMMA FirstNumbers ==
  ASSUME NEW n \in Nat
  PROVE  /\ IsFiniteSet(0..(n - 1)) /\ Cardinality(0..(n - 1)) = n
         /\ IsFiniteSet(1..n) /\ Cardinality(1..n) = n
<1>1. IsFiniteSet(0..(n - 1)) /\ Cardinality(0..(n - 1)) = n
  BY FS_Interval
<1>2. IsFiniteSet(1..n) /\ Cardinality(1..n) = n
  BY FS_Interval
<1> QED
  BY <1>1, <1>2

LEMMA DifferenceCount ==
  ASSUME NEW S, IsFiniteSet(S), NEW T \in SUBSET S
  PROVE  IsFiniteSet(S \ T) /\ Cardinality(S \ T) = Cardinality(S) - Cardinality(T)
<1>1. S \cap T = T
  OBVIOUS
<1> QED
  BY <1>1, FS_Difference

\* The numbers of I, each at the count of those below it.
LEMMA BelowIsBijection ==
  ASSUME NEW I \in SUBSET Nat, IsFiniteSet(I)
  PROVE  /\ Cardinality(I) \in Nat
         /\ \A i \in I : Below(I, i) \in 0..(Cardinality(I) - 1)
         /\ \A i, j \in I : i < j => Below(I, i) < Below(I, j)
         /\ \A k \in 0..(Cardinality(I) - 1) : \E i \in I : Below(I, i) = k
<1> DEFINE n == Cardinality(I)
           f == [i \in I |-> Below(I, i)]
<1>1. n \in Nat
  BY FS_CardinalityType
<1>2. ASSUME NEW i \in I PROVE Below(I, i) \in 0..(n - 1)
  <2> DEFINE L == {j \in I : j < i}
  <2>1. IsFiniteSet(I \ {i}) /\ Cardinality(I \ {i}) = n - 1
    BY FS_RemoveElement
  <2>2. L \in SUBSET (I \ {i})
    OBVIOUS
  <2>3. IsFiniteSet(L) /\ Cardinality(L) <= n - 1 /\ Cardinality(L) \in Nat
    BY <2>1, <2>2, FS_Subset, FS_CardinalityType
  <2> QED BY <1>1, <2>3 DEF Below
<1>3. ASSUME NEW i \in I, NEW j \in I, i < j PROVE Below(I, i) < Below(I, j)
  <2> DEFINE L == {k \in I : k < i}
             M == {k \in I : k < j}
  <2>1. L \cup {i} \in SUBSET M /\ i \notin L
    <3>1. i \in Nat /\ j \in Nat /\ \A k \in I : k \in Nat
      OBVIOUS
    <3>2. \A k \in L : k < j
      BY <1>3, <3>1
    <3>3. L \subseteq M
      BY <3>2
    <3>4. i \in M
      BY <1>3
    <3>5. i \notin L
      BY <3>1
    <3> QED BY <3>3, <3>4, <3>5
  <2>2. IsFiniteSet(L) /\ IsFiniteSet(M)
    BY FS_Subset
  <2>3. Cardinality(L \cup {i}) = Cardinality(L) + 1
    BY <2>1, <2>2, FS_AddElement
  <2>4. Cardinality(L \cup {i}) <= Cardinality(M)
    BY <2>1, <2>2, FS_Subset
  <2>5. Cardinality(L) \in Nat /\ Cardinality(M) \in Nat
    BY <2>2, FS_CardinalityType
  <2> QED BY <2>3, <2>4, <2>5 DEF Below
<1>4. f \in Injection(I, 0..(n - 1))
  <2>1. \A i, j \in I : f[i] = f[j] => i = j
    BY <1>2, <1>3
  <2>2. f \in [I -> 0..(n - 1)]
    BY <1>2
  <2> QED BY <2>1, <2>2 DEF Injection, IsInjective
<1>5. f \in Surjection(I, 0..(n - 1))
  BY <1>1, <1>4, FirstNumbers, FS_Injection
<1>6. \A k \in 0..(n - 1) : \E i \in I : Below(I, i) = k
  BY <1>5 DEF Surjection
<1> QED
  BY <1>1, <1>2, <1>3, <1>6

\* InOrder lists every number of I once.
LEMMA InOrderLists ==
  ASSUME NEW I \in SUBSET Nat, IsFiniteSet(I)
  PROVE  /\ Cardinality(I) \in Nat
         /\ InOrder(I) \in [1..Cardinality(I) -> I]
         /\ \A i \in I : \E k \in 1..Cardinality(I) : InOrder(I)[k] = i
<1> DEFINE n == Cardinality(I)
<1>1. n \in Nat
  BY BelowIsBijection
<1>2. ASSUME NEW k \in 1..n
      PROVE  InOrder(I)[k] \in I /\ Below(I, InOrder(I)[k]) = k - 1
  <2>1. k - 1 \in 0..(n - 1)
    BY <1>1
  <2>2. \E i \in I : Below(I, i) = k - 1
    BY <2>1, BelowIsBijection
  <2> QED BY <2>2 DEF InOrder
<1>3. ASSUME NEW i \in I PROVE \E k \in 1..n : InOrder(I)[k] = i
  <2>1. Below(I, i) \in 0..(n - 1)
    BY BelowIsBijection
  <2>2. Below(I, i) + 1 \in 1..n /\ (Below(I, i) + 1) - 1 = Below(I, i)
    BY <1>1, <2>1
  <2> DEFINE j == InOrder(I)[Below(I, i) + 1]
  <2>3. j \in I /\ Below(I, j) = Below(I, i)
    BY <1>2, <2>2
  <2>4. \A a, b \in I : a < b => Below(I, a) < Below(I, b)
    BY BelowIsBijection
  <2> HIDE DEF j
  <2>5. j = i
    <3>1. i \in Nat /\ j \in Nat
      BY <2>3
    <3>3. Below(I, i) \in Nat
      BY <2>1
    <3>2. ~(i < j) /\ ~(j < i)
      BY <2>3, <2>4, <3>3
    <3> QED BY <3>1, <3>2
  <2> QED BY <2>2, <2>5 DEF j
<1>4. InOrder(I) \in [1..n -> I]
  BY <1>2 DEF InOrder
<1> QED
  BY <1>1, <1>3, <1>4

\* The first n numbers of I are n of them, or all.
LEMMA LowestCount ==
  ASSUME NEW I \in SUBSET Nat, IsFiniteSet(I), NEW n \in Nat
  PROVE  /\ Lowest(I, n) \in SUBSET I /\ IsFiniteSet(Lowest(I, n))
         /\ Cardinality(Lowest(I, n)) = Least(n, Cardinality(I))
<1> DEFINE m == Least(n, Cardinality(I))
           f == [i \in Lowest(I, n) |-> Below(I, i)]
<1>1. Cardinality(I) \in Nat /\ m \in Nat /\ m <= n /\ m <= Cardinality(I)
      /\ (m = n \/ m = Cardinality(I))
  BY BelowIsBijection DEF Least
<1>2. Lowest(I, n) \in SUBSET I
  BY DEF Lowest
<1>3. IsFiniteSet(Lowest(I, n))
  BY <1>2, FS_Subset
<1>4. \A i \in Lowest(I, n) : Below(I, i) \in 0..(m - 1)
  <2>1. \A i \in I : Below(I, i) \in 0..(Cardinality(I) - 1)
    BY BelowIsBijection
  <2> QED BY <1>1, <2>1 DEF Lowest
<1>5. \A i, j \in Lowest(I, n) : f[i] = f[j] => i = j
  <2>1. \A i, j \in I : i < j => Below(I, i) < Below(I, j)
    BY BelowIsBijection
  <2> TAKE i, j \in Lowest(I, n)
  <2> HAVE f[i] = f[j]
  <2>2. i \in I /\ j \in I /\ i \in Nat /\ j \in Nat
    BY <1>2
  <2>3. Below(I, i) = Below(I, j) /\ Below(I, i) \in Nat
    BY <1>4
  <2>4. ~(i < j) /\ ~(j < i)
    BY <2>1, <2>2, <2>3
  <2> QED BY <2>2, <2>4
<1>6. \A k \in 0..(m - 1) : \E i \in Lowest(I, n) : f[i] = k
  <2> TAKE k \in 0..(m - 1)
  <2>1. k \in 0..(Cardinality(I) - 1) /\ k < n
    BY <1>1
  <2>2. PICK i \in I : Below(I, i) = k
    BY <2>1, BelowIsBijection
  <2> QED BY <2>1, <2>2 DEF Lowest
<1>7. f \in Bijection(Lowest(I, n), 0..(m - 1))
  BY <1>4, <1>5, <1>6 DEF Bijection, Injection, Surjection, IsInjective
<1>8. Cardinality(0..(m - 1)) = Cardinality(Lowest(I, n))
  BY <1>3, <1>7, FS_Bijection DEF ExistsBijection
<1> QED
  BY <1>1, <1>2, <1>3, <1>8, FirstNumbers

\* As many values as places, where no two places have the same value.
LEMMA ImageCount ==
  ASSUME NEW I, IsFiniteSet(I), NEW g, \A i, j \in I : g[i] = g[j] => i = j
  PROVE  IsFiniteSet({g[i] : i \in I}) /\ Cardinality({g[i] : i \in I}) = Cardinality(I)
<1> DEFINE J == {g[i] : i \in I}
           h == [i \in I |-> g[i]]
<1>1. h \in Bijection(I, J)
  BY DEF Bijection, Injection, Surjection, IsInjective
<1>2. ExistsBijection(I, J)
  BY <1>1 DEF ExistsBijection
<1> HIDE DEF J
<1>3. IsFiniteSet(J) /\ Cardinality(J) = Cardinality(I)
  BY <1>2, FS_Bijection
<1> QED
  BY <1>3 DEF J

Values(s, f) == {f[s[i]] : i \in DOMAIN s}
Covers(I, s, f) == \A i \in DOMAIN s : \E j \in I : f[s[j]] = f[s[i]]
Distinct(I, s, f) == \A i, j \in I : f[s[i]] = f[s[j]] => i = j

\* The first places have every value once.
LEMMA FirstsCount ==
  ASSUME NEW n \in Nat, NEW s, DOMAIN s = 1..n, NEW f
  PROVE  /\ Firsts(s, f) \in SUBSET (1..n) /\ IsFiniteSet(Firsts(s, f))
         /\ Distinct(Firsts(s, f), s, f) /\ Covers(Firsts(s, f), s, f)
         /\ IsFiniteSet(Values(s, f)) /\ Cardinality(Firsts(s, f)) = Cardinality(Values(s, f))
<1> DEFINE g == [i \in 1..n |-> f[s[i]]]
<1>1. Firsts(s, f) \in SUBSET (1..n)
  BY DEF Firsts
<1>2. IsFiniteSet(Firsts(s, f))
  BY <1>1, FS_Interval, FS_Subset
<1>3. ASSUME NEW i \in Firsts(s, f), NEW j \in Firsts(s, f), f[s[i]] = f[s[j]] PROVE i = j
  <2>1. i \in 1..n /\ j \in 1..n
    BY <1>1
  <2>2. ~(i < j)
    <3> SUFFICES ASSUME i < j PROVE FALSE
      OBVIOUS
    <3>1. i \in 1..(j - 1)
      BY <2>1
    <3> QED BY <1>3, <3>1 DEF Firsts
  <2>3. ~(j < i)
    <3> SUFFICES ASSUME j < i PROVE FALSE
      OBVIOUS
    <3>1. j \in 1..(i - 1)
      BY <2>1
    <3> QED BY <1>3, <3>1 DEF Firsts
  <2> QED BY <2>1, <2>2, <2>3
<1>4. ASSUME NEW i \in 1..n PROVE \E j \in Firsts(s, f) : f[s[j]] = f[s[i]]
  <2> DEFINE T == {j \in 1..n : f[s[j]] = f[s[i]]}
  <2>1. T \in SUBSET Nat /\ T # {}
    OBVIOUS
  <2>2. PICK j \in T : \A k \in T : j <= k
    BY <2>1, LeastNumber
  <2>3. ASSUME NEW k \in 1..(j - 1) PROVE f[s[k]] # f[s[j]]
    <3>1. j \in 1..n /\ k \in 1..n /\ ~(j <= k)
      BY <2>2
    <3> QED BY <2>2, <3>1
  <2> QED BY <2>2, <2>3 DEF Firsts
<1>5. Distinct(Firsts(s, f), s, f) /\ Covers(Firsts(s, f), s, f)
  BY <1>3, <1>4 DEF Distinct, Covers
<1>6. {g[i] : i \in Firsts(s, f)} = Values(s, f)
  <2>1. Values(s, f) = {f[s[i]] : i \in 1..n}
    BY DEF Values
  <2>2. \A i \in Firsts(s, f) : g[i] \in {f[s[j]] : j \in 1..n}
    BY <1>1
  <2>3. \A i \in 1..n : f[s[i]] \in {g[j] : j \in Firsts(s, f)}
    <3> TAKE i \in 1..n
    <3>1. PICK j \in Firsts(s, f) : f[s[j]] = f[s[i]]
      BY <1>4
    <3>2. g[j] = f[s[i]]
      BY <1>1, <3>1
    <3> QED BY <3>2
  <2> QED BY <2>1, <2>2, <2>3
<1>7. \A i, j \in Firsts(s, f) : g[i] = g[j] => i = j
  BY <1>1, <1>3
<1> HIDE DEF g
<1>8. /\ IsFiniteSet({g[i] : i \in Firsts(s, f)})
      /\ Cardinality({g[i] : i \in Firsts(s, f)}) = Cardinality(Firsts(s, f))
  BY <1>2, <1>7, ImageCount
<1> QED
  BY <1>1, <1>2, <1>5, <1>6, <1>8

At(s, I) == {s[i] : i \in I}

\* Sub takes the elements at the places of I, each once.
LEMMA SubTakes ==
  ASSUME NEW S, NEW s \in Seq(S), NEW I \in SUBSET DOMAIN s
  PROVE  /\ IsFiniteSet(I) /\ Cardinality(I) \in Nat
         /\ Sub(s, I) \in Seq(S) /\ Len(Sub(s, I)) = Cardinality(I)
         /\ ToSet(Sub(s, I)) = At(s, I)
<1>1. DOMAIN s = 1..Len(s) /\ Len(s) \in Nat /\ \A i \in DOMAIN s : s[i] \in S
  OBVIOUS
<1>2. I \in SUBSET Nat /\ IsFiniteSet(I)
  <2>1. IsFiniteSet(DOMAIN s)
    BY <1>1, FS_Interval
  <2> QED BY <1>1, <2>1, FS_Subset
<1> DEFINE n == Cardinality(I)
<1>3. /\ n \in Nat
      /\ InOrder(I) \in [1..n -> I]
      /\ \A i \in I : \E k \in 1..n : InOrder(I)[k] = i
  BY <1>2, InOrderLists
<1> HIDE DEF n
<1>4. Sub(s, I) = [k \in 1..n |-> s[InOrder(I)[k]]]
  BY DEF Sub, n
<1>5. Sub(s, I) \in Seq(S) /\ Len(Sub(s, I)) = n /\ DOMAIN Sub(s, I) = 1..n
  BY <1>1, <1>3, <1>4
<1>6. ToSet(Sub(s, I)) = At(s, I)
  <2>1. ToSet(Sub(s, I)) = {s[InOrder(I)[k]] : k \in 1..n}
    BY <1>4, <1>5 DEF ToSet
  <2>2. {s[InOrder(I)[k]] : k \in 1..n} = {s[i] : i \in I}
    BY <1>3
  <2> QED BY <2>1, <2>2 DEF At
<1> QED
  BY <1>2, <1>3, <1>5, <1>6 DEF n

-------------------------------------------------------------------------------
(* The selection. *)

\* The pages that are left have every key of the candidates once, and its family.
LEMMA UniqueKeeps ==
  ASSUME NEW c \in Seq(Url)
  PROVE  /\ Unique(c) \in Seq(Url) /\ ToSet(Unique(c)) \subseteq ToSet(c)
         /\ Len(Unique(c)) = Cardinality(Keys(c)) /\ Keys(Unique(c)) = Keys(c)
         /\ Families(Unique(c)) = Families(c)
<1> DEFINE F == Firsts(c, KeyOf)
<1>1. Len(c) \in Nat /\ DOMAIN c = 1..Len(c) /\ \A i \in 1..Len(c) : c[i] \in Url
  OBVIOUS
<1>2. /\ F \in SUBSET (1..Len(c))
      /\ \A i \in 1..Len(c) : \E j \in F : KeyOf[c[j]] = KeyOf[c[i]]
      /\ Cardinality(F) = Cardinality(Values(c, KeyOf))
  <2> PICK n \in Nat : n = Len(c)
    BY <1>1
  <2>1. DOMAIN c = 1..n
    BY <1>1
  <2>2. F \in SUBSET (1..n)
    BY <2>1, FirstsCount
  <2>3. Covers(F, c, KeyOf)
    BY <2>1, FirstsCount
  <2>4. \A i \in 1..n : \E j \in F : KeyOf[c[j]] = KeyOf[c[i]]
    BY <2>1, <2>3 DEF Covers
  <2>5. Cardinality(F) = Cardinality(Values(c, KeyOf))
    BY <2>1, FirstsCount
  <2> QED BY <2>2, <2>4, <2>5
<1> HIDE DEF F
<1>3. /\ Unique(c) \in Seq(Url) /\ Len(Unique(c)) = Cardinality(F)
      /\ ToSet(Unique(c)) = {c[i] : i \in F}
  BY <1>1, <1>2, SubTakes DEF Unique, F, At
<1>4. ToSet(c) = {c[i] : i \in 1..Len(c)}
  BY <1>1 DEF ToSet
<1>5. Keys(c) = {KeyOf[c[i]] : i \in 1..Len(c)}
  BY <1>4 DEF Keys
<1>6. Values(c, KeyOf) = Keys(c)
  BY <1>1, <1>5 DEF Values
<1>7. Keys(Unique(c)) = Keys(c)
  <2>1. Keys(Unique(c)) = {KeyOf[c[i]] : i \in F}
    BY <1>3 DEF Keys
  <2>2. \A i \in 1..Len(c) : KeyOf[c[i]] \in {KeyOf[c[j]] : j \in F}
    BY <1>2
  <2>3. \A j \in F : KeyOf[c[j]] \in {KeyOf[c[i]] : i \in 1..Len(c)}
    BY <1>2
  <2> QED BY <1>5, <2>1, <2>2, <2>3
<1>8. Families(Unique(c)) = Families(c)
  <2>1. \A i \in 1..Len(c) : \E j \in F : FamilyOf[c[j]] = FamilyOf[c[i]]
    BY <1>1, <1>2, UrlAssumption
  <2>2. /\ Families(Unique(c)) = {FamilyOf[c[i]] : i \in F}
        /\ Families(c) = {FamilyOf[c[i]] : i \in 1..Len(c)}
    BY <1>3, <1>4 DEF Families
  <2>3. \A i \in 1..Len(c) : FamilyOf[c[i]] \in {FamilyOf[c[j]] : j \in F}
    BY <2>1
  <2>4. \A j \in F : FamilyOf[c[j]] \in {FamilyOf[c[i]] : i \in 1..Len(c)}
    BY <1>2
  <2> QED BY <2>2, <2>3, <2>4
<1> QED
  BY <1>2, <1>3, <1>4, <1>6, <1>7, <1>8

\* No two of the pages that are left have the same key.
LEMMA UniqueIsDistinct ==
  ASSUME NEW u \in Seq(Url), Len(u) = Cardinality(Keys(u))
  PROVE  Distinct(1..Len(u), u, KeyOf)
<1> DEFINE g == [i \in 1..Len(u) |-> KeyOf[u[i]]]
<1>1. Len(u) \in Nat /\ DOMAIN u = 1..Len(u)
  OBVIOUS
<1>2. Keys(u) = {KeyOf[u[i]] : i \in 1..Len(u)}
  BY <1>1 DEF Keys, ToSet
<1>3. g \in Surjection(1..Len(u), Keys(u))
  BY <1>2 DEF Surjection
<1>4. IsFiniteSet(1..Len(u)) /\ Cardinality(1..Len(u)) = Len(u)
  BY <1>1, FS_Interval
<1> HIDE DEF g
<1>5. g \in Injection(1..Len(u), Keys(u))
  BY <1>3, <1>4, FS_SurjSameCardinalityImpliesInj
<1> QED
  BY <1>5 DEF Injection, IsInjective, Distinct, g

\* The places Select takes: the first of each family, then the first of the others.
LEMMA PlacesTaken ==
  ASSUME NEW u \in Seq(Url), NEW limit \in Nat,
         NEW heads, heads = FirstOfFamily(u, limit),
         NEW rest, rest = Lowest(DOMAIN u \ heads, limit - Cardinality(heads))
  PROVE  /\ heads \in SUBSET DOMAIN u /\ rest \in SUBSET DOMAIN u /\ heads \cap rest = {}
         /\ Distinct(heads, u, FamilyOf)
         /\ Cardinality(heads) = Least(limit, Cardinality(Families(u)))
         /\ Cardinality(heads) + Cardinality(rest) = Least(limit, Len(u))
         /\ limit > Cardinality(Families(u)) => Covers(heads, u, FamilyOf)
<1> DEFINE F == Firsts(u, FamilyOf)
<1> PICK n \in Nat : n = Len(u)
  OBVIOUS
<1>1. DOMAIN u = 1..n /\ 1..n \in SUBSET Nat /\ IsFiniteSet(1..n) /\ Cardinality(1..n) = n
  <2>1. IsFiniteSet(1..n) /\ Cardinality(1..n) = n
    BY FirstNumbers
  <2>2. DOMAIN u = 1..n /\ 1..n \in SUBSET Nat
    OBVIOUS
  <2> QED BY <2>1, <2>2
<1>2. /\ F \in SUBSET (1..n) /\ IsFiniteSet(F)
      /\ Distinct(F, u, FamilyOf) /\ Covers(F, u, FamilyOf)
      /\ Cardinality(F) = Cardinality(Values(u, FamilyOf))
  BY <1>1, FirstsCount
<1>3. Values(u, FamilyOf) = Families(u)
  BY <1>1 DEF Values, Families, ToSet
<1>4. Cardinality(F) \in Nat /\ Cardinality(F) <= n
  BY <1>1, <1>2, FS_Subset, FS_CardinalityType
<1>5. heads = Lowest(F, limit)
  BY DEF FirstOfFamily
<1> HIDE DEF F
<1>6. /\ heads \in SUBSET F /\ IsFiniteSet(heads)
      /\ Cardinality(heads) = Least(limit, Cardinality(F))
  BY <1>1, <1>2, <1>5, LowestCount
<1> PICK h \in Nat : h = Cardinality(heads)
  BY <1>6, FS_CardinalityType
<1>7. h <= limit /\ h <= n /\ h = Least(limit, Cardinality(F))
  BY <1>4, <1>6 DEF Least
<1> DEFINE D == 1..n
<1> HIDE DEF D
<1>8. /\ IsFiniteSet(D \ heads) /\ Cardinality(D \ heads) = n - h
      /\ D \ heads \in SUBSET Nat
  <2>1. heads \in SUBSET D /\ D \in SUBSET Nat /\ IsFiniteSet(D) /\ Cardinality(D) = n
    BY <1>1, <1>2, <1>6 DEF D
  <2> QED BY <2>1, DifferenceCount
<1>9. limit - h \in Nat /\ rest = Lowest(D \ heads, limit - h)
  BY <1>1, <1>7 DEF D
<1>10. rest \in SUBSET (D \ heads) /\ Cardinality(rest) = Least(limit - h, n - h)
  BY <1>8, <1>9, LowestCount
<1>11. h + Cardinality(rest) = Least(limit, n)
  BY <1>7, <1>10 DEF Least
<1>12. Distinct(heads, u, FamilyOf)
  BY <1>2, <1>6 DEF Distinct
<1>13. ASSUME limit > Cardinality(Families(u)) PROVE Covers(heads, u, FamilyOf)
  <2>1. Cardinality(heads) = Cardinality(F)
    BY <1>2, <1>3, <1>4, <1>6, <1>13 DEF Least
  <2>2. heads = F
    BY <1>2, <1>6, <2>1, FS_Subset
  <2> QED BY <1>2, <2>2
<1> QED
  BY <1>1, <1>2, <1>3, <1>6, <1>10, <1>11, <1>12, <1>13 DEF D

\* The keys and the families of the pages at places of u.
ValuesAt(u, f, I) == {f[u[i]] : i \in I}
Takes(r, u, I, J) == ToSet(r) = At(u, I) \cup At(u, J)

LEMMA DistinctCount ==
  ASSUME NEW I, IsFiniteSet(I), NEW u, NEW f, Distinct(I, u, f)
  PROVE  Cardinality(ValuesAt(u, f, I)) = Cardinality(I)
<1> DEFINE g == [i \in I |-> f[u[i]]]
<1>1. \A i, j \in I : g[i] = g[j] => i = j
  BY DEF Distinct
<1>2. {g[i] : i \in I} = ValuesAt(u, f, I)
  BY DEF ValuesAt
<1> HIDE DEF g
<1> QED
  BY <1>1, <1>2, ImageCount

LEMMA TakenValues ==
  ASSUME NEW u, NEW r, NEW I, NEW J, Takes(r, u, I, J)
  PROVE  /\ Keys(r) = ValuesAt(u, KeyOf, I \cup J)
         /\ Families(r) = ValuesAt(u, FamilyOf, I \cup J)
<1>1. \A v \in ToSet(r) : \E i \in I \cup J : v = u[i]
  BY DEF Takes, At
<1>2. \A i \in I \cup J : u[i] \in ToSet(r)
  BY DEF Takes, At
<1>3. Keys(r) \subseteq ValuesAt(u, KeyOf, I \cup J)
  BY <1>1 DEF Keys, ValuesAt
<1>4. ValuesAt(u, KeyOf, I \cup J) \subseteq Keys(r)
  BY <1>2 DEF Keys, ValuesAt
<1>5. Families(r) \subseteq ValuesAt(u, FamilyOf, I \cup J)
  BY <1>1 DEF Families, ValuesAt
<1>6. ValuesAt(u, FamilyOf, I \cup J) \subseteq Families(r)
  BY <1>2 DEF Families, ValuesAt
<1> QED
  BY <1>3, <1>4, <1>5, <1>6

LEMMA ConcatTakes ==
  ASSUME NEW S, NEW a \in Seq(S), NEW b \in Seq(S)
  PROVE  /\ a \o b \in Seq(S) /\ Len(a \o b) = Len(a) + Len(b)
         /\ ToSet(a \o b) = ToSet(a) \cup ToSet(b)
<1>1. a \o b \in Seq(S) /\ Len(a \o b) = Len(a) + Len(b)
  OBVIOUS
<1>2. \A i \in DOMAIN a : i \in DOMAIN (a \o b) /\ (a \o b)[i] = a[i]
  OBVIOUS
<1>3. \A i \in DOMAIN b : Len(a) + i \in DOMAIN (a \o b) /\ (a \o b)[Len(a) + i] = b[i]
  OBVIOUS
<1>4. ASSUME NEW i \in DOMAIN (a \o b) PROVE (a \o b)[i] \in ToSet(a) \cup ToSet(b)
  <2>1. CASE i <= Len(a)
    <3>1. i \in DOMAIN a /\ (a \o b)[i] = a[i]
      BY <2>1
    <3> QED BY <3>1 DEF ToSet
  <2>2. CASE ~(i <= Len(a))
    <3>1. i - Len(a) \in DOMAIN b /\ (a \o b)[i] = b[i - Len(a)]
      BY <2>2
    <3> QED BY <3>1 DEF ToSet
  <2> QED BY <2>1, <2>2
<1>5. ToSet(a) \cup ToSet(b) \subseteq ToSet(a \o b)
  BY <1>2, <1>3 DEF ToSet
<1>6. ToSet(a \o b) \subseteq ToSet(a) \cup ToSet(b)
  BY <1>4 DEF ToSet
<1> QED
  BY <1>1, <1>5, <1>6

\* What the policy promises of the selection r from the candidates c.
Diverse(r, c, limit) ==
  /\ r \in Seq(Url) /\ ToSet(r) \subseteq ToSet(c)
  /\ Len(r) = Least(limit, Cardinality(Keys(c)))
  /\ Cardinality(Keys(r)) = Len(r)
  /\ Cardinality(Families(r)) = Least(limit, Cardinality(Families(c)))

\* For every list of candidates and every limit, the selection keeps the
\* promise: no page twice, as many URLs and as many families as can be
\* (select_source_diverse_candidates of research_source_quality.py).
THEOREM SelectIsDiverse ==
  ASSUME NEW c \in Seq(Url), NEW limit \in Nat
  PROVE  Diverse(Select(c, limit), c, limit)
<1>a. PICK r : r = Select(c, limit)
  OBVIOUS
<1>b. PICK u : u = Unique(c)
  OBVIOUS
<1>1. /\ u \in Seq(Url) /\ ToSet(u) \subseteq ToSet(c)
      /\ Len(u) = Cardinality(Keys(c)) /\ Keys(u) = Keys(c) /\ Families(u) = Families(c)
  BY <1>b, UniqueKeeps
<1>c. PICK heads : heads = FirstOfFamily(u, limit)
  OBVIOUS
<1>d. PICK rest : rest = Lowest(DOMAIN u \ heads, limit - Cardinality(heads))
  OBVIOUS
<1> DEFINE nf == Cardinality(Families(u))
<1>2. heads \in SUBSET DOMAIN u /\ rest \in SUBSET DOMAIN u /\ heads \cap rest = {}
  BY <1>1, <1>c, <1>d, PlacesTaken
<1>3. /\ Distinct(heads, u, FamilyOf) /\ Cardinality(heads) = Least(limit, nf)
      /\ limit > nf => Covers(heads, u, FamilyOf)
  BY <1>1, <1>c, <1>d, PlacesTaken
<1>4. Cardinality(heads) + Cardinality(rest) = Least(limit, Len(u))
  BY <1>1, <1>c, <1>d, PlacesTaken
<1> HIDE DEF nf
<1>5. /\ IsFiniteSet(heads) /\ Cardinality(heads) \in Nat
      /\ Sub(u, heads) \in Seq(Url) /\ Len(Sub(u, heads)) = Cardinality(heads)
      /\ ToSet(Sub(u, heads)) = At(u, heads)
  BY <1>1, <1>2, SubTakes
<1>6. /\ IsFiniteSet(rest) /\ Cardinality(rest) \in Nat
      /\ Sub(u, rest) \in Seq(Url) /\ Len(Sub(u, rest)) = Cardinality(rest)
      /\ ToSet(Sub(u, rest)) = At(u, rest)
  BY <1>1, <1>2, SubTakes
<1>7. /\ r \in Seq(Url) /\ Len(r) = Cardinality(heads) + Cardinality(rest)
      /\ ToSet(r) = At(u, heads) \cup At(u, rest)
  <2>a. PICK a, b : a = Sub(u, heads) /\ b = Sub(u, rest)
    OBVIOUS
  <2>1. r = a \o b
    BY <1>a, <1>b, <1>c, <1>d, <2>a DEF Select
  <2>2. a \in Seq(Url) /\ b \in Seq(Url)
    BY <1>5, <1>6, <2>a
  <2>3. /\ a \o b \in Seq(Url) /\ Len(a \o b) = Len(a) + Len(b)
        /\ ToSet(a \o b) = ToSet(a) \cup ToSet(b)
    BY <2>2, ConcatTakes
  <2> QED BY <1>5, <1>6, <2>a, <2>1, <2>3
<1>8. ToSet(r) \subseteq ToSet(c)
  <2>1. \A i \in heads \cup rest : u[i] \in ToSet(u)
    BY <1>2 DEF ToSet
  <2> QED BY <1>1, <1>7, <2>1 DEF At
<1>9. IsFiniteSet(heads \cup rest) /\ Cardinality(heads \cup rest) = Len(r)
  <2>1. /\ IsFiniteSet(heads \cup rest)
        /\ Cardinality(heads \cup rest)
             = Cardinality(heads) + Cardinality(rest) - Cardinality(heads \cap rest)
    BY <1>5, <1>6, FS_Union
  <2>2. Cardinality(heads \cap rest) = 0
    BY <1>2, FS_EmptySet
  <2> QED BY <1>5, <1>6, <1>7, <2>1, <2>2
<1>10. /\ Keys(r) = ValuesAt(u, KeyOf, heads \cup rest)
       /\ Families(r) = ValuesAt(u, FamilyOf, heads \cup rest)
  <2>1. Takes(r, u, heads, rest)
    BY <1>7 DEF Takes
  <2> QED BY <2>1, TakenValues
<1>11. Cardinality(Keys(r)) = Len(r)
  <2>1. Distinct(1..Len(u), u, KeyOf)
    BY <1>1, UniqueIsDistinct
  <2>2. DOMAIN u = 1..Len(u)
    BY <1>1
  <2>3. Distinct(heads \cup rest, u, KeyOf)
    <3>1. heads \cup rest \subseteq 1..Len(u)
      BY <1>2, <2>2
    <3> QED BY <2>1, <3>1 DEF Distinct
  <2> QED BY <1>9, <1>10, <2>3, DistinctCount
<1>12. Cardinality(Families(r)) = Least(limit, nf)
  <2>1. Cardinality(ValuesAt(u, FamilyOf, heads)) = Least(limit, nf)
    BY <1>3, <1>5, DistinctCount
  <2>2. CASE limit > nf
    <3>1. \A i \in DOMAIN u : \E j \in heads : FamilyOf[u[j]] = FamilyOf[u[i]]
      BY <1>3, <2>2 DEF Covers
    <3>2. \A i \in heads \cup rest : FamilyOf[u[i]] \in ValuesAt(u, FamilyOf, heads)
      BY <1>2, <3>1 DEF ValuesAt
    <3>3. ValuesAt(u, FamilyOf, heads \cup rest) = ValuesAt(u, FamilyOf, heads)
      <4>1. ValuesAt(u, FamilyOf, heads \cup rest) \subseteq ValuesAt(u, FamilyOf, heads)
        <5> SUFFICES ASSUME NEW v \in ValuesAt(u, FamilyOf, heads \cup rest)
                     PROVE  v \in ValuesAt(u, FamilyOf, heads)
          OBVIOUS
        <5>1. PICK i \in heads \cup rest : v = FamilyOf[u[i]]
          BY DEF ValuesAt
        <5> QED BY <3>2, <5>1
      <4>2. ValuesAt(u, FamilyOf, heads) \subseteq ValuesAt(u, FamilyOf, heads \cup rest)
        BY DEF ValuesAt
      <4> QED BY <4>1, <4>2
    <3> QED BY <1>10, <2>1, <3>3
  <2>3. CASE ~(limit > nf)
    <3>1. nf \in Nat
      <4>1. DOMAIN u = 1..Len(u) /\ Len(u) \in Nat
        BY <1>1
      <4>2. IsFiniteSet(Values(u, FamilyOf))
        BY <4>1, FirstsCount
      <4>3. Values(u, FamilyOf) = Families(u)
        BY DEF Values, Families, ToSet
      <4> QED BY <4>2, <4>3, FS_CardinalityType DEF nf
    <3>2. Cardinality(heads) = limit
      BY <1>3, <2>3, <3>1 DEF Least
    <3>3. Cardinality(rest) = 0
      BY <1>1, <1>4, <1>6, <3>2 DEF Least
    <3>4. heads \cup rest = heads
      BY <1>6, <3>3, FS_EmptySet
    <3> QED BY <1>10, <2>1, <3>4
  <2> QED BY <2>2, <2>3
<1> QED
  BY <1>1, <1>4, <1>7, <1>8, <1>11, <1>12, <1>a DEF nf, Diverse

-------------------------------------------------------------------------------
(* The inductive invariant. *)

Work == {"preflight", "dns", "connect", "read", "body"}
Jobs == [at : Work \cup {"idle", "store", "record", "return"}, url : Url \cup {Nothing},
         hops : Seq(Hops), lookup : Lookups \cup {NoLookup}, left : Seq(Address),
         contact : [url : Url, address : Address] \cup {Nothing},
         body : 0..MaxBody, retries : 0..MaxRetries, verdict : Verdicts \cup {Nothing}]
Results == [evidence : Nat, outcome : Outcomes]

\* The selection is Select's answer for the candidates that the preflight admits.
SelectionFits ==
  /\ found \in Seq(Url) /\ ToSet(found) \cap Blocked = {}
  /\ Diverse(selected, found, MaxUrls)

\* Each step of a retrieval relies on what the steps before it have established.
ContactFits(j) ==
  /\ j.at \in {"dns", "connect", "read", "body"} => j.url \notin Blocked
  /\ j.at \in {"connect", "read", "body"} =>
       /\ j.lookup.url = j.url /\ j.lookup.addresses \subseteq Public
       /\ j.left \in Seq(j.lookup.addresses) /\ j.left # <<>>
  /\ j.at \in {"read", "body"} =>
       j.contact.url = j.url /\ j.contact.address \in j.lookup.addresses

\* The hops so far lead from the URL asked for to the URL at work.
Leads(j, asked) ==
  LET n == Len(j.hops)
  IN /\ j.url \in Url /\ n <= MaxRedirects
     /\ n = 0 => j.url = asked
     /\ n > 0 => j.hops[1].url = asked /\ j.hops[n].next = j.url
     /\ \A k \in 1..(n - 1) : j.hops[k].next = j.hops[k + 1].url

IsTrue(v, s) == v.outcome = "succeeded" => Chained(v) /\ <<v.final, v.text>> \in s

VerdictFits(v, asked, s) == v \in Verdicts /\ v.asked = asked /\ IsTrue(v, s)

JobFits == job \in Jobs /\ ContactFits(job)

RequestFits ==
  /\ phase \in {"search", "retrieve"} \cup Ended /\ query \in 1..3 /\ wanted \in BOOLEAN
  /\ sent \subseteq Url \X Text

\* A retrieval is on its way, or has its verdict.
WorkFits(j, asked, s) ==
  /\ j.at # "idle"
  /\ j.at \in Work => Leads(j, asked)
  /\ j.at \notin Work => VerdictFits(j.verdict, asked, s)

\* One record for each URL that is through, in the order of the selection.
RecordsFit ==
  /\ evidence \in Seq(Verdicts) /\ events \in Seq(Events) /\ results \in Seq(Results)
  /\ Len(evidence) - Len(events) \in {0, 1} /\ Len(evidence) <= Len(selected)
  /\ Len(results) <= Len(events)
  /\ \A i \in DOMAIN evidence : evidence[i].asked = selected[i] /\ IsTrue(evidence[i], sent)
  /\ \A i \in DOMAIN evidence : evidence[i].outcome = "cancelled" => i = Len(evidence)
  /\ \A i \in DOMAIN events :
       events[i].evidence = i /\ events[i].outcome = evidence[i].outcome
  /\ \A i \in DOMAIN results :
       /\ results[i].evidence = i /\ results[i].outcome = evidence[i].outcome
       /\ results[i].outcome # "cancelled"

\* How far the records of the URL at work have got.
ProgressFits ==
  /\ phase = "search" => evidence = <<>> /\ events = <<>> /\ results = <<>> /\ job = NoJob
  /\ phase = "retrieve" =>
       /\ Len(results) < Len(selected)
       /\ WorkFits(job, Asked, sent)
       /\ Len(events) = Len(results) + (IF job.at = "return" THEN 1 ELSE 0)
       /\ Len(evidence) = Len(results) + (IF job.at \in {"record", "return"} THEN 1 ELSE 0)
       /\ job.at \in {"record", "return"} => evidence[Len(evidence)] = job.verdict

\* What a request that has ended leaves behind.
EndFits ==
  /\ phase \in {"done", "no-source"} =>
       /\ Len(events) = Len(selected) /\ Len(results) = Len(selected)
       /\ phase = "done" <=> AnySuccess(results)
  /\ phase = "cancelled" /\ evidence # <<>> =>
       /\ evidence[Len(evidence)].outcome = "cancelled"
       /\ Len(events) = Len(evidence)

ResearchInv ==
  SelectionFits /\ JobFits /\ RequestFits /\ RecordsFit /\ ProgressFits /\ EndFits

-------------------------------------------------------------------------------
(* The steps of a retrieval. *)

\* A retrieval that begins relies on nothing but its URL.
LEMMA BeginFits ==
  ASSUME NEW url \in Url, NEW n \in 0..MaxRetries
  PROVE  /\ Begin(url, n) \in Jobs /\ Begin(url, n).at = "preflight"
         /\ ContactFits(Begin(url, n)) /\ Leads(Begin(url, n), url)
<1>1. /\ Begin(url, n).at = "preflight" /\ Begin(url, n).hops = <<>>
      /\ Begin(url, n).url = url
  BY DEF Begin
<1>2. Begin(url, n) \in Jobs
  BY RetrievalAssumption DEF Begin, Jobs, Work, NoLookup
<1>3. ContactFits(Begin(url, n))
  BY <1>1 DEF ContactFits
<1>4. Leads(Begin(url, n), url)
  BY <1>1, RetrievalAssumption DEF Leads
<1> QED
  BY <1>1, <1>2, <1>3, <1>4

LEMMA NoJobFits == NoJob \in Jobs /\ NoJob.at = "idle" /\ ContactFits(NoJob)
<1>1. NoJob.at = "idle"
  BY DEF NoJob, Begin
<1>2. NoJob \in Jobs
  <2> DEFINE b == Begin(Nothing, 0)
  <2>1. b \in Jobs
    BY RetrievalAssumption DEF Begin, Jobs, Work, NoLookup
  <2>2. NoJob = [b EXCEPT !.at = "idle"]
    BY DEF NoJob
  <2> HIDE DEF b
  <2> QED BY <2>1, <2>2 DEF Jobs
<1> QED
  BY <1>1, <1>2 DEF ContactFits

\* h has one more hop than j, from the URL at work.
Extends(h, j, next) == h = Append(j.hops, [url |-> j.url, next |-> next])

Leading(h, j, asked, next) ==
  /\ h \in Seq(Hops) /\ Len(h) = Len(j.hops) + 1
  /\ h[1].url = asked /\ h[Len(h)].url = j.url /\ h[Len(h)].next = next
  /\ \A k \in 1..(Len(h) - 1) : h[k].next = h[k + 1].url

\* One more hop keeps the chain from the URL asked for.
LEMMA HopLeads ==
  ASSUME NEW j \in Jobs, NEW asked \in Url, Leads(j, asked),
         NEW next \in Url \cup {Nothing}, NEW h, Extends(h, j, next)
  PROVE  Leading(h, j, asked, next)
<1> DEFINE n == Len(j.hops)
           last == [url |-> j.url, next |-> next]
<1>1. j.hops \in Seq(Hops) /\ n \in Nat /\ j.url \in Url
  BY DEF Jobs, Leads
<1>2. last \in Hops /\ last.url = j.url /\ last.next = next
  BY <1>1 DEF Hops
<1> HIDE DEF last
<1>3. /\ h \in Seq(Hops) /\ Len(h) = n + 1 /\ h[n + 1] = last
      /\ \A k \in 1..n : h[k] = j.hops[k]
  BY <1>1, <1>2 DEF last, Extends
<1>4. h[1].url = asked
  <2>1. CASE n = 0
    BY <1>2, <1>3, <2>1 DEF Leads
  <2>2. CASE n > 0
    BY <1>1, <1>3, <2>2 DEF Leads
  <2> QED BY <1>1, <2>1, <2>2
<1>5. ASSUME NEW k \in 1..n PROVE h[k].next = h[k + 1].url
  <2>1. CASE k = n
    BY <1>1, <1>2, <1>3, <2>1 DEF Leads
  <2>2. CASE k < n
    <3>1. k \in 1..(n - 1) /\ k + 1 \in 1..n
      BY <1>1, <2>2
    <3> QED BY <1>3, <3>1 DEF Leads
  <2> QED BY <1>1, <2>1, <2>2
<1> HIDE DEF n
<1>6. h[Len(h)].url = j.url /\ h[Len(h)].next = next
  BY <1>2, <1>3
<1>7. Len(h) - 1 = n
  BY <1>1, <1>3
<1>8. \A k \in 1..(Len(h) - 1) : h[k].next = h[k + 1].url
  BY <1>5, <1>7
<1>9. h \in Seq(Hops) /\ Len(h) = Len(j.hops) + 1
  BY <1>3 DEF n
<1> QED
  BY <1>4, <1>6, <1>8, <1>9, Zenon DEF Leading

\* The URL at work is one of the selection.
LEMMA AskedIsSelected ==
  ASSUME ResearchInv, phase = "retrieve"
  PROVE  /\ Len(results) \in Nat /\ Len(results) < Len(selected) /\ selected \in Seq(Url)
         /\ Asked \in Url
<1>1. results \in Seq(Results) /\ Len(results) < Len(selected) /\ selected \in Seq(Url)
  BY DEF ResearchInv, RecordsFit, ProgressFits, SelectionFits, Diverse
<1> QED
  BY <1>1 DEF Asked

\* A step of the retrieval: it stays on its way or gets its verdict.
Moves ==
  /\ job' \in Jobs /\ ContactFits(job') /\ job'.at \in Work \cup {"store"}
  /\ WorkFits(job', Asked, sent')

AtWork == phase = "retrieve" /\ job.at \in Work

LEMMA VerdictMoves ==
  ASSUME ResearchInv, AtWork, NEW v, VerdictFits(v, Asked, sent'),
         job' = [job EXCEPT !.at = "store", !.verdict = v]
  PROVE  Moves
<1>1. job \in Jobs /\ v \in Verdicts
  BY DEF ResearchInv, JobFits, VerdictFits
<1>2. job' \in Jobs /\ job'.at = "store" /\ job'.verdict = v
  BY <1>1 DEF Jobs
<1>3. ContactFits(job')
  BY <1>2 DEF ContactFits
<1>4. WorkFits(job', Asked, sent')
  BY <1>2 DEF WorkFits, Work
<1> QED
  BY <1>2, <1>3, <1>4 DEF Moves

LEMMA VerdictIsTyped ==
  ASSUME ResearchInv, phase = "retrieve", NEW o \in {"failed", "cancelled"}, NEW stage \in Stages
  PROVE  VerdictFits(Verdict(o, stage), Asked, sent')
<1>1. Asked \in Url
  BY AskedIsSelected
<1>2. Verdict(o, stage) \in Verdicts
  BY <1>1 DEF Verdict, Verdicts, Outcomes
<1>3. Verdict(o, stage).asked = Asked /\ Verdict(o, stage).outcome # "succeeded"
  BY DEF Verdict
<1> QED
  BY <1>2, <1>3 DEF VerdictFits, IsTrue

LEMMA FailsMoves ==
  ASSUME ResearchInv, AtWork, NEW stage \in Stages, NEW transient, Fails(stage, transient)
  PROVE  Moves
<1>1. CASE Repeats(transient)
  <2> DEFINE n == Least(job.retries + 1, MaxRetries)
  <2>1. n \in 0..MaxRetries
    BY RetrievalAssumption DEF ResearchInv, JobFits, Jobs, Least
  <2>2. job' = Begin(Asked, n)
    BY <1>1 DEF Fails
  <2>3. Asked \in Url
    BY AskedIsSelected DEF AtWork
  <2> HIDE DEF n
  <2>4. /\ job' \in Jobs /\ job'.at = "preflight"
        /\ ContactFits(job') /\ Leads(job', Asked)
    BY <2>1, <2>2, <2>3, BeginFits
  <2> QED BY <2>4 DEF Moves, WorkFits, Work
<1>2. CASE ~Repeats(transient)
  <2>1. job' = [job EXCEPT !.at = "store", !.verdict = Verdict("failed", stage)]
    BY <1>2 DEF Fails
  <2>2. VerdictFits(Verdict("failed", stage), Asked, sent')
    BY VerdictIsTyped DEF AtWork
  <2> QED BY <2>1, <2>2, VerdictMoves
<1> QED
  BY <1>1, <1>2

LEMMA CancelsMoves ==
  ASSUME ResearchInv, AtWork, Cancels
  PROVE  Moves
<1>1. VerdictFits(Verdict("cancelled", "cancelled"), Asked, sent')
  BY VerdictIsTyped DEF AtWork, Stages
<1> QED
  BY <1>1, VerdictMoves DEF Cancels

\* A step that only goes on with the same URL and the same hops.
LEMMA OnwardMoves ==
  ASSUME ResearchInv, AtWork, job' \in Jobs, ContactFits(job'), job'.at \in Work,
         job'.url = job.url, job'.hops = job.hops
  PROVE  Moves
<1>1. Leads(job, Asked)
  BY DEF ResearchInv, ProgressFits, WorkFits, AtWork
<1>2. Leads(job', Asked)
  BY <1>1 DEF Leads
<1>3. WorkFits(job', Asked, sent')
  BY <1>2 DEF WorkFits, Work
<1> QED
  BY <1>3 DEF Moves

\* The invariant survives what moves the retrieval only.
LEMMA MovesKeepInv ==
  ASSUME ResearchInv, AtWork, Moves, sent \subseteq sent', sent' \subseteq Url \X Text,
         UNCHANGED <<phase, search, wanted, stores, results>>
  PROVE  ResearchInv'
<1>1. /\ phase' = phase /\ query' = query /\ found' = found /\ selected' = selected
      /\ wanted' = wanted /\ evidence' = evidence /\ events' = events /\ results' = results
  BY DEF search, stores
<1>2. SelectionFits'
  BY <1>1 DEF ResearchInv, SelectionFits
<1>3. JobFits'
  BY DEF Moves, JobFits
<1>4. RequestFits'
  BY <1>1 DEF ResearchInv, RequestFits
<1>5. RecordsFit'
  <2>1. \A i \in DOMAIN evidence : IsTrue(evidence[i], sent')
    BY DEF ResearchInv, RecordsFit, IsTrue
  <2> QED BY <1>1, <2>1 DEF ResearchInv, RecordsFit
<1>6. ProgressFits'
  <2>1. Asked' = Asked
    BY <1>1 DEF Asked
  <2>2. job.at \notin {"record", "return"} /\ job'.at \notin {"record", "return"}
    BY DEF AtWork, Moves, Work
  <2>3. phase' # "search"
    BY <1>1 DEF AtWork
  <2>4. WorkFits(job', Asked', sent')
    BY <2>1 DEF Moves
  <2> QED BY <1>1, <2>2, <2>3, <2>4 DEF ResearchInv, ProgressFits, AtWork
<1>7. EndFits'
  BY <1>1 DEF EndFits, AtWork
<1> QED
  BY <1>2, <1>3, <1>4, <1>5, <1>6, <1>7 DEF ResearchInv

\* Every step of a retrieval moves it, whatever the network answers.
LEMMA PreflightMoves == ASSUME ResearchInv, Preflight PROVE Moves
<1>1. AtWork /\ job \in Jobs
  BY DEF Preflight, Working, AtWork, Work, ResearchInv, JobFits
<1>2. CASE wanted
  BY <1>1, <1>2, CancelsMoves DEF Preflight, OrCancelled
<1>3. CASE ~wanted /\ Refused(job.url)
  BY <1>1, <1>3, FailsMoves DEF Preflight, OrCancelled, Stages
<1>4. CASE ~wanted /\ ~Refused(job.url)
  <2>1. job' = [job EXCEPT !.at = "dns"]
    BY <1>4 DEF Preflight, OrCancelled
  <2>2. /\ job' \in Jobs /\ job'.at = "dns"
        /\ job'.url = job.url /\ job'.hops = job.hops
    BY <1>1, <2>1 DEF Jobs, Work
  <2>3. ContactFits(job')
    BY <1>4, <2>2 DEF ContactFits, Refused
  <2> QED BY <1>1, <2>2, <2>3, OnwardMoves DEF Work
<1> QED
  BY <1>2, <1>3, <1>4

\* A function on 1..n is a sequence, and empty only when n is 0.
LEMMA ListIsSequence ==
  ASSUME NEW S, NEW n \in Nat \ {0}, NEW l \in [1..n -> S]
  PROVE  l \in Seq(S) /\ l # <<>>
<1>1. l \in Seq(S)
  OBVIOUS
<1>2. 1 \in DOMAIN l
  OBVIOUS
<1>3. l # <<>>
  <2> SUFFICES ASSUME l = <<>> PROVE FALSE
    OBVIOUS
  <2>1. DOMAIN l = DOMAIN << >>
    OBVIOUS
  <2> QED BY <1>2, <2>1
<1> QED
  BY <1>1, <1>3

LEMMA TailIsSequence ==
  ASSUME NEW S, NEW s \in Seq(S), Len(s) > 1
  PROVE  Tail(s) \in Seq(S) /\ Tail(s) # <<>>
<1>1. s # <<>>
  OBVIOUS
<1>2. Tail(s) \in Seq(S) /\ Len(Tail(s)) = Len(s) - 1
  BY <1>1, HeadTailProperties
<1>3. PICK t \in Seq(S) : t = Tail(s)
  BY <1>2
<1>4. Len(s) \in Nat /\ Len(t) = Len(s) - 1
  BY <1>2, <1>3
<1>5. t # <<>>
  BY <1>4
<1> QED
  BY <1>3, <1>5

LEMMA ResolveMoves ==
  ASSUME ResearchInv, NEW addresses \in Answers, Resolve(addresses)
  PROVE  Moves
<1>1. AtWork /\ job \in Jobs /\ job.at = "dns" /\ job.url \notin Blocked
  BY DEF Resolve, Working, AtWork, Work, ResearchInv, JobFits, ContactFits
<1>2. CASE wanted
  BY <1>1, <1>2, CancelsMoves DEF Resolve, OrCancelled
<1>3. CASE ~wanted /\ ~Admitted(addresses)
  BY <1>1, <1>3, FailsMoves DEF Resolve, OrCancelled, Stages
<1>4. CASE ~wanted /\ Admitted(addresses)
  <2>1. job' = [job EXCEPT !.at = "connect", !.left = InOrder(addresses),
                           !.lookup = [url |-> job.url, addresses |-> addresses]]
    BY <1>4 DEF Resolve, OrCancelled
  <2>2. addresses \in SUBSET Nat /\ IsFiniteSet(addresses) /\ addresses \subseteq Address
        /\ addresses # {}
    BY RetrievalAssumption, FS_Subset DEF Answers
  <2> DEFINE n == Cardinality(addresses)
             l == InOrder(addresses)
  <2>3. n \in Nat /\ l \in [1..n -> addresses]
        /\ \A i \in addresses : \E k \in 1..n : l[k] = i
    BY <2>2, InOrderLists
  <2> HIDE DEF n, l
  <2>4. n \in Nat \ {0}
    <3>1. PICK i \in addresses : TRUE
      BY <2>2
    <3>2. PICK k \in 1..n : l[k] = i
      BY <2>3
    <3> QED BY <2>3, <3>2
  <2>5. l \in Seq(addresses) /\ l # <<>>
    BY <2>3, <2>4, ListIsSequence
  <2>6. l \in [1..n -> Address]
    BY <2>2, <2>3
  <2>7. l \in Seq(Address)
    BY <2>4, <2>6, ListIsSequence
  <2>8. job.url \in Url
    BY <1>1 DEF ResearchInv, ProgressFits, AtWork, WorkFits, Leads
  <2>9. /\ job' \in Jobs /\ job'.at = "connect" /\ job'.url = job.url /\ job'.hops = job.hops
        /\ job'.lookup = [url |-> job.url, addresses |-> addresses] /\ job'.left = l
    BY <1>1, <2>1, <2>2, <2>7, <2>8 DEF Jobs, Work, Lookups, l
  <2>10. ContactFits(job')
    BY <1>1, <1>4, <2>5, <2>9 DEF ContactFits, Admitted
  <2> QED BY <1>1, <2>9, <2>10, OnwardMoves DEF Work
<1> QED
  BY <1>2, <1>3, <1>4

LEMMA ConnectMoves == ASSUME ResearchInv, Connect PROVE Moves
<1>1. AtWork /\ job \in Jobs /\ job.at = "connect" /\ ContactFits(job)
  BY DEF Connect, Working, AtWork, Work, ResearchInv, JobFits
<1>2. CASE wanted
  BY <1>1, <1>2, CancelsMoves DEF Connect, OrCancelled
<1>3. CASE ~wanted
  <2> DEFINE c == [url |-> job.url, address |-> Head(job.left)]
  <2>1. job' = [job EXCEPT !.at = "read", !.contact = c]
    BY <1>3 DEF Connect, OrCancelled
  <2>2. Head(job.left) \in job.lookup.addresses /\ Head(job.left) \in Address
    BY <1>1 DEF ContactFits, Jobs
  <2>3. job.url \in Url
    BY <1>1 DEF ResearchInv, ProgressFits, AtWork, WorkFits, Leads
  <2>4. /\ job' \in Jobs /\ job'.at = "read" /\ job'.url = job.url /\ job'.hops = job.hops
        /\ job'.lookup = job.lookup /\ job'.left = job.left /\ job'.contact = c
    BY <1>1, <2>1, <2>2, <2>3 DEF Jobs, Work
  <2>5. ContactFits(job')
    BY <1>1, <2>2, <2>4 DEF ContactFits
  <2> QED BY <1>1, <2>4, <2>5, OnwardMoves DEF Work
<1> QED
  BY <1>2, <1>3

LEMMA ConnectionFailsMoves == ASSUME ResearchInv, ConnectionFails PROVE Moves
<1>1. AtWork /\ job \in Jobs /\ job.at \in {"connect", "read", "body"} /\ ContactFits(job)
  BY DEF ConnectionFails, AtWork, Work, ResearchInv, JobFits
<1>2. CASE ~(Len(job.left) > 1)
  BY <1>1, <1>2, FailsMoves DEF ConnectionFails, NextAddress, Stages
<1>3. CASE Len(job.left) > 1
  <2>1. job' = [job EXCEPT !.at = "connect", !.left = Tail(job.left), !.body = 0]
    BY <1>3 DEF ConnectionFails, NextAddress
  <2>2. /\ job.left \in Seq(job.lookup.addresses) /\ job.left \in Seq(Address)
    BY <1>1 DEF ContactFits, Jobs
  <2>3. Tail(job.left) \in Seq(job.lookup.addresses) /\ Tail(job.left) \in Seq(Address)
    BY <1>3, <2>2, TailIsSequence
  <2>4. Tail(job.left) # <<>>
    BY <1>3, <2>2, TailIsSequence
  <2>5. /\ job' \in Jobs /\ job'.at = "connect" /\ job'.url = job.url /\ job'.hops = job.hops
        /\ job'.lookup = job.lookup /\ job'.left = Tail(job.left)
    <3>1. 0 \in 0..MaxBody
      BY RetrievalAssumption
    <3>a. PICK t \in Seq(Address) : t = Tail(job.left)
      BY <2>3
    <3> QED BY <1>1, <2>1, <3>1, <3>a DEF Jobs, Work
  <2>6. ContactFits(job')
    BY <1>1, <2>3, <2>4, <2>5 DEF ContactFits
  <2> QED BY <1>1, <2>5, <2>6, OnwardMoves DEF Work
<1> QED
  BY <1>2, <1>3

\* A redirect starts over at its target: nothing but the hops is carried along.
LEMMA RedirectMoves == ASSUME ResearchInv, NEW url \in Url, Redirect(url) PROVE Moves
<1>1. AtWork /\ job \in Jobs /\ job.at = "read"
  BY DEF Redirect, Working, AtWork, Work, ResearchInv, JobFits
<1>2. CASE Len(job.hops) >= MaxRedirects
  BY <1>1, <1>2, FailsMoves DEF Redirect, Stages
<1>3. CASE ~(Len(job.hops) >= MaxRedirects)
  <2>1. Asked \in Url /\ Leads(job, Asked) /\ job.retries \in 0..MaxRetries
    BY <1>1, AskedIsSelected DEF ResearchInv, ProgressFits, AtWork, WorkFits, Jobs
  <2> DEFINE b == Begin(url, job.retries)
  <2>2. b \in Jobs /\ b.at = "preflight" /\ b.url = url
    BY <2>1, BeginFits DEF Begin
  <2>3. job' = [b EXCEPT !.hops = Hop(url)]
    BY <1>3 DEF Redirect, Redirected
  <2>a. PICK h : h = Hop(url)
    OBVIOUS
  <2>4. /\ h \in Seq(Hops) /\ Len(h) = Len(job.hops) + 1
        /\ h[1].url = Asked /\ h[Len(h)].next = url
        /\ \A k \in 1..(Len(h) - 1) : h[k].next = h[k + 1].url
    <3>1. Extends(h, job, url) /\ url \in Url \cup {Nothing}
      BY <2>a DEF Hop, Extends
    <3>2. Leading(h, job, Asked, url)
      BY <1>1, <2>1, <3>1, HopLeads
    <3> QED BY <3>2 DEF Leading
  <2> HIDE DEF b
  <2>5. /\ job' \in Jobs /\ job'.at = "preflight" /\ job'.url = url /\ job'.hops = h
    BY <2>2, <2>3, <2>4, <2>a DEF Jobs
  <2>6. ContactFits(job')
    BY <2>5 DEF ContactFits
  <2>7. Len(h) <= MaxRedirects /\ Len(h) > 0
    BY <1>1, <1>3, <2>4, RetrievalAssumption DEF Jobs
  <2>8. Leads(job', Asked)
    BY <2>4, <2>5, <2>7 DEF Leads
  <2> QED BY <2>5, <2>6, <2>8 DEF Moves, WorkFits, Work
<1> QED
  BY <1>2, <1>3

LEMMA HeadersArriveMoves == ASSUME ResearchInv, HeadersArrive PROVE Moves
<1>1. AtWork /\ job \in Jobs /\ job.at = "read" /\ ContactFits(job)
  BY DEF HeadersArrive, Working, AtWork, Work, ResearchInv, JobFits
<1>2. job' = [job EXCEPT !.at = "body"]
  BY DEF HeadersArrive
<1>3. /\ job' \in Jobs /\ job'.at = "body" /\ job'.url = job.url /\ job'.hops = job.hops
      /\ job'.lookup = job.lookup /\ job'.left = job.left /\ job'.contact = job.contact
  BY <1>1, <1>2 DEF Jobs, Work
<1>4. ContactFits(job')
  BY <1>1, <1>3 DEF ContactFits
<1> QED
  BY <1>1, <1>3, <1>4, OnwardMoves DEF Work

LEMMA ChunkArrivesMoves == ASSUME ResearchInv, ChunkArrives PROVE Moves
<1>1. AtWork /\ job \in Jobs /\ job.at = "body" /\ ContactFits(job)
  BY DEF ChunkArrives, Working, AtWork, Work, ResearchInv, JobFits
<1>2. CASE AtCeiling
  BY <1>1, <1>2, FailsMoves DEF ChunkArrives, Stages
<1>3. CASE ~AtCeiling /\ wanted
  BY <1>1, <1>3, CancelsMoves DEF ChunkArrives, OrCancelled
<1>4. CASE ~AtCeiling /\ ~wanted
  <2>1. job' = [job EXCEPT !.body = job.body + 1]
    BY <1>4 DEF ChunkArrives, OrCancelled
  <2>2. job.body + 1 \in 0..MaxBody
    BY <1>1, <1>4, RetrievalAssumption DEF AtCeiling, Jobs
  <2>3. /\ job' \in Jobs /\ job'.at = "body" /\ job'.url = job.url /\ job'.hops = job.hops
        /\ job'.lookup = job.lookup /\ job'.left = job.left /\ job'.contact = job.contact
    BY <1>1, <2>1, <2>2 DEF Jobs
  <2>4. ContactFits(job')
    BY <1>1, <2>3 DEF ContactFits
  <2> QED BY <1>1, <2>3, <2>4, OnwardMoves DEF Work
<1> QED
  BY <1>2, <1>3, <1>4

\* A success is of the text just received, at the end of the hops.
LEMMA BodyEndsMoves ==
  ASSUME ResearchInv, NEW text \in Text, BodyEnds(text)
  PROVE  Moves /\ sent' \subseteq Url \X Text
<1>1. AtWork /\ job \in Jobs
  BY DEF BodyEnds, Working, AtWork, Work, ResearchInv, JobFits
<1>2. Asked \in Url /\ Leads(job, Asked) /\ job.url \in Url
  BY <1>1, AskedIsSelected DEF ResearchInv, ProgressFits, AtWork, WorkFits, Leads
<1>3. sent' = sent \cup {<<job.url, text>>} /\ sent' \subseteq Url \X Text
  BY <1>2 DEF BodyEnds, ResearchInv, RequestFits
<1>4. CASE wanted
  BY <1>1, <1>3, <1>4, CancelsMoves DEF BodyEnds, OrCancelled
<1>5. CASE ~wanted
  <2>a. PICK h : h = Hop(Nothing)
    OBVIOUS
  <2>b. PICK v : v = Succeeded(text)
    OBVIOUS
  <2>1. job' = [job EXCEPT !.at = "store", !.verdict = v]
    BY <1>5, <2>b DEF BodyEnds, OrCancelled
  <2>2. /\ h \in Seq(Hops) /\ Len(h) = Len(job.hops) + 1
        /\ h[1].url = Asked /\ h[Len(h)].url = job.url /\ h[Len(h)].next = Nothing
        /\ \A k \in 1..(Len(h) - 1) : h[k].next = h[k + 1].url
    <3>1. Extends(h, job, Nothing) /\ Nothing \in Url \cup {Nothing}
      BY <2>a DEF Hop, Extends
    <3>2. Leading(h, job, Asked, Nothing)
      BY <1>1, <1>2, <3>1, HopLeads
    <3> QED BY <3>2 DEF Leading
  <2>3. /\ v.asked = Asked /\ v.outcome = "succeeded" /\ v.stage = "completed"
        /\ v.hops = h /\ v.final = job.url /\ v.text = text
        /\ v = [asked |-> Asked, outcome |-> "succeeded", stage |-> "completed",
                hops |-> h, final |-> job.url, text |-> text]
    BY <2>a, <2>b DEF Succeeded, Verdict
  <2>4. v \in Verdicts
    BY <1>2, <2>2, <2>3 DEF Verdicts, Outcomes, Stages
  <2>5. Len(h) \in 1..(MaxRedirects + 1)
    BY <1>1, <1>2, <2>2, RetrievalAssumption DEF Leads, Jobs
  <2>6. Chained(v)
    BY <2>2, <2>3, <2>5 DEF Chained
  <2>7. VerdictFits(v, Asked, sent')
    BY <1>3, <2>3, <2>4, <2>6 DEF VerdictFits, IsTrue
  <2> QED BY <1>1, <1>3, <2>1, <2>7, VerdictMoves
<1> QED
  BY <1>4, <1>5

-------------------------------------------------------------------------------
(* The steps of a request. *)

LEMMA EmptyIsDiverse == Diverse(<<>>, <<>>, MaxUrls)
<1>1. ToSet(<<>>) = {}
  BY DEF ToSet
<1>2. Keys(<<>>) = {} /\ Families(<<>>) = {}
  BY <1>1 DEF Keys, Families
<1>3. Cardinality({}) = 0
  BY FS_EmptySet
<1>4. Least(MaxUrls, 0) = 0
  BY RetrievalAssumption DEF Least
<1>5. <<>> \in Seq(Url) /\ Len(<<>>) = 0
  OBVIOUS
<1>6. Len(<<>>) = Least(MaxUrls, Cardinality(Keys(<<>>)))
  BY <1>2, <1>3, <1>4, <1>5
<1>7. Cardinality(Families(<<>>)) = Least(MaxUrls, Cardinality(Families(<<>>)))
  BY <1>2, <1>3, <1>4
<1>8. Cardinality(Keys(<<>>)) = Len(<<>>)
  BY <1>2, <1>3, <1>5
<1> QED
  BY <1>1, <1>5, <1>6, <1>7, <1>8 DEF Diverse

\* At most three queries are tried.
LEMMA QueriesAreFew == Len(Queries(Words)) \in 0..3
<1> DEFINE S == {Words, Front(Words), Tail(Words)}
           variants == IF Len(Words) < 3 THEN <<Words>>
                       ELSE <<Words, Front(Words), Tail(Words)>>
           f == [v \in ToSet(variants) |-> v]
           F == Firsts(variants, f)
<1>1. variants \in Seq(S) /\ Len(variants) \in {1, 3}
  <2>a. PICK w, x, y : w = Words /\ x = Front(Words) /\ y = Tail(Words)
    OBVIOUS
  <2>1. /\ <<w>> \in Seq({w, x, y}) /\ Len(<<w>>) = 1
        /\ <<w, x, y>> \in Seq({w, x, y}) /\ Len(<<w, x, y>>) = 3
    OBVIOUS
  <2> QED BY <2>a, <2>1
<1> HIDE DEF variants, f, S
<1>2. DOMAIN variants = 1..Len(variants) /\ Len(variants) \in Nat
  BY <1>1
<1>3. F \in SUBSET (1..Len(variants))
  BY <1>2 DEF Firsts
<1>4. IsFiniteSet(1..Len(variants)) /\ Cardinality(1..Len(variants)) = Len(variants)
  BY <1>2, FirstNumbers
<1>5. Cardinality(F) <= Len(variants)
  BY <1>3, <1>4, FS_Subset
<1> HIDE DEF F
<1>6. Cardinality(F) \in Nat /\ Len(Sub(variants, F)) = Cardinality(F)
  BY <1>1, <1>2, <1>3, SubTakes
<1>7. Queries(Words) = Sub(variants, F)
  BY DEF Queries, variants, f, F
<1>8. Len(Queries(Words)) = Cardinality(F)
  BY <1>6, <1>7
<1>9. PICK k \in Nat : k = Cardinality(F)
  BY <1>6
<1>10. PICK n \in {1, 3} : n = Len(variants)
  BY <1>1
<1>11. k <= n
  BY <1>5, <1>9, <1>10
<1>12. k \in 0..3
  BY <1>9, <1>10, <1>11
<1> QED
  BY <1>8, <1>9, <1>12

\* Of what a search returns, the preflight drops the blocked URLs and no others.
LEMMA AdmissibleIsAdmitted ==
  ASSUME NEW raw \in Seq(Url)
  PROVE  Admissible(raw) \in Seq(Url) /\ ToSet(Admissible(raw)) \cap Blocked = {}
<1> DEFINE I == {i \in DOMAIN raw : ~Refused(raw[i])}
<1>1. I \in SUBSET DOMAIN raw
  OBVIOUS
<1>2. \A i \in I : raw[i] \notin Blocked
  BY DEF Refused
<1>3. Admissible(raw) = Sub(raw, I)
  BY DEF Admissible
<1> HIDE DEF I
<1>4. Admissible(raw) \in Seq(Url) /\ ToSet(Admissible(raw)) = At(raw, I)
  BY <1>1, <1>3, SubTakes
<1> QED
  BY <1>2, <1>4 DEF At

\* A search that finds nothing to retrieve, or the first URL begins.
LEMMA DiscoverKeepsInv ==
  ASSUME ResearchInv, NEW raw \in RawResults, Discover(raw)
  PROVE  ResearchInv'
<1>a. PICK c : c = Admissible(raw)
  OBVIOUS
<1>1. c \in Seq(Url) /\ ToSet(c) \cap Blocked = {}
  BY <1>a, AdmissibleIsAdmitted, RetrievalAssumption
<1>2. found' = c /\ selected' = Select(c, MaxUrls)
  BY <1>a DEF Discover
<1>3. MaxUrls \in Nat
  BY RetrievalAssumption
<1>4. Diverse(selected', found', MaxUrls)
  BY <1>1, <1>2, <1>3, SelectIsDiverse
<1>5. SelectionFits'
  BY <1>1, <1>2, <1>4 DEF SelectionFits
<1>6. /\ phase = "search" /\ evidence = <<>> /\ events = <<>> /\ results = <<>> /\ job = NoJob
      /\ evidence' = <<>> /\ events' = <<>> /\ results' = <<>>
      /\ wanted' = wanted /\ sent' = sent
  BY DEF Discover, ResearchInv, ProgressFits, stores
<1>7. Len(selected') \in Nat /\ selected' \in Seq(Url)
  BY <1>4 DEF Diverse
<1>8. RecordsFit'
  BY <1>6, <1>7 DEF RecordsFit
<1>9. EndFits'
  <2>1. phase' \in {"search", "retrieve", "no-candidates"}
    BY <1>6 DEF Discover
  <2> QED BY <1>6, <2>1 DEF EndFits
<1>10. CASE selected' # <<>>
  <2>1. phase' = "retrieve" /\ job' = Begin(selected'[1], 0) /\ query' = query
    BY <1>10 DEF Discover
  <2>2. selected'[1] \in Url /\ Len(selected') > 0
    BY <1>7, <1>10
  <2>3. 0 \in 0..MaxRetries
    BY RetrievalAssumption
  <2>4. /\ job' \in Jobs /\ job'.at = "preflight" /\ ContactFits(job')
        /\ Leads(job', selected'[1])
    BY <2>1, <2>2, <2>3, BeginFits
  <2>5. Asked' = selected'[1]
    BY <1>6 DEF Asked
  <2>6. RequestFits'
    BY <1>6, <2>1 DEF ResearchInv, RequestFits
  <2>7. ProgressFits'
    <3>1. WorkFits(job', Asked', sent')
      BY <2>4, <2>5 DEF WorkFits, Work
    <3>2. phase' # "search" /\ job'.at \notin {"record", "return"}
      BY <2>1, <2>4
    <3> QED BY <1>6, <2>2, <3>1, <3>2 DEF ProgressFits
  <2> QED BY <1>5, <1>8, <1>9, <2>4, <2>6, <2>7 DEF ResearchInv, JobFits
<1>11. CASE selected' = <<>>
  <2>1. /\ job' = NoJob
        /\ \/ query < Len(Queries(Words)) /\ query' = query + 1 /\ phase' = phase
           \/ phase' = "no-candidates" /\ query' = query
    BY <1>6, <1>11 DEF Discover
  <2>2. query \in 1..3
    BY DEF ResearchInv, RequestFits
  <2>3. query' \in 1..3
    <3>a. PICK n \in 0..3 : n = Len(Queries(Words))
      BY QueriesAreFew
    <3>1. query' = query \/ (query < n /\ query' = query + 1)
      BY <2>1, <3>a
    <3> QED BY <2>2, <3>1
  <2>4. RequestFits'
    BY <1>6, <2>1, <2>3 DEF ResearchInv, RequestFits, Ended
  <2>5. ProgressFits'
    BY <1>6, <2>1 DEF ProgressFits
  <2> QED BY <1>5, <1>8, <1>9, <2>1, <2>4, <2>5, NoJobFits DEF ResearchInv, JobFits
<1> QED
  BY <1>10, <1>11

\* The verdict at work is of the URL that has no record yet.
LEMMA StoreKeepsInv == ASSUME ResearchInv, StoreEvidence PROVE ResearchInv'
<1>1. /\ phase = "retrieve" /\ job.at = "store" /\ job \in Jobs
      /\ VerdictFits(job.verdict, Asked, sent)
      /\ evidence \in Seq(Verdicts) /\ events \in Seq(Events) /\ results \in Seq(Results)
      /\ Len(events) = Len(results) /\ Len(evidence) = Len(results)
  BY DEF StoreEvidence, Working, ResearchInv, JobFits, ProgressFits, WorkFits, Work, RecordsFit
<1>2. Len(results) < Len(selected) /\ selected \in Seq(Url)
  BY <1>1, AskedIsSelected
<1>3. /\ phase' = phase /\ query' = query /\ found' = found /\ selected' = selected
      /\ wanted' = wanted /\ events' = events /\ results' = results /\ sent' = sent
      /\ evidence' = Append(evidence, job.verdict) /\ job' = [job EXCEPT !.at = "record"]
  BY DEF StoreEvidence, search
<1>4. job' \in Jobs /\ job'.at = "record" /\ job'.verdict = job.verdict
  BY <1>1, <1>3 DEF Jobs
<1>5. job.verdict \in Verdicts /\ job.verdict.asked = Asked /\ IsTrue(job.verdict, sent)
  BY <1>1 DEF VerdictFits
<1>6. /\ evidence' \in Seq(Verdicts) /\ Len(evidence') = Len(evidence) + 1
      /\ evidence'[Len(evidence')] = job.verdict
      /\ \A i \in 1..Len(evidence) : evidence'[i] = evidence[i]
  BY <1>1, <1>3, <1>5
<1>7. Asked = selected[Len(evidence')] /\ Asked' = Asked
  BY <1>1, <1>3, <1>6 DEF Asked
<1>8. /\ \A i \in 1..Len(evidence) :
           evidence[i].asked = selected[i] /\ IsTrue(evidence[i], sent)
      /\ \A i \in 1..Len(evidence) : evidence[i].outcome # "cancelled"
      /\ \A i \in 1..Len(results) :
           /\ events[i].evidence = i /\ events[i].outcome = evidence[i].outcome
           /\ results[i].evidence = i /\ results[i].outcome = evidence[i].outcome
           /\ results[i].outcome # "cancelled"
  BY <1>1 DEF ResearchInv, RecordsFit
<1>9. RecordsFit'
  <2>1. ASSUME NEW i \in 1..Len(evidence')
        PROVE  /\ evidence'[i].asked = selected[i] /\ IsTrue(evidence'[i], sent)
               /\ evidence'[i].outcome = "cancelled" => i = Len(evidence')
    <3>1. CASE i = Len(evidence')
      BY <1>5, <1>6, <1>7, <3>1
    <3>2. CASE i # Len(evidence')
      <4>1. i \in 1..Len(evidence)
        BY <1>1, <1>6, <3>2
      <4> QED BY <1>6, <1>8, <4>1
    <3> QED BY <3>1, <3>2
  <2>2. DOMAIN evidence' = 1..Len(evidence') /\ DOMAIN events = 1..Len(events)
        /\ DOMAIN results = 1..Len(results)
    BY <1>1, <1>6
  <2>3. \A i \in 1..Len(results) : evidence'[i] = evidence[i]
    BY <1>1, <1>6
  <2>4. Len(evidence') - Len(events) \in {0, 1} /\ Len(evidence') <= Len(selected)
        /\ Len(results) <= Len(events)
    BY <1>1, <1>2, <1>6
  <2>5. \A i \in 1..Len(events) :
          events[i].evidence = i /\ events[i].outcome = evidence'[i].outcome
    BY <1>1, <1>8, <2>3
  <2>6. \A i \in 1..Len(results) :
          /\ results[i].evidence = i /\ results[i].outcome = evidence'[i].outcome
          /\ results[i].outcome # "cancelled"
    BY <1>8, <2>3
  <2>7. /\ evidence' \in Seq(Verdicts) /\ events' \in Seq(Events) /\ results' \in Seq(Results)
    BY <1>1, <1>3, <1>6
  <2> QED BY <1>3, <2>1, <2>2, <2>4, <2>5, <2>6, <2>7 DEF RecordsFit
<1>10. WorkFits(job', Asked', sent')
  BY <1>1, <1>3, <1>4, <1>7 DEF WorkFits, Work
<1>11. ProgressFits'
  BY <1>1, <1>2, <1>3, <1>4, <1>6, <1>10 DEF ProgressFits
<1>12. SelectionFits' /\ RequestFits'
  BY <1>3 DEF ResearchInv, SelectionFits, RequestFits
<1>13. JobFits' /\ EndFits'
  BY <1>1, <1>3, <1>4 DEF JobFits, ContactFits, EndFits
<1> QED
  BY <1>9, <1>11, <1>12, <1>13 DEF ResearchInv

LEMMA RecordKeepsInv == ASSUME ResearchInv, RecordEvent PROVE ResearchInv'
<1>1. /\ phase = "retrieve" /\ job.at = "record" /\ job \in Jobs
      /\ VerdictFits(job.verdict, Asked, sent)
      /\ evidence \in Seq(Verdicts) /\ events \in Seq(Events) /\ results \in Seq(Results)
      /\ Len(events) = Len(results) /\ Len(evidence) = Len(results) + 1
      /\ evidence[Len(evidence)] = job.verdict
  BY DEF RecordEvent, Working, ResearchInv, JobFits, ProgressFits, WorkFits, Work, RecordsFit
<1>2. Len(results) < Len(selected) /\ selected \in Seq(Url)
  BY <1>1, AskedIsSelected
<1>a. PICK e : e = [evidence |-> Len(evidence), outcome |-> job.verdict.outcome,
                    retries |-> job.retries]
  OBVIOUS
<1>3. /\ phase' = phase /\ query' = query /\ found' = found /\ selected' = selected
      /\ wanted' = wanted /\ evidence' = evidence /\ results' = results /\ sent' = sent
      /\ events' = Append(events, e) /\ job' = [job EXCEPT !.at = "return"]
  BY <1>a DEF RecordEvent, search
<1>4. job' \in Jobs /\ job'.at = "return" /\ job'.verdict = job.verdict
  BY <1>1, <1>3 DEF Jobs
<1>5. e \in Events /\ e.evidence = Len(evidence) /\ e.outcome = job.verdict.outcome
  BY <1>1, <1>a DEF VerdictFits, Verdicts, Jobs, Events
<1>6. /\ events' \in Seq(Events) /\ Len(events') = Len(events) + 1
      /\ events'[Len(events')] = e
      /\ \A i \in 1..Len(events) : events'[i] = events[i]
  BY <1>1, <1>3, <1>5
<1>7. Asked' = Asked
  BY <1>3 DEF Asked
<1>8. RecordsFit'
  <2>1. DOMAIN events' = 1..Len(events') /\ DOMAIN events = 1..Len(events)
    BY <1>1, <1>6
  <2>2. \A i \in 1..Len(events) :
          events[i].evidence = i /\ events[i].outcome = evidence[i].outcome
    BY <2>1 DEF ResearchInv, RecordsFit
  <2>3. ASSUME NEW i \in 1..Len(events')
        PROVE  events'[i].evidence = i /\ events'[i].outcome = evidence[i].outcome
    <3>1. CASE i = Len(events')
      BY <1>1, <1>5, <1>6, <3>1
    <3>2. CASE i # Len(events')
      <4>1. i \in 1..Len(events)
        BY <1>1, <1>6, <3>2
      <4> QED BY <1>6, <2>2, <4>1
    <3> QED BY <3>1, <3>2
  <2> QED BY <1>1, <1>2, <1>3, <1>6, <2>1, <2>3 DEF ResearchInv, RecordsFit
<1>9. WorkFits(job', Asked', sent')
  BY <1>1, <1>3, <1>4, <1>7 DEF WorkFits, Work
<1>10. ProgressFits'
  BY <1>1, <1>2, <1>3, <1>4, <1>6, <1>9 DEF ProgressFits
<1>11. SelectionFits' /\ RequestFits'
  BY <1>3 DEF ResearchInv, SelectionFits, RequestFits
<1>12. JobFits' /\ EndFits'
  BY <1>1, <1>3, <1>4 DEF JobFits, ContactFits, EndFits
<1> QED
  BY <1>8, <1>10, <1>11, <1>12 DEF ResearchInv

LEMMA ReturnKeepsInv == ASSUME ResearchInv, Return PROVE ResearchInv'
<1>1. /\ phase = "retrieve" /\ job.at = "return" /\ job \in Jobs
      /\ VerdictFits(job.verdict, Asked, sent)
      /\ evidence \in Seq(Verdicts) /\ events \in Seq(Events) /\ results \in Seq(Results)
      /\ Len(events) = Len(results) + 1 /\ Len(evidence) = Len(results) + 1
      /\ evidence[Len(evidence)] = job.verdict
  BY DEF Return, Working, ResearchInv, JobFits, ProgressFits, WorkFits, Work, RecordsFit
<1>2. Len(results) < Len(selected) /\ selected \in Seq(Url)
  BY <1>1, AskedIsSelected
<1>3. /\ query' = query /\ found' = found /\ selected' = selected
      /\ wanted' = wanted /\ evidence' = evidence /\ events' = events /\ sent' = sent
  BY DEF Return, search, stores
<1>4. SelectionFits'
  BY <1>3 DEF ResearchInv, SelectionFits
<1>5. CASE job.verdict.outcome = "cancelled"
  <2>1. phase' = "cancelled" /\ results' = results /\ job' = NoJob
    BY <1>5 DEF Return
  <2>2. RequestFits'
    BY <1>3, <2>1 DEF ResearchInv, RequestFits, Ended
  <2>3. RecordsFit'
    BY <1>3, <2>1 DEF ResearchInv, RecordsFit
  <2>4. ProgressFits' /\ EndFits'
    BY <1>1, <1>3, <1>5, <2>1 DEF ProgressFits, EndFits
  <2> QED BY <1>4, <2>1, <2>2, <2>3, <2>4, NoJobFits DEF ResearchInv, JobFits
<1>6. CASE job.verdict.outcome # "cancelled"
  <2>a. PICK r : r = [evidence |-> Len(evidence), outcome |-> job.verdict.outcome]
    OBVIOUS
  <2>1. /\ results' = Append(results, r)
        /\ phase' = IF Len(results') < Len(selected) THEN "retrieve"
                    ELSE IF AnySuccess(results') THEN "done" ELSE "no-source"
        /\ job' = IF phase' = "retrieve" THEN Begin(selected[Len(results') + 1], 0) ELSE NoJob
    BY <1>6, <2>a DEF Return
  <2>2. r \in Results /\ r.evidence = Len(evidence) /\ r.outcome = job.verdict.outcome
    BY <1>1, <2>a DEF VerdictFits, Verdicts, Results
  <2>3. /\ results' \in Seq(Results) /\ Len(results') = Len(results) + 1
        /\ results'[Len(results')] = r
        /\ \A i \in 1..Len(results) : results'[i] = results[i]
    BY <1>1, <2>1, <2>2
  <2>4. ASSUME NEW i \in 1..Len(results')
        PROVE  /\ results'[i].evidence = i /\ results'[i].outcome = evidence[i].outcome
               /\ results'[i].outcome # "cancelled"
    <3>1. CASE i = Len(results')
      BY <1>1, <1>6, <2>2, <2>3, <3>1
    <3>2. CASE i # Len(results')
      <4>1. i \in 1..Len(results) /\ i \in DOMAIN results
        BY <1>1, <2>3, <3>2
      <4> QED BY <2>3, <4>1 DEF ResearchInv, RecordsFit
    <3> QED BY <3>1, <3>2
  <2>5. DOMAIN results' = 1..Len(results') /\ Len(results') = Len(events)
    BY <1>1, <2>3
  <2>6. RecordsFit'
    BY <1>1, <1>3, <2>3, <2>4, <2>5 DEF ResearchInv, RecordsFit
  <2>7. CASE Len(results') < Len(selected)
    <3>1. phase' = "retrieve" /\ job' = Begin(selected[Len(results') + 1], 0)
      BY <2>1, <2>7
    <3>2. selected[Len(results') + 1] \in Url /\ 0 \in 0..MaxRetries
      BY <1>1, <1>2, <2>3, <2>7, RetrievalAssumption
    <3>3. Asked' = selected[Len(results') + 1]
      BY <1>3 DEF Asked
    <3>4. /\ job' \in Jobs /\ job'.at = "preflight" /\ ContactFits(job')
          /\ Leads(job', selected[Len(results') + 1])
      BY <3>1, <3>2, BeginFits
    <3>5. WorkFits(job', Asked', sent')
      BY <3>3, <3>4 DEF WorkFits, Work
    <3>6. ProgressFits'
      BY <1>1, <1>3, <2>3, <2>7, <3>1, <3>4, <3>5 DEF ProgressFits
    <3>7. RequestFits' /\ EndFits' /\ JobFits'
      BY <1>3, <3>1, <3>4 DEF ResearchInv, RequestFits, EndFits, JobFits
    <3> QED BY <1>4, <2>6, <3>6, <3>7 DEF ResearchInv
  <2>8. CASE ~(Len(results') < Len(selected))
    <3>1. /\ phase' \in {"done", "no-source"} /\ job' = NoJob
          /\ phase' = "done" <=> AnySuccess(results')
      BY <2>1, <2>8
    <3>2. Len(results') = Len(selected) /\ Len(events) = Len(selected)
      BY <1>1, <1>2, <2>3, <2>8
    <3>3. EndFits' /\ ProgressFits'
      BY <1>3, <3>1, <3>2 DEF EndFits, ProgressFits, AnySuccess
    <3>4. RequestFits'
      BY <1>3, <3>1 DEF ResearchInv, RequestFits, Ended
    <3> QED BY <1>4, <2>6, <3>1, <3>3, <3>4, NoJobFits DEF ResearchInv, JobFits
  <2> QED BY <2>7, <2>8
<1> QED
  BY <1>5, <1>6

\* A request that ends early leaves its records as they are.
LEMMA EndsKeepInv ==
  ASSUME ResearchInv, phase \notin Ended,
         phase' \in {"search-failed", "cancelled", "aborted"},
         phase' = "cancelled" => phase = "search",
         results' \in {results, <<>>}, job' \in {job, NoJob},
         UNCHANGED <<search, wanted, stores, sent>>
  PROVE  ResearchInv'
<1>1. /\ query' = query /\ found' = found /\ selected' = selected /\ wanted' = wanted
      /\ evidence' = evidence /\ events' = events /\ sent' = sent
  BY DEF search, stores
<1>2. SelectionFits' /\ RequestFits'
  BY <1>1 DEF ResearchInv, SelectionFits, RequestFits, Ended
<1>3. JobFits'
  BY NoJobFits DEF ResearchInv, JobFits
<1>4. RecordsFit'
  <2>1. CASE results' = results
    BY <1>1, <2>1 DEF ResearchInv, RecordsFit
  <2>2. CASE results' = <<>>
    BY <1>1, <2>2 DEF ResearchInv, RecordsFit
  <2> QED BY <2>1, <2>2
<1>5. ProgressFits'
  BY DEF ProgressFits
<1>6. EndFits'
  BY <1>1 DEF ResearchInv, ProgressFits, EndFits
<1> QED
  BY <1>2, <1>3, <1>4, <1>5, <1>6 DEF ResearchInv

LEMMA ResearchInvInit == Init => ResearchInv
<1> SUFFICES ASSUME Init PROVE ResearchInv
  OBVIOUS
<1>1. SelectionFits
  <2>1. ToSet(<<>>) = {} /\ <<>> \in Seq(Url)
    BY DEF ToSet
  <2> QED BY <2>1, EmptyIsDiverse DEF Init, SelectionFits
<1>2. JobFits
  BY NoJobFits DEF Init, JobFits
<1>3. RequestFits
  <2>1. phase = "search" /\ query = 1 /\ wanted = FALSE /\ sent = {}
    BY DEF Init
  <2>2. phase \in {"search", "retrieve"} \cup Ended /\ query \in 1..3
    BY <2>1
  <2>3. wanted \in BOOLEAN
    BY <2>1
  <2>4. sent \subseteq Url \X Text
    BY <2>1
  <2> QED BY <2>2, <2>3, <2>4 DEF RequestFits
<1>4. RecordsFit
  <2>1. Len(selected) \in Nat
    BY <1>1 DEF SelectionFits, Diverse
  <2> QED BY <2>1 DEF Init, RecordsFit
<1>5. ProgressFits /\ EndFits
  BY DEF Init, ProgressFits, EndFits
<1> QED
  BY <1>1, <1>2, <1>3, <1>4, <1>5 DEF ResearchInv

\* The steps of a retrieval, all of them Moves.
Retrieves ==
  \/ Preflight \/ \E addresses \in Answers : Resolve(addresses)
  \/ \E transient \in BOOLEAN : ResolveFails(transient) \/ ResponseFails(transient)
  \/ Connect \/ ConnectionFails \/ TotalTimeout
  \/ \E url \in Url : Redirect(url)
  \/ HeadersArrive \/ ChunkArrives \/ BodyNotText

LEMMA RetrievesMoves ==
  ASSUME ResearchInv, Retrieves
  PROVE  AtWork /\ Moves /\ UNCHANGED <<phase, search, wanted, stores, results, sent>>
<1>1. CASE Preflight
  BY <1>1, PreflightMoves DEF Preflight, AtWork, Working, Work
<1>2. CASE \E addresses \in Answers : Resolve(addresses)
  BY <1>2, ResolveMoves DEF Resolve, AtWork, Working, Work
<1>3. CASE \E transient \in BOOLEAN : ResolveFails(transient)
  <2> PICK transient \in BOOLEAN : ResolveFails(transient)
    BY <1>3
  <2>1. AtWork /\ Fails("dns", transient)
    BY DEF ResolveFails, AtWork, Working, Work
  <2>2. Moves
    BY <2>1, FailsMoves DEF Stages
  <2> QED BY <2>1, <2>2 DEF ResolveFails
<1>4. CASE \E transient \in BOOLEAN : ResponseFails(transient)
  <2> PICK transient \in BOOLEAN : ResponseFails(transient)
    BY <1>4
  <2>1. AtWork /\ Fails("response", transient)
    BY DEF ResponseFails, AtWork, Work
  <2>2. Moves
    BY <2>1, FailsMoves DEF Stages
  <2> QED BY <2>1, <2>2 DEF ResponseFails
<1>5. CASE Connect
  BY <1>5, ConnectMoves DEF Connect, AtWork, Working, Work
<1>6. CASE ConnectionFails
  BY <1>6, ConnectionFailsMoves DEF ConnectionFails, AtWork, Work
<1>7. CASE TotalTimeout
  <2>1. AtWork /\ Fails("response", TRUE)
    BY <1>7 DEF TotalTimeout, Retrieving, AtWork, Work
  <2>2. Moves
    BY <2>1, FailsMoves DEF Stages
  <2> QED BY <1>7, <2>1, <2>2 DEF TotalTimeout
<1>8. CASE \E url \in Url : Redirect(url)
  BY <1>8, RedirectMoves DEF Redirect, AtWork, Working, Work
<1>9. CASE HeadersArrive
  BY <1>9, HeadersArriveMoves DEF HeadersArrive, AtWork, Working, Work
<1>10. CASE ChunkArrives
  BY <1>10, ChunkArrivesMoves DEF ChunkArrives, AtWork, Working, Work
<1>11. CASE BodyNotText
  <2>1. AtWork /\ (Cancels \/ Fails("content-normalization", FALSE))
    BY <1>11 DEF BodyNotText, OrCancelled, AtWork, Working, Work
  <2>2. Moves
    BY <2>1, FailsMoves, CancelsMoves DEF Stages
  <2> QED BY <1>11, <2>1, <2>2 DEF BodyNotText
<1> QED
  BY <1>1, <1>2, <1>3, <1>4, <1>5, <1>6, <1>7, <1>8, <1>9, <1>10, <1>11 DEF Retrieves

LEMMA ResearchInvNext == ResearchInv /\ [Next]_vars => ResearchInv'
<1> SUFFICES ASSUME ResearchInv, [Next]_vars PROVE ResearchInv'
  OBVIOUS
<1>1. CASE \E raw \in RawResults : Discover(raw)
  BY <1>1, DiscoverKeepsInv
<1>2. CASE SearchFails
  BY <1>2, EndsKeepInv DEF SearchFails, Ended
<1>3. CASE Retrieves
  <2>1. AtWork /\ Moves /\ UNCHANGED <<phase, search, wanted, stores, results, sent>>
    BY <1>3, RetrievesMoves
  <2>2. sent' = sent /\ sent \subseteq Url \X Text
    BY <2>1 DEF ResearchInv, RequestFits
  <2> QED BY <2>1, <2>2, MovesKeepInv
<1>4. CASE \E text \in Text : BodyEnds(text)
  <2> PICK text \in Text : BodyEnds(text)
    BY <1>4
  <2>1. Moves /\ sent' \subseteq Url \X Text
    BY BodyEndsMoves
  <2>2. AtWork /\ sent \subseteq sent' /\ UNCHANGED <<phase, search, wanted, stores, results>>
    BY DEF BodyEnds, AtWork, Working, Work
  <2> QED BY <2>1, <2>2, MovesKeepInv
<1>5. CASE RedirectUnparsable
  BY <1>5, EndsKeepInv DEF RedirectUnparsable, Working, Ended
<1>6. CASE StoreEvidence
  BY <1>6, StoreKeepsInv
<1>7. CASE RecordEvent
  BY <1>7, RecordKeepsInv
<1>8. CASE Return
  BY <1>8, ReturnKeepsInv
<1>9. CASE RequestCancellation
  <2>1. /\ phase' = phase /\ query' = query /\ found' = found /\ selected' = selected
        /\ wanted' = TRUE /\ evidence' = evidence /\ events' = events /\ results' = results
        /\ sent' = sent /\ job' = job
    BY <1>9 DEF RequestCancellation, search, stores
  <2>2. SelectionFits' /\ JobFits' /\ RequestFits' /\ RecordsFit'
    BY <2>1 DEF ResearchInv, SelectionFits, JobFits, RequestFits, RecordsFit
  <2>3. Asked' = Asked
    BY <2>1 DEF Asked
  <2>4. ProgressFits' /\ EndFits'
    BY <2>1, <2>3 DEF ResearchInv, ProgressFits, EndFits
  <2> QED BY <2>2, <2>4 DEF ResearchInv
<1>10. CASE Crash
  BY <1>10, EndsKeepInv DEF Crash
<1>11. CASE Finished \/ UNCHANGED vars
  <2>1. /\ phase' = phase /\ query' = query /\ found' = found /\ selected' = selected
        /\ wanted' = wanted /\ evidence' = evidence /\ events' = events /\ results' = results
        /\ sent' = sent /\ job' = job
    BY <1>11 DEF Finished, vars, search, stores
  <2>2. SelectionFits' /\ JobFits' /\ RequestFits' /\ RecordsFit'
    BY <2>1 DEF ResearchInv, SelectionFits, JobFits, RequestFits, RecordsFit
  <2>3. Asked' = Asked
    BY <2>1 DEF Asked
  <2>4. ProgressFits' /\ EndFits'
    BY <2>1, <2>3 DEF ResearchInv, ProgressFits, EndFits
  <2> QED BY <2>2, <2>4 DEF ResearchInv
<1> QED
  BY <1>1, <1>2, <1>3, <1>4, <1>5, <1>6, <1>7, <1>8, <1>9, <1>10, <1>11
  DEF Next, Step, Retrieves

-------------------------------------------------------------------------------
(* The theorems. *)

\* Whatever the search, the network and the caller do, the selection, the
\* contacts and the records are as the invariant says.
THEOREM SpecResearchInv == Spec => []ResearchInv
<1> QED
  BY ResearchInvInit, ResearchInvNext, PTL DEF Spec

\* A connection is only ever open to a URL the preflight admits, at a public
\* address that the last lookup of this very URL returned
\* (internet_transport.py, on redirects, second addresses and repeats too).
THEOREM SpecContactsAreAdmitted == Spec => []ContactsAreAdmitted
<1>1. ResearchInv => ContactsAreAdmitted
  BY DEF ResearchInv, JobFits, ContactFits, ContactsAreAdmitted
<1> QED
  BY <1>1, SpecResearchInv, PTL

\* The URLs that are retrieved are as many and as diverse as the admitted
\* candidates and the limit allow, no page twice (research_source_quality.py),
\* for every list of candidates and every assignment of keys and families.
THEOREM SpecSelectionIsDiverse == Spec => []SelectionIsDiverse
<1>1. ResearchInv => SelectionIsDiverse
  <2> SUFFICES ASSUME SelectionFits PROVE SelectionIsDiverse
    BY DEF ResearchInv
  <2>1. /\ ToSet(selected) \subseteq ToSet(found)
        /\ Len(selected) = Least(MaxUrls, Cardinality(Keys(found)))
        /\ Cardinality(Keys(selected)) = Len(selected)
        /\ Cardinality(Families(selected)) = Least(MaxUrls, Cardinality(Families(found)))
        /\ ToSet(found) \cap Blocked = {}
    BY DEF SelectionFits, Diverse
  <2> QED BY <2>1 DEF SelectionIsDiverse
<1> QED
  BY <1>1, SpecResearchInv, PTL

\* Every URL has one verdict, in the order of the selection, its event follows,
\* and evidence of a success is of a text that the end of an unbroken chain of
\* redirects did send (research_retrieval_evidence.py), for any number of URLs,
\* redirects, addresses and repeats.
THEOREM SpecEvidenceIsWhole == Spec => []EvidenceIsWhole
<1>1. ResearchInv => TypeOK
  <2> SUFFICES ASSUME ResearchInv PROVE TypeOK
    OBVIOUS
  <2>1. selected \in Seq(Url)
    BY DEF ResearchInv, SelectionFits, Diverse
  <2> QED BY <2>1 DEF ResearchInv, SelectionFits, JobFits, Jobs, Work, RequestFits, RecordsFit, TypeOK
<1>2. ResearchInv => EvidenceIsTrue
  BY DEF ResearchInv, RecordsFit, IsTrue, EvidenceIsTrue
<1>3. ResearchInv => EveryUrlHasOneVerdict
  <2> SUFFICES ASSUME ResearchInv PROVE EveryUrlHasOneVerdict
    OBVIOUS
  <2>1. ASSUME phase \in {"done", "no-source"}
        PROVE  /\ Len(events) = Len(selected) /\ Len(results) = Len(selected)
               /\ phase = "done" <=> \E i \in DOMAIN evidence : evidence[i].outcome = "succeeded"
    <3>1. /\ Len(events) = Len(selected) /\ Len(results) = Len(selected)
          /\ phase = "done" <=> \E i \in DOMAIN results : results[i].outcome = "succeeded"
      BY <2>1 DEF ResearchInv, EndFits, AnySuccess
    <3>2. DOMAIN evidence = DOMAIN results
      <4>1. Len(evidence) = Len(results)
        <5>1. /\ Len(evidence) - Len(events) \in {0, 1} /\ Len(evidence) <= Len(selected)
              /\ Len(evidence) \in Nat /\ Len(events) \in Nat
          BY DEF ResearchInv, RecordsFit
        <5> QED BY <3>1, <5>1
      <4>2. evidence \in Seq(Verdicts) /\ results \in Seq(Results)
        BY DEF ResearchInv, RecordsFit
      <4> QED BY <4>1, <4>2
    <3>3. \A i \in DOMAIN results : results[i].outcome = evidence[i].outcome
      BY DEF ResearchInv, RecordsFit
    <3> QED BY <3>1, <3>2, <3>3
  <2>2. ASSUME phase = "cancelled", evidence # <<>>
        PROVE  Last(evidence).outcome = "cancelled" /\ Len(events) = Len(evidence)
    BY <2>2 DEF ResearchInv, EndFits, Last
  <2>3. /\ Len(evidence) - Len(events) \in {0, 1} /\ Len(evidence) <= Len(selected)
        /\ \A i \in DOMAIN evidence :
             /\ evidence[i].asked = selected[i]
             /\ evidence[i].outcome = "cancelled" => i = Len(evidence)
        /\ \A i \in DOMAIN events :
             events[i].evidence = i /\ events[i].outcome = evidence[i].outcome
        /\ \A i \in DOMAIN results :
             results[i].evidence = i /\ results[i].outcome = evidence[i].outcome
    BY DEF ResearchInv, RecordsFit
  <2> QED BY <2>1, <2>2, <2>3 DEF EveryUrlHasOneVerdict
<1> QED
  BY <1>1, <1>2, <1>3, SpecResearchInv, PTL DEF EvidenceIsWhole
================================================================================
