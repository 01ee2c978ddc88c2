----------------------------- MODULE FiniteFolds -----------------------------
(***************************************************************************)
(* What SumFunctionOnSet of the community modules computes over any finite *)
(* set: the sums over reservations, plans, venues and legs that the        *)
(* engine's invariants are about.                                          *)
(*                                                                         *)
(* The fold takes the elements one after the other, in an order nobody     *)
(* chooses.  Strict inclusion is well founded on the subsets of a finite   *)
(* set, so a claim about sums that fails for a subset fails for a smallest *)
(* one (MinimalSubset); that takes the place of an induction.              *)
(*                                                                         *)
(* And what the filter of the tables keeps (Selection): the first place    *)
(* where a claim about it fails takes the place of an induction there.     *)
(***************************************************************************)
EXTENDS Selection, SequencesExt, FiniteSetTheorems, TLAPS

\* One call of the fold: what it takes out of t, and the sum g of the rest.
SumStep(f, g, t) ==
  IF t = {} THEN 0 ELSE f[CHOOSE x \in t : TRUE] + g[t \ {CHOOSE x \in t : TRUE}]

\* g gives every subset of S its sum.
IsSumTable(g, f, S) == g = [t \in SUBSET S |-> SumStep(f, g, t)]

-----------------------------------------------------------------------------
\* Among the bad subsets of a finite set one has no bad proper subset.
LEMMA MinimalSubset ==
  ASSUME NEW S, IsFiniteSet(S), NEW Bad, Bad \subseteq SUBSET S, Bad # {}
  PROVE  \E m \in Bad : \A t \in Bad : t \subseteq m => t = m
<1>1. IsWellFoundedOn(StrictSubsetOrdering(S), SUBSET S)
  BY FS_StrictSubsetOrderingWellFounded, FS_FiniteSubsetsOfFinite
<1>2. PICK m \in Bad : \A t \in Bad : ~(<<t, m>> \in StrictSubsetOrdering(S))
  BY <1>1, WFMin
<1> QED BY <1>2 DEF StrictSubsetOrdering

\* Two tables of a set's sums are the same.
LEMMA SumTableIsUnique ==
  ASSUME NEW S, IsFiniteSet(S), NEW f, NEW g, NEW h,
         IsSumTable(g, f, S), IsSumTable(h, f, S)
  PROVE  g = h
<1> DEFINE Bad == {t \in SUBSET S : g[t] # h[t]}
<1>1. SUFFICES ASSUME Bad # {} PROVE FALSE
  BY DEF IsSumTable
<1>2. PICK m \in Bad : \A t \in Bad : t \subseteq m => t = m
  <2>1. Bad \subseteq SUBSET S
    OBVIOUS
  <2> HIDE DEF Bad
  <2> QED BY <1>1, <2>1, MinimalSubset
<1> DEFINE x == CHOOSE x \in m : TRUE
<1>3. m \subseteq S /\ g[m] = SumStep(f, g, m) /\ h[m] = SumStep(f, h, m) /\ g[m] # h[m]
  BY <1>2 DEF IsSumTable
<1>4. m # {}
  BY <1>3 DEF SumStep
<1>5. x \in m
  BY <1>4
<1>6. g[m \ {x}] = h[m \ {x}]
  BY <1>2, <1>5, <1>3
<1> QED BY <1>3, <1>4, <1>6 DEF SumStep

\* Every finite set has such a table.
LEMMA SumTableExists ==
  ASSUME NEW S, IsFiniteSet(S), NEW f
  PROVE  \E g : IsSumTable(g, f, S)
<1> DEFINE Bad == {t \in SUBSET S : ~ \E g : IsSumTable(g, f, t)}
<1>1. SUFFICES ASSUME Bad # {} PROVE FALSE
  OBVIOUS
<1>2. PICK m \in Bad : \A t \in Bad : t \subseteq m => t = m
  <2>1. Bad \subseteq SUBSET S
    OBVIOUS
  <2> HIDE DEF Bad
  <2> QED BY <1>1, <2>1, MinimalSubset
<1> DEFINE G(t) == CHOOSE g : IsSumTable(g, f, t)
           new == [t \in SUBSET m |->
                     IF t = {} THEN 0
                     ELSE f[CHOOSE x \in t : TRUE]
                            + G(t \ {CHOOSE x \in t : TRUE})[t \ {CHOOSE x \in t : TRUE}]]
<1>3. ASSUME NEW t \in SUBSET m, t # m PROVE IsSumTable(G(t), f, t)
  BY <1>2, <1>3
<1>4. ASSUME NEW t \in SUBSET m, t # m PROVE new[t] = G(t)[t]
  <2>0. IsSumTable(G(t), f, t)
    BY <1>3, <1>4
  <2>1. \A s \in SUBSET t : G(t)[s] = SumStep(f, G(t), s)
    <3> HIDE DEF G
    <3> QED BY <2>0 DEF IsSumTable
  <2>2. CASE t = {}
    BY <2>1, <2>2 DEF SumStep
  <2>3. CASE t # {}
    <3> DEFINE x == CHOOSE x \in t : TRUE
               r == t \ {x}
               h == [s \in SUBSET r |-> G(t)[s]]
    <3>1. x \in t /\ r \in SUBSET m /\ r # m /\ r \subseteq t
      BY <2>3, <1>4
    <3>2. \A s \in SUBSET r : SumStep(f, h, s) = SumStep(f, G(t), s)
      BY DEF SumStep
    <3>3. \A s \in SUBSET r : G(t)[s] = SumStep(f, G(t), s)
      BY <2>1, <3>1
    <3>4. IsSumTable(h, f, r)
      <4> HIDE DEF G, x, r
      <4> QED BY <3>2, <3>3 DEF IsSumTable
    <3>5. IsFiniteSet(r) /\ IsSumTable(G(r), f, r)
      BY <3>1, <1>3, FS_Subset
    <3>6. h = G(r)
      <4> HIDE DEF G, x, r, h
      <4> QED BY <3>4, <3>5, SumTableIsUnique
    <3>7. G(t)[r] = G(r)[r]
      <4> HIDE DEF G, x, r
      <4>1. h[r] = G(t)[r]
        OBVIOUS
      <4> QED BY <4>1, <3>6
    <3>8. G(t)[t] = f[x] + G(t)[r]
      BY <2>1, <2>3 DEF SumStep
    <3>9. new[t] = f[x] + G(r)[r]
      BY <2>3
    <3> QED BY <3>7, <3>8, <3>9
  <2> QED BY <2>2, <2>3
<1>5. ASSUME NEW t \in SUBSET m PROVE new[t] = SumStep(f, new, t)
  <2>1. CASE t = {}
    BY <2>1 DEF SumStep
  <2>2. CASE t # {}
    <3> DEFINE x == CHOOSE x \in t : TRUE
               r == t \ {x}
    <3>1. r \in SUBSET m /\ r # m
      BY <2>2
    <3>2. new[r] = G(r)[r]
      BY <3>1, <1>4
    <3>3. new[t] = f[x] + G(r)[r]
      BY <2>2
    <3>4. SumStep(f, new, t) = f[x] + new[r]
      BY <2>2 DEF SumStep
    <3> QED BY <3>2, <3>3, <3>4
  <2> QED BY <2>1, <2>2
<1>6. IsSumTable(new, f, m)
  <2>1. DOMAIN new = SUBSET m /\ new = [t \in DOMAIN new |-> new[t]]
    OBVIOUS
  <2> HIDE DEF new
  <2> QED BY <1>5, <2>1 DEF IsSumTable
<1> QED BY <1>2, <1>6

\* SumFunctionOnSet takes one summand after the other.
THEOREM SumRecursion ==
  ASSUME NEW S, IsFiniteSet(S), NEW f
  PROVE  SumFunctionOnSet(f, S) =
           IF S = {} THEN 0
           ELSE f[CHOOSE x \in S : TRUE] + SumFunctionOnSet(f, S \ {CHOOSE x \in S : TRUE})
<1> DEFINE Table(T) == CHOOSE g : IsSumTable(g, f, T)
<1>1. ASSUME NEW T PROVE SumFunctionOnSet(f, T) = Table(T)[T]
  BY DEF SumFunctionOnSet, FoldFunctionOnSet, MapThenFoldSet, IsSumTable, SumStep
<1>2. ASSUME NEW T, IsFiniteSet(T) PROVE IsSumTable(Table(T), f, T)
  BY <1>2, SumTableExists
<1>3. CASE S = {}
  <2>1. IsSumTable(Table(S), f, S)
    BY <1>2
  <2>2. Table(S)[S] = SumStep(f, Table(S), S)
    <3> HIDE DEF Table
    <3> QED BY <2>1 DEF IsSumTable
  <2>3. Table(S)[S] = 0
    BY <1>3, <2>2 DEF SumStep
  <2>4. SumFunctionOnSet(f, S) = Table(S)[S]
    BY <1>1
  <2> QED BY <1>3, <2>3, <2>4
<1>4. CASE S # {}
  <2> DEFINE x == CHOOSE x \in S : TRUE
             r == S \ {x}
             h == [s \in SUBSET r |-> Table(S)[s]]
  <2>1. x \in S /\ r \subseteq S /\ IsFiniteSet(r)
    BY <1>4, FS_Subset
  <2>2. IsSumTable(Table(S), f, S) /\ IsSumTable(Table(r), f, r)
    <3> HIDE DEF r, Table
    <3> QED BY <1>2, <2>1
  <2>3. \A s \in SUBSET S : Table(S)[s] = SumStep(f, Table(S), s)
    <3> HIDE DEF Table
    <3> QED BY <2>2 DEF IsSumTable
  <2>4. \A s \in SUBSET r : SumStep(f, h, s) = SumStep(f, Table(S), s)
    BY DEF SumStep
  <2>5. IsSumTable(h, f, r)
    <3> HIDE DEF Table, x, r
    <3> QED BY <2>1, <2>3, <2>4 DEF IsSumTable
  <2>6. h = Table(r)
    <3> HIDE DEF Table, x, r, h
    <3> QED BY <2>1, <2>2, <2>5, SumTableIsUnique
  <2>7. Table(S)[r] = Table(r)[r]
    <3> HIDE DEF Table, x, r
    <3>1. h[r] = Table(S)[r]
      OBVIOUS
    <3> QED BY <3>1, <2>6
  <2>8. Table(S)[S] = f[x] + Table(S)[r]
    BY <2>3, <1>4 DEF SumStep
  <2>9. SumFunctionOnSet(f, S) = Table(S)[S] /\ SumFunctionOnSet(f, r) = Table(r)[r]
    <3> HIDE DEF Table, x, r, h
    <3> QED BY <1>1
  <2> QED BY <1>4, <2>7, <2>8, <2>9
<1> QED BY <1>3, <1>4

-----------------------------------------------------------------------------
\* Nothing adds up to 0.
THEOREM SumOfNothing == ASSUME NEW f PROVE SumFunctionOnSet(f, {}) = 0
BY SumRecursion, FS_EmptySet

\* Integers have an integer sum.
THEOREM SumIsInt ==
  ASSUME NEW S, IsFiniteSet(S), NEW f, \A x \in S : f[x] \in Int
  PROVE  SumFunctionOnSet(f, S) \in Int
<1> DEFINE Bad == {t \in SUBSET S : SumFunctionOnSet(f, t) \notin Int}
<1>1. SUFFICES ASSUME Bad # {} PROVE FALSE
  OBVIOUS
<1>2. PICK m \in Bad : \A t \in Bad : t \subseteq m => t = m
  <2>1. Bad \subseteq SUBSET S
    OBVIOUS
  <2> HIDE DEF Bad
  <2> QED BY <1>1, <2>1, MinimalSubset
<1> DEFINE x == CHOOSE x \in m : TRUE
<1>3. m \subseteq S /\ IsFiniteSet(m) /\ m # {} /\ SumFunctionOnSet(f, m) \notin Int
  <2>1. m \subseteq S /\ SumFunctionOnSet(f, m) \notin Int
    BY <1>2
  <2>2. IsFiniteSet(m)
    BY <2>1, FS_Subset
  <2>3. SumFunctionOnSet(f, {}) \in Int
    BY SumOfNothing
  <2>4. m # {}
    <3> HIDE DEF Bad, x
    <3> QED BY <2>1, <2>3
  <2> QED BY <2>1, <2>2, <2>4
<1>4. x \in m
  BY <1>3
<1>5. SumFunctionOnSet(f, m) = f[x] + SumFunctionOnSet(f, m \ {x})
  BY <1>3, SumRecursion
<1>6. SumFunctionOnSet(f, m \ {x}) \in Int
  BY <1>2, <1>3, <1>4
<1> QED BY <1>3, <1>4, <1>5, <1>6

\* Any summand may be taken out: the order of the fold does not matter.
THEOREM SumWithout ==
  ASSUME NEW S, IsFiniteSet(S), NEW f, \A x \in S : f[x] \in Int, NEW k \in S
  PROVE  SumFunctionOnSet(f, S) = f[k] + SumFunctionOnSet(f, S \ {k})
<1> DEFINE Bad == {t \in SUBSET S :
                      \E y \in t : SumFunctionOnSet(f, t) # f[y] + SumFunctionOnSet(f, t \ {y})}
<1>1. SUFFICES ASSUME Bad # {} PROVE FALSE
  OBVIOUS
<1>2. PICK m \in Bad : \A t \in Bad : t \subseteq m => t = m
  <2>1. Bad \subseteq SUBSET S
    OBVIOUS
  <2> HIDE DEF Bad
  <2> QED BY <1>1, <2>1, MinimalSubset
<1>3. PICK y \in m : SumFunctionOnSet(f, m) # f[y] + SumFunctionOnSet(f, m \ {y})
  BY <1>2
<1> DEFINE x == CHOOSE x \in m : TRUE
<1>4. m \subseteq S /\ IsFiniteSet(m) /\ x \in m
  BY <1>2, <1>3, FS_Subset
<1>5. SumFunctionOnSet(f, m) = f[x] + SumFunctionOnSet(f, m \ {x})
  BY <1>3, <1>4, SumRecursion
<1> HIDE DEF x
<1>6. x # y
  BY <1>3, <1>5
<1> DEFINE rest == (m \ {x}) \ {y}
<1>7. /\ SumFunctionOnSet(f, m \ {x}) = f[y] + SumFunctionOnSet(f, rest)
      /\ SumFunctionOnSet(f, m \ {y}) = f[x] + SumFunctionOnSet(f, rest)
  <2>1. \A t \in SUBSET m : \A z \in t :
          t # m => SumFunctionOnSet(f, t) = f[z] + SumFunctionOnSet(f, t \ {z})
    BY <1>2, <1>4
  <2>2. /\ m \ {x} \in SUBSET m /\ m \ {x} # m /\ y \in m \ {x}
        /\ m \ {y} \in SUBSET m /\ m \ {y} # m /\ x \in m \ {y}
        /\ (m \ {y}) \ {x} = rest
    BY <1>3, <1>4, <1>6
  <2> HIDE DEF rest, Bad
  <2>3. SumFunctionOnSet(f, m \ {x}) = f[y] + SumFunctionOnSet(f, (m \ {x}) \ {y})
    BY <2>1, <2>2
  <2>4. SumFunctionOnSet(f, m \ {y}) = f[x] + SumFunctionOnSet(f, (m \ {y}) \ {x})
    BY <2>1, <2>2
  <2> QED BY <2>2, <2>3, <2>4 DEF rest
<1>8. f[x] \in Int /\ f[y] \in Int /\ SumFunctionOnSet(f, rest) \in Int
  BY <1>3, <1>4, SumIsInt, FS_Subset
<1> HIDE DEF rest
<1> QED BY <1>3, <1>5, <1>7, <1>8

\* Only what is summed up matters.
THEOREM SumOfSame ==
  ASSUME NEW S, IsFiniteSet(S), NEW f, NEW g, \A x \in S : f[x] = g[x]
  PROVE  SumFunctionOnSet(f, S) = SumFunctionOnSet(g, S)
<1> DEFINE Bad == {t \in SUBSET S : SumFunctionOnSet(f, t) # SumFunctionOnSet(g, t)}
<1>1. SUFFICES ASSUME Bad # {} PROVE FALSE
  OBVIOUS
<1>2. PICK m \in Bad : \A t \in Bad : t \subseteq m => t = m
  <2>1. Bad \subseteq SUBSET S
    OBVIOUS
  <2> HIDE DEF Bad
  <2> QED BY <1>1, <2>1, MinimalSubset
<1> DEFINE x == CHOOSE x \in m : TRUE
<1>3. m \subseteq S /\ IsFiniteSet(m) /\ SumFunctionOnSet(f, m) # SumFunctionOnSet(g, m)
  BY <1>2, FS_Subset
<1>4. m # {}
  BY <1>3, SumOfNothing
<1>5. x \in m
  BY <1>4
<1>6. /\ SumFunctionOnSet(f, m) = f[x] + SumFunctionOnSet(f, m \ {x})
      /\ SumFunctionOnSet(g, m) = g[x] + SumFunctionOnSet(g, m \ {x})
  BY <1>3, <1>4, SumRecursion
<1>7. SumFunctionOnSet(f, m \ {x}) = SumFunctionOnSet(g, m \ {x})
  BY <1>2, <1>3, <1>5
<1> QED BY <1>3, <1>5, <1>6, <1>7

\* A change of one summand changes the sum.
THEOREM SumOfChange ==
  ASSUME NEW S, IsFiniteSet(S), NEW f, NEW g, NEW k \in S, NEW d \in Int,
         \A x \in S : f[x] \in Int,
         g[k] = f[k] + d, \A x \in S \ {k} : g[x] = f[x]
  PROVE  SumFunctionOnSet(g, S) = SumFunctionOnSet(f, S) + d
<1>1. IsFiniteSet(S \ {k})
  BY FS_Subset
<1>2. SumFunctionOnSet(g, S \ {k}) = SumFunctionOnSet(f, S \ {k})
  BY <1>1, SumOfSame
<1>3. /\ SumFunctionOnSet(f, S) = f[k] + SumFunctionOnSet(f, S \ {k})
      /\ SumFunctionOnSet(g, S) = g[k] + SumFunctionOnSet(g, S \ {k})
      /\ f[k] \in Int /\ SumFunctionOnSet(f, S \ {k}) \in Int
  <2>1. \A x \in S : g[x] \in Int
    OBVIOUS
  <2> QED BY <1>1, <2>1, SumWithout, SumIsInt
<1> QED BY <1>2, <1>3

\* Sums grow with what is summed up.
THEOREM SumIsMonotone ==
  ASSUME NEW S, IsFiniteSet(S), NEW f, NEW g,
         \A x \in S : f[x] \in Int /\ g[x] \in Int /\ f[x] <= g[x]
  PROVE  SumFunctionOnSet(f, S) <= SumFunctionOnSet(g, S)
<1> DEFINE Bad == {t \in SUBSET S : ~(SumFunctionOnSet(f, t) <= SumFunctionOnSet(g, t))}
<1>1. SUFFICES ASSUME Bad # {} PROVE FALSE
  OBVIOUS
<1>2. PICK m \in Bad : \A t \in Bad : t \subseteq m => t = m
  <2>1. Bad \subseteq SUBSET S
    OBVIOUS
  <2> HIDE DEF Bad
  <2> QED BY <1>1, <2>1, MinimalSubset
<1> DEFINE x == CHOOSE x \in m : TRUE
           r == m \ {x}
<1>3. m \subseteq S /\ IsFiniteSet(m) /\ ~(SumFunctionOnSet(f, m) <= SumFunctionOnSet(g, m))
  BY <1>2, FS_Subset
<1>4. m # {}
  BY <1>3, SumOfNothing
<1>5. x \in m /\ r # m /\ r \subseteq m
  BY <1>4
<1>6. /\ SumFunctionOnSet(f, m) = f[x] + SumFunctionOnSet(f, r)
      /\ SumFunctionOnSet(g, m) = g[x] + SumFunctionOnSet(g, r)
  BY <1>3, <1>4, SumRecursion
<1>7. /\ SumFunctionOnSet(f, r) <= SumFunctionOnSet(g, r)
      /\ SumFunctionOnSet(f, r) \in Int /\ SumFunctionOnSet(g, r) \in Int
  <2> HIDE DEF x
  <2>1. IsFiniteSet(r) /\ r \subseteq S
    BY <1>3, FS_Subset
  <2>2. SumFunctionOnSet(f, r) \in Int /\ SumFunctionOnSet(g, r) \in Int
    <3> HIDE DEF r
    <3> QED BY <2>1, SumIsInt
  <2> QED BY <1>2, <1>5, <2>1, <2>2
<1>8. f[x] \in Int /\ g[x] \in Int /\ f[x] <= g[x]
  BY <1>3, <1>5
<1> HIDE DEF x, r
<1> QED BY <1>3, <1>6, <1>7, <1>8

\* Zeros add up to 0.
THEOREM SumOfZeros ==
  ASSUME NEW S, IsFiniteSet(S), NEW f, \A x \in S : f[x] = 0
  PROVE  SumFunctionOnSet(f, S) = 0
<1> DEFINE Bad == {t \in SUBSET S : SumFunctionOnSet(f, t) # 0}
<1>1. SUFFICES ASSUME Bad # {} PROVE FALSE
  OBVIOUS
<1>2. PICK m \in Bad : \A t \in Bad : t \subseteq m => t = m
  <2>1. Bad \subseteq SUBSET S
    OBVIOUS
  <2> HIDE DEF Bad
  <2> QED BY <1>1, <2>1, MinimalSubset
<1> DEFINE x == CHOOSE x \in m : TRUE
<1>3. m \subseteq S /\ IsFiniteSet(m) /\ SumFunctionOnSet(f, m) # 0
  BY <1>2, FS_Subset
<1>4. x \in m /\ SumFunctionOnSet(f, m) = f[x] + SumFunctionOnSet(f, m \ {x})
  BY <1>3, SumOfNothing, SumRecursion
<1>5. SumFunctionOnSet(f, m \ {x}) = 0
  BY <1>2, <1>3, <1>4
<1> QED BY <1>3, <1>4, <1>5

\* A summand is at most the sum of naturals.
THEOREM SummandIsAtMostSum ==
  ASSUME NEW S, IsFiniteSet(S), NEW f, \A x \in S : f[x] \in Nat, NEW k \in S
  PROVE  f[k] <= SumFunctionOnSet(f, S) /\ SumFunctionOnSet(f, S) \in Nat
<1> DEFINE zero == [x \in S |-> 0]
<1>1. IsFiniteSet(S \ {k})
  BY FS_Subset
<1>2. SumFunctionOnSet(zero, S \ {k}) <= SumFunctionOnSet(f, S \ {k})
  BY <1>1, SumIsMonotone
<1>3. SumFunctionOnSet(zero, S \ {k}) = 0
  BY <1>1, SumOfZeros
<1>4. /\ SumFunctionOnSet(f, S) = f[k] + SumFunctionOnSet(f, S \ {k})
      /\ SumFunctionOnSet(f, S \ {k}) \in Int
  BY <1>1, SumWithout, SumIsInt
<1> QED BY <1>2, <1>3, <1>4

\* Naturals have a natural sum.
THEOREM SumIsNat ==
  ASSUME NEW S, IsFiniteSet(S), NEW f, \A x \in S : f[x] \in Nat
  PROVE  SumFunctionOnSet(f, S) \in Nat
<1> DEFINE zero == [x \in S |-> 0]
<1>1. SumFunctionOnSet(zero, S) <= SumFunctionOnSet(f, S)
  BY SumIsMonotone
<1>2. SumFunctionOnSet(zero, S) = 0 /\ SumFunctionOnSet(f, S) \in Int
  BY SumOfZeros, SumIsInt
<1> QED BY <1>1, <1>2

\* A sum may be taken over two parts of its set.
THEOREM SumOfParts ==
  ASSUME NEW S, IsFiniteSet(S), NEW f, \A x \in S : f[x] \in Int, NEW T \in SUBSET S
  PROVE  SumFunctionOnSet(f, S) = SumFunctionOnSet(f, T) + SumFunctionOnSet(f, S \ T)
<1> DEFINE Bad == {t \in SUBSET S :
                     SumFunctionOnSet(f, S)
                       # SumFunctionOnSet(f, t) + SumFunctionOnSet(f, S \ t)}
<1>1. SUFFICES ASSUME Bad # {} PROVE FALSE
  OBVIOUS
<1>2. PICK m \in Bad : \A t \in Bad : t \subseteq m => t = m
  <2>1. Bad \subseteq SUBSET S
    OBVIOUS
  <2> HIDE DEF Bad
  <2> QED BY <1>1, <2>1, MinimalSubset
<1>3. /\ m \subseteq S /\ IsFiniteSet(m) /\ IsFiniteSet(S \ m)
      /\ SumFunctionOnSet(f, S) # SumFunctionOnSet(f, m) + SumFunctionOnSet(f, S \ m)
  BY <1>2, FS_Subset
<1>4. m # {}
  <2>1. SumFunctionOnSet(f, {}) = 0 /\ SumFunctionOnSet(f, S) \in Int
    BY SumOfNothing, SumIsInt
  <2>2. ASSUME m = {} PROVE FALSE
    <3>1. S \ m = S
      BY <2>2
    <3>2. SumFunctionOnSet(f, S \ m) = SumFunctionOnSet(f, S)
      BY <3>1
    <3> HIDE DEF Bad
    <3> QED BY <1>3, <2>1, <2>2, <3>2
  <2> QED BY <2>2
<1>5. PICK x \in m : TRUE
  BY <1>4
<1> DEFINE r == m \ {x}
           u == S \ r
<1>6. /\ r \subseteq m /\ r # m /\ r \in SUBSET S /\ x \in u /\ u \ {x} = S \ m
      /\ IsFiniteSet(u) /\ IsFiniteSet(r)
  <2>1. r \subseteq S /\ u \subseteq S
    BY <1>3
  <2>2. IsFiniteSet(r) /\ IsFiniteSet(u)
    BY <2>1, FS_Subset
  <2> QED BY <1>3, <2>1, <2>2
<1>7. SumFunctionOnSet(f, S) = SumFunctionOnSet(f, r) + SumFunctionOnSet(f, u)
  <2>1. r \notin Bad
    BY <1>2, <1>6
  <2> QED BY <2>1, <1>6
<1>8. /\ SumFunctionOnSet(f, m) = f[x] + SumFunctionOnSet(f, r)
      /\ SumFunctionOnSet(f, u) = f[x] + SumFunctionOnSet(f, u \ {x})
  <2>1. \A y \in m : f[y] \in Int
    BY <1>3
  <2>2. \A y \in u : f[y] \in Int
    OBVIOUS
  <2> HIDE DEF u, Bad
  <2> QED BY <1>3, <1>6, <2>1, <2>2, SumWithout
<1>9. /\ f[x] \in Int /\ SumFunctionOnSet(f, r) \in Int
      /\ SumFunctionOnSet(f, S \ m) \in Int
  <2>1. \A y \in r : f[y] \in Int
    BY <1>3
  <2>2. \A y \in S \ m : f[y] \in Int
    OBVIOUS
  <2> HIDE DEF r, u, Bad
  <2> QED BY <1>3, <1>6, <2>1, <2>2, SumIsInt
<1> HIDE DEF r, u, Bad
<1>10. SumFunctionOnSet(f, u) = f[x] + SumFunctionOnSet(f, S \ m)
  BY <1>6, <1>8
<1> QED BY <1>3, <1>7, <1>8, <1>9, <1>10

\* A function from a non-empty finite set to the integers has a least value.
THEOREM LeastValue ==
  ASSUME NEW S, IsFiniteSet(S), S # {}, NEW f, \A x \in S : f[x] \in Int
  PROVE  \E n \in S : \A k \in S : f[n] <= f[k]
<1> DEFINE Below(i) == {j \in S : f[j] <= f[i]}
           Bad == {Below(i) : i \in S}
<1>1. \E m \in Bad : \A t \in Bad : t \subseteq m => t = m
  <2>1. Bad \subseteq SUBSET S
    OBVIOUS
  <2>2. Bad # {}
    OBVIOUS
  <2> HIDE DEF Bad
  <2> QED BY ONLY <2>1, <2>2, IsFiniteSet(S), MinimalSubset
<1> PICK m \in Bad : \A t \in Bad : t \subseteq m => t = m
  BY <1>1
<1>2. PICK n \in S : m = Below(n)
  OBVIOUS
<1>3. ASSUME NEW k \in S, f[k] < f[n] PROVE FALSE
  <2>1. Below(k) \subseteq Below(n) /\ n \in Below(n) /\ n \notin Below(k)
    <3>1. \A j \in S : f[j] <= f[k] => f[j] <= f[n]
      BY <1>3
    <3>2. f[n] <= f[n] /\ ~(f[n] <= f[k])
      BY <1>3
    <3> QED BY <3>1, <3>2
  <2>2. Below(k) \in Bad
    OBVIOUS
  <2> HIDE DEF Bad, Below
  <2> QED BY <1>1, <1>2, <2>1, <2>2
<1> QED BY <1>3

\* A non-empty finite set of integers has a greatest element.
THEOREM GreatestElement ==
  ASSUME NEW S, IsFiniteSet(S), S \subseteq Int, S # {}
  PROVE  \E n \in S : \A k \in S : k <= n
<1> DEFINE f == [x \in S |-> -x]
<1>1. \A x \in S : f[x] = -x /\ f[x] \in Int /\ x \in Int
  OBVIOUS
<1> HIDE DEF f
<1>2. PICK n \in S : \A k \in S : f[n] <= f[k]
  BY <1>1, LeastValue
<1> QED BY <1>1, <1>2
-----------------------------------------------------------------------------
(* Sequences *)

\* A set of numbers up to n that is not empty has a least one.
LEMMA LeastNumber ==
  ASSUME NEW n \in Nat, NEW B \in SUBSET (0..n), B # {}
  PROVE  \E m \in B : \A k \in B : m <= k
<1> DEFINE f == [k \in B |-> k]
<1>1. IsFiniteSet(B)
  <2>1. IsFiniteSet(0..n)
    BY FS_Interval
  <2> QED BY <2>1, FS_Subset
<1>2. \A k \in B : f[k] = k /\ f[k] \in Int
  OBVIOUS
<1> HIDE DEF f
<1>3. PICK m \in B : \A k \in B : f[m] <= f[k]
  BY <1>1, <1>2, LeastValue
<1> QED BY <1>2, <1>3

\* What Only has collected from the first n elements.
Collects(g, s, S, m) ==
  /\ g = [n \in 0..m |-> g[n]]
  /\ \A n \in 0..m :
       g[n] = IF n = 0 THEN <<>>
              ELSE IF s[n] \in S THEN Append(g[n - 1], s[n]) ELSE g[n - 1]

\* The recursive function in Only exists.
LEMMA CollectionExists ==
  ASSUME NEW s, NEW S, NEW n \in Nat
  PROVE  \E g : Collects(g, s, S, n)
<1> DEFINE B == {m \in 0..n : ~ \E g : Collects(g, s, S, m)}
<1>1. SUFFICES ASSUME B # {} PROVE FALSE
  OBVIOUS
<1>2. PICK m \in B : \A k \in B : m <= k
  <2> HIDE DEF B
  <2>1. B \in SUBSET (0..n)
    BY DEF B
  <2> QED BY <1>1, <2>1, LeastNumber
<1>3. CASE m = 0
  <2>1. Collects([k \in 0..0 |-> <<>>], s, S, 0)
    BY DEF Collects
  <2> QED BY <1>3, <2>1
<1>4. CASE m # 0
  <2>1. m - 1 \in 0..n /\ m - 1 \notin B
    BY <1>2, <1>4
  <2>2. PICK g : Collects(g, s, S, m - 1)
    BY <2>1
  <2> DEFINE h == [k \in 0..m |->
                     IF k = m THEN IF s[m] \in S THEN Append(g[m - 1], s[m]) ELSE g[m - 1]
                     ELSE g[k]]
  <2>3. m \in Nat /\ m - 1 \in Nat
    BY <1>4
  <2>4. \A k \in 0..m - 1 : k \in 0..m /\ k # m /\ h[k] = g[k]
    BY <2>3
  <2>5. h[m] = IF s[m] \in S THEN Append(h[m - 1], s[m]) ELSE h[m - 1]
    <3>1. h[m] = IF s[m] \in S THEN Append(g[m - 1], s[m]) ELSE g[m - 1]
      BY <2>3
    <3>2. h[m - 1] = g[m - 1]
      BY <2>3, <2>4
    <3> QED BY <3>1, <3>2
  <2>6. h = [k \in 0..m |-> h[k]]
    OBVIOUS
  <2> HIDE DEF h
  <2>7. \A k \in 0..m :
          h[k] = IF k = 0 THEN <<>>
                 ELSE IF s[k] \in S THEN Append(h[k - 1], s[k]) ELSE h[k - 1]
    <3> TAKE k \in 0..m
    <3>1. CASE k = m
      BY <3>1, <2>5, <1>4
    <3>2. CASE k # m
      <4>1. k \in 0..m - 1 /\ (k # 0 => k - 1 \in 0..m - 1)
        BY <3>2, <2>3
      <4>2. g[k] = IF k = 0 THEN <<>>
                   ELSE IF s[k] \in S THEN Append(g[k - 1], s[k]) ELSE g[k - 1]
        BY <4>1, <2>2 DEF Collects
      <4>3. h[k] = g[k] /\ (k # 0 => h[k - 1] = g[k - 1])
        BY <4>1, <2>4
      <4> QED BY <4>2, <4>3
    <3> QED BY <3>1, <3>2
  <2>8. Collects(h, s, S, m)
    BY <2>6, <2>7 DEF Collects
  <2> QED BY <2>8
<1> QED BY <1>3, <1>4

\* Only is the last entry of such a table.
LEMMA OnlyCollects ==
  ASSUME NEW T, NEW s \in Seq(T), NEW S
  PROVE  \E g : Collects(g, s, S, Len(s)) /\ Only(s, S) = g[Len(s)]
<1> DEFINE Table(g) == g = [n \in 0..Len(s) |->
                              IF n = 0 THEN <<>>
                              ELSE IF s[n] \in S THEN Append(g[n - 1], s[n]) ELSE g[n - 1]]
<1>1. Only(s, S) = (CHOOSE g : Table(g))[Len(s)]
  BY DEF Only
<1>2. Len(s) \in Nat
  OBVIOUS
<1>3. \E g : Table(g)
  <2>1. PICK g : Collects(g, s, S, Len(s))
    BY <1>2, CollectionExists
  <2>2. Table(g)
    BY <2>1 DEF Collects
  <2> QED BY <2>2
<1>4. Table(CHOOSE g : Table(g))
  BY <1>3
<1> DEFINE c == CHOOSE g : Table(g)
<1>5. Collects(c, s, S, Len(s))
  <2> HIDE DEF c
  <2>1. c = [n \in 0..Len(s) |->
               IF n = 0 THEN <<>>
               ELSE IF s[n] \in S THEN Append(c[n - 1], s[n]) ELSE c[n - 1]]
    BY <1>4 DEF c
  <2>2. DOMAIN c = 0..Len(s) /\ c = [n \in DOMAIN c |-> c[n]]
    BY <2>1
  <2> QED BY <2>1, <2>2 DEF Collects
<1> QED BY <1>1, <1>5

\* Only keeps exactly the elements in S, and repeats none that s does not repeat.
LEMMA OnlyKeeps ==
  ASSUME NEW T, NEW s \in Seq(T), NEW S
  PROVE  /\ Only(s, S) \in Seq(T)
         /\ Range(Only(s, S)) = Range(s) \cap S
         /\ IsInjective(s) => IsInjective(Only(s, S))
<1>1. PICK g : Collects(g, s, S, Len(s)) /\ Only(s, S) = g[Len(s)]
  BY OnlyCollects
<1> DEFINE Kept(n) ==
             /\ g[n] \in Seq(T)
             /\ \A x : (\E i \in 1..Len(g[n]) : g[n][i] = x)
                         <=> x \in S /\ \E k \in 1..n : s[k] = x
             /\ IsInjective(s) =>
                  \A i, j \in 1..Len(g[n]) : g[n][i] = g[n][j] => i = j
           B == {n \in 0..Len(s) : ~Kept(n)}
<1>2. Len(s) \in Nat /\ DOMAIN s = 1..Len(s) /\ \A k \in 1..Len(s) : s[k] \in T
  OBVIOUS
<1>3. B = {}
  <2> SUFFICES ASSUME B # {} PROVE FALSE
    OBVIOUS
  <2>1. PICK m \in B : \A k \in B : m <= k
    <3> HIDE DEF B
    <3>1. B \in SUBSET (0..Len(s))
      BY DEF B
    <3> QED BY <1>2, <3>1, LeastNumber
  <2>2. m # 0
    <3>1. g[0] = <<>>
      BY <1>1, <1>2 DEF Collects
    <3>2. Kept(0)
      BY <3>1
    <3> QED BY <3>2, <2>1
  <2> DEFINE p == g[m - 1]
  <2>3. m \in 1..Len(s) /\ m - 1 \in 0..Len(s) /\ m - 1 \notin B
    <3> HIDE DEF Kept
    <3>1. m \in 0..Len(s) /\ \A k \in B : m <= k
      BY <2>1
    <3> HIDE DEF B
    <3> QED BY <3>1, <2>2, <1>2
  <2>4. Kept(m - 1)
    BY <2>3
  <2>5. g[m] = IF s[m] \in S THEN Append(p, s[m]) ELSE p
    BY <1>1, <2>2, <2>3 DEF Collects
  <2>6. \A k : k \in 1..m <=> k \in 1..m - 1 \/ k = m
    BY <2>3
  <2>7. CASE s[m] \notin S
    <3>1. g[m] = p
      BY <2>5, <2>7
    <3> HIDE DEF p
    <3>2. \A x : (x \in S /\ \E k \in 1..m : s[k] = x)
                   <=> (x \in S /\ \E k \in 1..m - 1 : s[k] = x)
      BY <2>6, <2>7
    <3>3. Kept(m)
      BY <3>1, <3>2, <2>4 DEF p
    <3> QED BY <3>3, <2>1
  <2>8. CASE s[m] \in S
    <3>1. g[m] = Append(p, s[m]) /\ p \in Seq(T) /\ s[m] \in T
      BY <2>5, <2>8, <2>4, <2>3, <1>2
    <3>2. \A x : (\E i \in 1..Len(p) : p[i] = x) <=> x \in S /\ \E k \in 1..m - 1 : s[k] = x
      BY <2>4
    <3>3. IsInjective(s) => \A i, j \in 1..Len(p) : p[i] = p[j] => i = j
      BY <2>4
    <3> HIDE DEF p, Kept
    <3>4. /\ g[m] \in Seq(T) /\ Len(g[m]) = Len(p) + 1 /\ Len(p) \in Nat
          /\ \A i \in 1..Len(p) : g[m][i] = p[i]
          /\ g[m][Len(p) + 1] = s[m]
      BY <3>1
    <3>5. \A i : i \in 1..Len(g[m]) <=> i \in 1..Len(p) \/ i = Len(p) + 1
      BY <3>4
    <3>6. \A x : (\E i \in 1..Len(g[m]) : g[m][i] = x)
                   <=> x \in S /\ \E k \in 1..m : s[k] = x
      <4> TAKE x
      <4>1. (\E i \in 1..Len(g[m]) : g[m][i] = x) <=> (\E i \in 1..Len(p) : p[i] = x) \/ s[m] = x
        BY <3>4, <3>5
      <4>2. (\E k \in 1..m : s[k] = x) <=> (\E k \in 1..m - 1 : s[k] = x) \/ s[m] = x
        BY <2>6
      <4> QED BY <4>1, <4>2, <3>2, <2>8
    <3>7. ASSUME IsInjective(s), NEW i \in 1..Len(g[m]), NEW j \in 1..Len(g[m]),
                 g[m][i] = g[m][j]
          PROVE  i = j
      <4>1. \A k \in 1..m - 1 : s[k] # s[m]
        BY <3>7, <2>3, <1>2 DEF IsInjective
      <4>2. \A k \in 1..Len(p) : p[k] # s[m]
        BY <3>2, <4>1
      <4> QED BY <3>7, <3>3, <3>4, <3>5, <4>2
    <3>8. Kept(m)
      BY <3>4, <3>6, <3>7 DEF Kept
    <3> QED BY <3>8, <2>1
  <2> QED BY <2>7, <2>8
<1>4. Kept(Len(s))
  <2> HIDE DEF Kept
  <2>1. Len(s) \in 0..Len(s) /\ Len(s) \notin B
    <3> HIDE DEF B
    <3> QED BY <1>2, <1>3
  <2> QED BY <2>1
<1>5. Only(s, S) \in Seq(T)
  BY <1>1, <1>4
<1>6. DOMAIN Only(s, S) = 1..Len(Only(s, S))
  BY <1>5
<1>7. \A x : x \in Range(Only(s, S)) <=> x \in Range(s) /\ x \in S
  <2> TAKE x
  <2>1. x \in Range(Only(s, S)) <=> \E i \in 1..Len(Only(s, S)) : Only(s, S)[i] = x
    BY <1>6 DEF Range
  <2>2. x \in Range(s) <=> \E k \in 1..Len(s) : s[k] = x
    BY <1>2 DEF Range
  <2> QED BY <2>1, <2>2, <1>1, <1>4
<1>8. IsInjective(s) => IsInjective(Only(s, S))
  BY <1>1, <1>4, <1>6 DEF IsInjective
<1> QED BY <1>5, <1>7, <1>8

\* Append adds one element.
LEMMA RangeOfAppend ==
  ASSUME NEW T, NEW s \in Seq(T), NEW x \in T
  PROVE  /\ Range(Append(s, x)) = Range(s) \cup {x}
         /\ IsInjective(s) /\ x \notin Range(s) => IsInjective(Append(s, x))
<1>1. /\ Len(s) \in Nat /\ DOMAIN s = 1..Len(s)
      /\ DOMAIN Append(s, x) = 1..Len(s) + 1
      /\ \A i \in 1..Len(s) : Append(s, x)[i] = s[i]
      /\ Append(s, x)[Len(s) + 1] = x
  OBVIOUS
<1>2. \A i : i \in 1..Len(s) + 1 <=> i \in 1..Len(s) \/ i = Len(s) + 1
  BY <1>1
<1> DEFINE a == Append(s, x)
<1>3. \A y : y \in Range(a) <=> y \in Range(s) \/ y = x
  <2> HIDE DEF a
  <2>1. \A y : y \in Range(a) <=> \E i \in 1..Len(s) + 1 : a[i] = y
    BY <1>1 DEF Range, a
  <2>2. \A y : y \in Range(s) <=> \E i \in 1..Len(s) : s[i] = y
    BY <1>1 DEF Range
  <2> QED BY <1>1, <1>2, <2>1, <2>2 DEF a
<1>4. IsInjective(s) /\ x \notin Range(s) => IsInjective(a)
  BY <1>1, <1>2 DEF IsInjective, Range
<1> QED BY <1>3, <1>4

\* Concatenation unites the elements.
LEMMA RangeOfConcat ==
  ASSUME NEW T, NEW s \in Seq(T), NEW t \in Seq(T)
  PROVE  /\ s \o t \in Seq(T)
         /\ Range(s \o t) = Range(s) \cup Range(t)
         /\ IsInjective(s) /\ IsInjective(t) /\ Range(s) \cap Range(t) = {}
              => IsInjective(s \o t)
<1>1. /\ Len(s) \in Nat /\ DOMAIN s = 1..Len(s)
      /\ Len(t) \in Nat /\ DOMAIN t = 1..Len(t)
      /\ DOMAIN (s \o t) = 1..Len(s) + Len(t)
      /\ \A i \in 1..Len(s) : (s \o t)[i] = s[i]
      /\ \A i \in 1..Len(s) + Len(t) : i > Len(s) => (s \o t)[i] = t[i - Len(s)]
  OBVIOUS
<1>2. \A i \in 1..Len(s) + Len(t) : i \in 1..Len(s) \/ (i > Len(s) /\ i - Len(s) \in 1..Len(t))
  <2>1. ASSUME NEW m \in Nat, NEW n \in Nat, NEW i \in 1..m + n
        PROVE  i \in 1..m \/ (i > m /\ i - m \in 1..n)
    <3>1. i \in Int /\ 1 <= i /\ i <= m + n
      BY <2>1
    <3>2. CASE i <= m
      BY <3>1, <3>2
    <3>3. CASE i > m
      BY <3>1, <3>3
    <3> QED BY <3>1, <3>2, <3>3
  <2> QED BY <1>1, <2>1
<1>3. /\ \A i \in 1..Len(s) : i \in 1..Len(s) + Len(t)
      /\ \A j \in 1..Len(t) : /\ j + Len(s) \in 1..Len(s) + Len(t) /\ j + Len(s) > Len(s)
                              /\ (j + Len(s)) - Len(s) = j
  BY <1>1
<1>4. \A y : y \in Range(s \o t) <=> y \in Range(s) \/ y \in Range(t)
  <2> TAKE y
  <2>1. ASSUME y \in Range(s \o t) PROVE y \in Range(s) \/ y \in Range(t)
    BY <2>1, <1>1, <1>2 DEF Range
  <2>2. ASSUME y \in Range(s) PROVE y \in Range(s \o t)
    BY <2>2, <1>1, <1>3 DEF Range
  <2>3. ASSUME y \in Range(t) PROVE y \in Range(s \o t)
    <3>1. PICK j \in 1..Len(t) : t[j] = y
      BY <2>3, <1>1 DEF Range
    <3>2. (s \o t)[j + Len(s)] = y
      BY <3>1, <1>1, <1>3
    <3> QED BY <3>1, <3>2, <1>1, <1>3 DEF Range
  <2> QED BY <2>1, <2>2, <2>3
<1>5. ASSUME IsInjective(s), IsInjective(t), Range(s) \cap Range(t) = {},
             NEW i \in 1..Len(s) + Len(t), NEW j \in 1..Len(s) + Len(t),
             (s \o t)[i] = (s \o t)[j]
      PROVE  i = j
  <2>1. \A m \in 1..Len(s), n \in 1..Len(t) : s[m] # t[n]
    BY <1>5, <1>1 DEF Range
  <2>2. CASE i \in 1..Len(s) /\ j \in 1..Len(s)
    BY <2>2, <1>5, <1>1 DEF IsInjective
  <2>3. CASE i > Len(s) /\ j > Len(s)
    <3>1. i - Len(s) = j - Len(s)
      BY <2>3, <1>5, <1>1, <1>2 DEF IsInjective
    <3> QED BY <3>1, <1>1
  <2>4. CASE i \in 1..Len(s) /\ j > Len(s)
    BY <2>4, <2>1, <1>5, <1>1, <1>2
  <2>5. CASE i > Len(s) /\ j \in 1..Len(s)
    BY <2>5, <2>1, <1>5, <1>1, <1>2
  <2> QED BY <1>2, <2>2, <2>3, <2>4, <2>5
<1>6. IsInjective(s) /\ IsInjective(t) /\ Range(s) \cap Range(t) = {} => IsInjective(s \o t)
  BY <1>1, <1>5 DEF IsInjective
<1> QED BY <1>4, <1>6

\* Tail takes away the head, if nothing is repeated.
LEMMA TailRange ==
  ASSUME NEW T, NEW s \in Seq(T), s # <<>>, IsInjective(s)
  PROVE  /\ Tail(s) \in Seq(T) /\ IsInjective(Tail(s))
         /\ Head(s) \in Range(s) /\ Head(s) \in T
         /\ Range(Tail(s)) = Range(s) \ {Head(s)}
<1>1. /\ Len(s) \in Nat \ {0} /\ DOMAIN s = 1..Len(s) /\ Head(s) = s[1]
      /\ Tail(s) \in Seq(T) /\ DOMAIN Tail(s) = 1..Len(s) - 1
      /\ \A i \in 1..Len(s) - 1 : Tail(s)[i] = s[i + 1] /\ i + 1 \in 1..Len(s)
      /\ \A i \in 1..Len(s) : i # 1 => i - 1 \in 1..Len(s) - 1 /\ Tail(s)[i - 1] = s[i]
  OBVIOUS
<1>2. 1 \in 1..Len(s) /\ s[1] \in T
  BY <1>1
<1> DEFINE t == Tail(s)
<1>3. IsInjective(t)
  <2> SUFFICES ASSUME NEW i \in 1..Len(s) - 1, NEW j \in 1..Len(s) - 1, t[i] = t[j]
               PROVE  i = j
    BY <1>1 DEF IsInjective
  <2>1. i + 1 = j + 1
    BY <1>1 DEF IsInjective
  <2> QED BY <2>1, <1>1
<1>4. \A x : x \in Range(t) <=> x \in Range(s) /\ x # Head(s)
  <2> TAKE x
  <2>1. ASSUME x \in Range(t) PROVE x \in Range(s) /\ x # Head(s)
    <3>1. PICK i \in 1..Len(s) - 1 : t[i] = x
      BY <2>1, <1>1 DEF Range
    <3>2. s[i + 1] = x /\ i + 1 \in 1..Len(s) /\ i + 1 # 1
      BY <3>1, <1>1
    <3> QED BY <3>2, <1>1, <1>2 DEF Range, IsInjective
  <2>2. ASSUME x \in Range(s), x # Head(s) PROVE x \in Range(t)
    <3>1. PICK i \in 1..Len(s) : s[i] = x
      BY <2>2, <1>1 DEF Range
    <3>2. i # 1
      BY <3>1, <2>2, <1>1
    <3>3. i - 1 \in DOMAIN t /\ t[i - 1] = x
      BY <3>1, <3>2, <1>1
    <3> HIDE DEF t
    <3> QED BY <3>3 DEF Range
  <2> QED BY <2>1, <2>2
<1> QED BY <1>1, <1>2, <1>3, <1>4 DEF Range

-----------------------------------------------------------------------------
(* What a filter keeps of the beginning of a list, and of a new front *)

\* Every number up to n is reached step by step.
LEMMA NumbersReached ==
  ASSUME NEW n \in Nat, NEW A, 0 \in A, \A k \in 0..n : k # n /\ k \in A => k + 1 \in A
  PROVE  \A k \in 0..n : k \in A
<1> DEFINE B == {k \in 0..n : k \notin A}
<1>1. SUFFICES ASSUME B # {} PROVE FALSE
  OBVIOUS
<1>2. PICK m \in B : \A k \in B : m <= k
  <2>1. B \in SUBSET (0..n)
    OBVIOUS
  <2> HIDE DEF B
  <2> QED BY <1>1, <2>1, LeastNumber
<1>3. m \in 0..n /\ m \notin A /\ m # 0
  BY <1>2
<1>4. m - 1 \in 0..n /\ m - 1 # n /\ m - 1 \notin B /\ (m - 1) + 1 = m
  BY <1>2, <1>3
<1> QED BY <1>3, <1>4

\* What was collected first depends on the first elements only.
LEMMA TablesAgree ==
  ASSUME NEW S, NEW s, NEW t, NEW g, NEW h, NEW m \in Nat, NEW l \in Nat, NEW n \in Nat,
         n <= m, n <= l, Collects(g, s, S, m), Collects(h, t, S, l),
         \A k \in 1..n : s[k] = t[k]
  PROVE  g[n] = h[n]
<1> DEFINE A == {k \in 0..n : g[k] = h[k]}
<1>1. 0 \in A
  <2>1. 0 \in 0..n /\ 0 \in 0..m /\ 0 \in 0..l
    OBVIOUS
  <2>2. g[0] = <<>> /\ h[0] = <<>>
    BY <2>1 DEF Collects
  <2> QED BY <2>1, <2>2
<1>2. ASSUME NEW k \in 0..n, k # n, k \in A PROVE k + 1 \in A
  <2>1. /\ k + 1 \in 0..m /\ k + 1 \in 0..l /\ k + 1 \in 1..n /\ k + 1 \in 0..n
        /\ k + 1 # 0 /\ (k + 1) - 1 = k
    BY <1>2
  <2>2. s[k + 1] = t[k + 1] /\ g[k] = h[k]
    BY <1>2, <2>1
  <2>3. g[k + 1] = IF s[k + 1] \in S THEN Append(g[k], s[k + 1]) ELSE g[k]
    BY <2>1 DEF Collects
  <2>4. h[k + 1] = IF t[k + 1] \in S THEN Append(h[k], t[k + 1]) ELSE h[k]
    BY <2>1 DEF Collects
  <2>5. g[k + 1] = h[k + 1]
    BY <2>2, <2>3, <2>4
  <2> QED BY <2>1, <2>5
<1> HIDE DEF A
<1>3. \A k \in 0..n : k \in A
  BY <1>1, <1>2, NumbersReached
<1> QED BY <1>3 DEF A

\* The sequence s begins with p.
Begins(p, s) == Len(p) <= Len(s) /\ \A i \in 1..Len(p) : p[i] = s[i]

\* What is collected are elements of the sequence, no more than it has.
LEMMA CollectionTypes ==
  ASSUME NEW T, NEW S, NEW s \in Seq(T), NEW g, Collects(g, s, S, Len(s))
  PROVE  \A k \in 0..Len(s) : g[k] \in Seq(T) /\ Len(g[k]) <= k
<1>0. Len(s) \in Nat /\ \A k \in 1..Len(s) : s[k] \in T
  OBVIOUS
<1> DEFINE A == {k \in 0..Len(s) : g[k] \in Seq(T) /\ Len(g[k]) <= k}
<1>1. 0 \in A
  <2>1. 0 \in 0..Len(s)
    BY <1>0
  <2>2. g[0] = <<>>
    BY <2>1 DEF Collects
  <2>3. <<>> \in Seq(T) /\ Len(<<>>) = 0
    OBVIOUS
  <2>4. g[0] \in Seq(T) /\ Len(g[0]) <= 0
    BY <2>2, <2>3
  <2> QED BY <2>1, <2>4
<1>2. ASSUME NEW k \in 0..Len(s), k # Len(s), k \in A PROVE k + 1 \in A
  <2>1. k + 1 \in 0..Len(s) /\ k + 1 \in 1..Len(s) /\ k + 1 # 0 /\ (k + 1) - 1 = k
    BY <1>0, <1>2
  <2>2. g[k + 1] = IF s[k + 1] \in S THEN Append(g[k], s[k + 1]) ELSE g[k]
    BY <2>1 DEF Collects
  <2>3. PICK p \in Seq(T) : p = g[k] /\ Len(p) <= k
    BY <1>2
  <2>4. PICK x \in T : x = s[k + 1]
    BY <1>0, <2>1
  <2>5. Append(p, x) \in Seq(T) /\ Len(Append(p, x)) = Len(p) + 1 /\ Len(p) \in Nat
    OBVIOUS
  <2>6. g[k + 1] = Append(p, x) \/ g[k + 1] = p
    BY <2>2, <2>3, <2>4
  <2>7. Len(Append(p, x)) <= k + 1 /\ Len(p) <= k + 1
    BY <1>0, <2>3, <2>5
  <2>8. g[k + 1] \in Seq(T) /\ Len(g[k + 1]) <= k + 1
    <3>1. ASSUME NEW a \in Seq(T), Len(a) <= k + 1, g[k + 1] = a
          PROVE  g[k + 1] \in Seq(T) /\ Len(g[k + 1]) <= k + 1
      BY <3>1
    <3> QED BY <2>5, <2>6, <2>7, <3>1
  <2> QED BY <2>1, <2>8
<1> HIDE DEF A
<1>3. \A k \in 0..Len(s) : k \in A
  BY <1>0, <1>1, <1>2, NumbersReached
<1> QED BY <1>3 DEF A

\* What is collected grows at its end.
LEMMA CollectionGrows ==
  ASSUME NEW T, NEW S, NEW s \in Seq(T), NEW g, NEW n \in 0..Len(s), Collects(g, s, S, Len(s))
  PROVE  \A k \in n..Len(s) : Begins(g[n], g[k])
<1>0. Len(s) \in Nat /\ \A k \in 0..Len(s) : g[k] \in Seq(T) /\ Len(g[k]) <= k
  BY CollectionTypes
<1>1. \A k \in 1..Len(s) : s[k] \in T
  OBVIOUS
<1> DEFINE A == {k \in 0..Len(s) : k >= n => Begins(g[n], g[k])}
<1>2. PICK q \in Seq(T) : q = g[n]
  BY <1>0
<1>3. Begins(q, q)
  BY DEF Begins
<1>4. 0 \in A
  <2>1. 0 >= n => g[n] = g[0]
    BY <1>0
  <2> QED BY <1>0, <1>2, <1>3, <2>1
<1>5. ASSUME NEW k \in 0..Len(s), k # Len(s), k \in A PROVE k + 1 \in A
  <2>1. k + 1 \in 0..Len(s) /\ k + 1 \in 1..Len(s) /\ k + 1 # 0 /\ (k + 1) - 1 = k
    BY <1>0, <1>5
  <2>2. g[k + 1] = IF s[k + 1] \in S THEN Append(g[k], s[k + 1]) ELSE g[k]
    BY <2>1 DEF Collects
  <2>3. PICK p \in Seq(T) : p = g[k]
    BY <1>0
  <2>4. PICK x \in T : x = s[k + 1]
    BY <1>1, <2>1
  <2>5. /\ Len(Append(p, x)) = Len(p) + 1 /\ Len(p) \in Nat
        /\ \A i \in 1..Len(p) : Append(p, x)[i] = p[i]
    OBVIOUS
  <2>6. Begins(q, p) => Begins(q, Append(p, x))
    BY <2>5 DEF Begins
  <2>7. ASSUME k + 1 >= n PROVE Begins(q, g[k + 1])
    <3>1. CASE k >= n
      <4>1. Begins(q, p)
        BY <1>2, <1>5, <2>3, <3>1
      <4> QED BY <4>1, <2>2, <2>3, <2>4, <2>6
    <3>2. CASE k + 1 = n
      BY <3>2, <1>2, <1>3
    <3> QED BY <2>7, <3>1, <3>2
  <2> QED BY <1>2, <2>1, <2>7
<1> HIDE DEF A
<1>6. \A k \in 0..Len(s) : k \in A
  BY <1>0, <1>4, <1>5, NumbersReached
<1> QED BY <1>6 DEF A

\* The filter of the first elements is the beginning of the filter of all.
LEMMA OnlyOfFirst ==
  ASSUME NEW T, NEW S, NEW s \in Seq(T), NEW n \in 0..Len(s)
  PROVE  /\ Only(s, S) \in Seq(T) /\ Len(Only(s, S)) <= Len(s)
         /\ Begins(Only(SubSeq(s, 1, n), S), Only(s, S))
<1>1. PICK g : Collects(g, s, S, Len(s)) /\ Only(s, S) = g[Len(s)]
  BY OnlyCollects
<1> DEFINE f == SubSeq(s, 1, n)
<1>2. f \in Seq(T) /\ Len(f) = n /\ \A k \in 1..n : s[k] = f[k]
  OBVIOUS
<1> HIDE DEF f
<1>3. PICK h : Collects(h, f, S, n) /\ Only(f, S) = h[n]
  BY <1>2, OnlyCollects
<1>4. Len(s) \in Nat /\ n \in Nat /\ n <= Len(s) /\ n <= n
  OBVIOUS
<1>5. g[n] = h[n]
  BY <1>1, <1>2, <1>3, <1>4, TablesAgree
<1>6. Begins(g[n], g[Len(s)])
  <2>1. Len(s) \in n..Len(s)
    BY <1>4
  <2> QED BY <1>1, <2>1, CollectionGrows
<1>7. g[Len(s)] \in Seq(T) /\ Len(g[Len(s)]) <= Len(s)
  <2>1. Len(s) \in 0..Len(s)
    BY <1>4
  <2> QED BY <1>1, <2>1, CollectionTypes
<1> QED BY <1>1, <1>3, <1>5, <1>6, <1>7 DEF f

\* A list with another element at the front.
InFront(x, s) == <<x>> \o s

\* The filter of a list with another element at the front.
LEMMA OnlyOfFront ==
  ASSUME NEW T, NEW S, NEW s \in Seq(T), NEW x \in T
  PROVE  Only(InFront(x, s), S) = IF x \in S THEN InFront(x, Only(s, S)) ELSE Only(s, S)
<1> DEFINE t == <<x>> \o s
<1>1. PICK p \in Seq(T) : p = IF x \in S THEN <<x>> ELSE <<>>
  <2>1. <<x>> \in Seq(T) /\ <<>> \in Seq(T)
    OBVIOUS
  <2> QED BY <2>1, Zenon
<1>2. /\ t \in Seq(T) /\ Len(t) = Len(s) + 1 /\ Len(s) \in Nat /\ t[1] = x
      /\ \A k \in 1..Len(s) : t[k + 1] = s[k] /\ s[k] \in T
  OBVIOUS
<1> HIDE DEF t
<1>3. PICK g : Collects(g, s, S, Len(s)) /\ Only(s, S) = g[Len(s)]
  BY OnlyCollects
<1>4. PICK h : Collects(h, t, S, Len(t)) /\ Only(t, S) = h[Len(t)]
  BY <1>2, OnlyCollects
<1>5. \A k \in 0..Len(s) : g[k] \in Seq(T)
  BY <1>3, CollectionTypes
<1>s. /\ h[0] = <<>>
      /\ \A j \in 1..Len(t) : h[j] = IF t[j] \in S THEN Append(h[j - 1], t[j]) ELSE h[j - 1]
  <2>1. 0 \in 0..Len(t) /\ \A j \in 1..Len(t) : j \in 0..Len(t) /\ j # 0
    BY <1>2
  <2> QED BY <2>1, <1>4 DEF Collects
<1>a. \A a1, q1 \in Seq(T), y1 \in T : Append(a1 \o q1, y1) = a1 \o Append(q1, y1)
  <2> TAKE a1, q1 \in Seq(T), y1 \in T
  <2> DEFINE a == Append(a1 \o q1, y1)
             b == a1 \o Append(q1, y1)
             m == Len(a1)
             n == Len(q1)
  <2>1. m \in Nat /\ n \in Nat
    OBVIOUS
  <2>2. /\ a \in Seq(T) /\ Len(a) = m + n + 1 /\ a[m + n + 1] = y1
        /\ \A i \in 1..m : a[i] = a1[i]
        /\ \A i \in m + 1..m + n : a[i] = q1[i - m]
    OBVIOUS
  <2>3. /\ b \in Seq(T) /\ Len(b) = m + n + 1
        /\ \A i \in 1..m : b[i] = a1[i]
        /\ \A i \in m + 1..m + n + 1 : b[i] = Append(q1, y1)[i - m]
    OBVIOUS
  <2>4. Append(q1, y1)[n + 1] = y1 /\ \A j \in 1..n : Append(q1, y1)[j] = q1[j]
    OBVIOUS
  <2> HIDE DEF a, b, m, n
  <2>5. \A i \in 1..m + n + 1 : a[i] = b[i]
    <3> TAKE i \in 1..m + n + 1
    <3>1. CASE i \in 1..m
      BY <3>1, <2>2, <2>3
    <3>2. CASE i \in m + 1..m + n
      <4>1. i - m \in 1..n /\ i \in m + 1..m + n + 1
        BY <3>2, <2>1
      <4> QED BY <4>1, <3>2, <2>2, <2>3, <2>4
    <3>3. CASE i = m + n + 1
      <4>1. i - m = n + 1 /\ i \in m + 1..m + n + 1
        BY <3>3, <2>1
      <4> QED BY <4>1, <3>3, <2>2, <2>3, <2>4
    <3> QED BY <2>1, <3>1, <3>2, <3>3
  <2>6. a = b
    <3>1. a = [i \in 1..m + n + 1 |-> a[i]] /\ b = [i \in 1..m + n + 1 |-> b[i]]
      BY <2>2, <2>3
    <3> QED BY <2>5, <3>1
  <2> QED BY <2>6 DEF a, b
<1> DEFINE A == {k \in 0..Len(s) : h[k + 1] = p \o g[k]}
<1>6. 0 \in A
  <2>1. 0 \in 0..Len(s) /\ 1 \in 1..Len(t) /\ 1 - 1 = 0 /\ 0 + 1 = 1
    BY <1>2
  <2>2. g[0] = <<>> /\ h[0] = <<>> /\ h[1] = IF t[1] \in S THEN Append(h[0], t[1]) ELSE h[0]
    <3>1. g[0] = <<>>
      BY <2>1, <1>3 DEF Collects
    <3> QED BY <2>1, <3>1, <1>s
  <2>3. Append(<<>>, x) = <<x>> /\ p \o <<>> = p
    OBVIOUS
  <2>4. h[1] = p
    BY <1>1, <1>2, <2>2, <2>3
  <2> QED BY <2>1, <2>2, <2>3, <2>4
<1>7. ASSUME NEW k \in 0..Len(s), k # Len(s), k \in A PROVE k + 1 \in A
  <2>1. /\ k + 1 \in 0..Len(s) /\ k + 1 \in 1..Len(s) /\ k + 1 # 0 /\ (k + 1) - 1 = k
        /\ (k + 1) + 1 \in 1..Len(t) /\ ((k + 1) + 1) - 1 = k + 1
    BY <1>2, <1>7
  <2>2. g[k + 1] = IF s[k + 1] \in S THEN Append(g[k], s[k + 1]) ELSE g[k]
    BY <2>1, <1>3 DEF Collects
  <2>3. PICK y \in T : y = s[k + 1] /\ y = t[(k + 1) + 1]
    BY <1>2, <2>1
  <2>4. h[(k + 1) + 1] = IF y \in S THEN Append(h[k + 1], y) ELSE h[k + 1]
    BY <2>1, <2>3, <1>s
  <2>5. PICK q \in Seq(T) : q = g[k]
    BY <1>5
  <2>6. h[k + 1] = p \o q
    BY <1>7, <2>5
  <2>7. Append(p \o q, y) = p \o Append(q, y)
    BY <1>a
  <2>8. h[(k + 1) + 1] = p \o g[k + 1]
    BY <2>2, <2>3, <2>4, <2>5, <2>6, <2>7
  <2> QED BY <2>1, <2>8
<1> HIDE DEF A
<1>8. Len(s) \in A
  <2>1. \A k \in 0..Len(s) : k \in A
    BY <1>2, <1>6, <1>7, NumbersReached
  <2> QED BY <2>1, <1>2
<1>9. Only(t, S) = p \o Only(s, S)
  BY <1>2, <1>3, <1>4, <1>8 DEF A
<1>10. Only(s, S) \in Seq(T)
  BY OnlyKeeps
<1>11. ASSUME NEW o \in Seq(T) PROVE <<>> \o o = o
  OBVIOUS
<1>12. <<>> \o Only(s, S) = Only(s, S)
  BY <1>10, <1>11
<1> QED BY <1>1, <1>9, <1>12, Zenon DEF t, InFront
=============================================================================
