------------------------- MODULE ScrabbleRulesProofs -------------------------
(***************************************************************************)
(* Theorems about ScrabbleRules, for any board, dictionary and placements. *)
(*                                                                         *)
(* The walk of GetNewWords_ and the reference WordsOn meet in runs: the    *)
(* word a walk reads at a cell is the run of occupied cells around it, and *)
(* the runs of at least two cells are the words of the board.              *)
(***************************************************************************)
EXTENDS ScrabbleRules, ScrabbleGameProofs, WellFoundedInduction

-----------------------------------------------------------------------------
(***************************************************************************)
(* Sums.  The sum over a finite set does not depend on the order in which  *)
(* its elements are added, nor on their names.  Each fact has a smallest   *)
(* set among those it fails for, of which there are none.                  *)
(***************************************************************************)
\* Among subsets of a finite set there is a smallest one.
LEMMA SomeSmallest ==
    ASSUME NEW S, IsFiniteSet(S), NEW F \in SUBSET SUBSET S, F # {}
    PROVE  \E s \in F : \A t \in F : t \subseteq s => t = s
<1>1. F \subseteq FiniteSubsetsOf(S)
    BY FS_FiniteSubsetsOfFinite
<1>2. PICK s \in F : \A t \in F : <<t, s>> \notin StrictSubsetOrdering(S)
    BY <1>1, FS_StrictSubsetOrderingWellFounded, WFMin
<1>3. ASSUME NEW t \in F, t \subseteq s
      PROVE  t = s
    BY <1>2, <1>3 DEF StrictSubsetOrdering
<1> QED  BY <1>3

Pick(s) == CHOOSE x \in s : TRUE

\* The equation of the function that sums f over the subsets of S.
Sums(f, S, iter) ==
    iter = [s \in SUBSET S |-> IF s = {} THEN 0 ELSE f[Pick(s)] + iter[s \ {Pick(s)}]]

LEMMA SumIsChosen ==
    ASSUME NEW f, NEW S
    PROVE  SumFunctionOnSet(f, S) = (CHOOSE iter : Sums(f, S, iter))[S]
BY DEF SumFunctionOnSet, FoldFunctionOnSet, MapThenFoldSet, Sums, Pick

LEMMA PickOne == ASSUME NEW s, s # {} PROVE Pick(s) \in s
BY DEF Pick

LEMMA SumsAt ==
    ASSUME NEW f, NEW S, NEW g, Sums(f, S, g), NEW s, s \subseteq S
    PROVE  g[s] = IF s = {} THEN 0 ELSE f[Pick(s)] + g[s \ {Pick(s)}]
BY DEF Sums

LEMMA SumsAgree ==
    ASSUME NEW f, NEW S, IsFiniteSet(S), NEW T, NEW U, T \subseteq S, U \subseteq S, NEW g, NEW h,
           Sums(f, T, g), Sums(f, U, h), NEW s, s \subseteq T, s \subseteq U
    PROVE  g[s] = h[s]
<1> DEFINE F == {t \in SUBSET S : t \subseteq T /\ t \subseteq U /\ g[t] # h[t]}
<1> SUFFICES ASSUME s \in F
             PROVE  FALSE
    OBVIOUS
<1>1. PICK t \in F : \A u \in F : u \subseteq t => u = t
    <2>1. F \in SUBSET SUBSET S /\ F # {}
        OBVIOUS
    <2> HIDE DEF F
    <2> QED BY <2>1, SomeSmallest
<1>2. /\ g[t] = IF t = {} THEN 0 ELSE f[Pick(t)] + g[t \ {Pick(t)}]
      /\ h[t] = IF t = {} THEN 0 ELSE f[Pick(t)] + h[t \ {Pick(t)}]
    BY DEF Sums
<1>3. t # {}
    BY <1>2
<1>4. t \ {Pick(t)} \notin F
    BY <1>1, <1>3, PickOne
<1> QED  BY <1>2, <1>3, <1>4

LEMMA SumsExist ==
    ASSUME NEW f, NEW S, IsFiniteSet(S)
    PROVE  \E g : Sums(f, S, g)
<1> DEFINE F == {t \in SUBSET S : ~\E g : Sums(f, t, g)}
<1> SUFFICES ASSUME S \in F
             PROVE  FALSE
    OBVIOUS
<1>1. PICK t \in F : \A u \in F : u \subseteq t => u = t
    <2>1. F \in SUBSET SUBSET S /\ F # {}
        OBVIOUS
    <2> HIDE DEF F
    <2> QED BY <2>1, SomeSmallest
<1> DEFINE G(u) == CHOOSE g : Sums(f, u, g)
           Rest(u) == u \ {Pick(u)}
           h == [u \in SUBSET t |-> IF u = {} THEN 0 ELSE f[Pick(u)] + G(Rest(u))[Rest(u)]]
<1>2. ASSUME NEW u, u \subseteq t, u # t
      PROVE  Sums(f, u, G(u))
    <2>1. u \notin F /\ u \subseteq S
        BY <1>1, <1>2
    <2>2. \E g : Sums(f, u, g)
        BY <2>1
    <2> QED BY <2>2
<1>3. ASSUME NEW u, u \subseteq t, u # t
      PROVE  h[u] = G(u)[u]
    <2>1. G(u)[u] = IF u = {} THEN 0 ELSE f[Pick(u)] + G(u)[Rest(u)]
        <3>1. Sums(f, u, G(u))
            BY <1>2, <1>3
        <3> HIDE DEF G
        <3> QED BY <3>1, SumsAt
    <2>2. CASE u = {}
        <3> HIDE DEF G
        <3> QED BY <2>1, <2>2
    <2>3. CASE u # {}
        <3>1. Rest(u) \subseteq u /\ Rest(u) # t /\ Rest(u) \subseteq t /\ u \subseteq S /\ Rest(u) \subseteq S
            BY <1>1, <1>3
        <3>2. Sums(f, u, G(u)) /\ Sums(f, Rest(u), G(Rest(u)))
            BY <1>2, <1>3, <3>1
        <3>3. G(u)[Rest(u)] = G(Rest(u))[Rest(u)]
            <4> HIDE DEF G, Rest
            <4> QED BY <3>1, <3>2, SumsAgree
        <3> HIDE DEF G, Rest
        <3> QED BY <1>3, <2>1, <2>3, <3>3
    <2> QED BY <2>2, <2>3
<1>4. Sums(f, t, h)
    <2>1. ASSUME NEW u, u \subseteq t, u # {}
          PROVE  h[Rest(u)] = G(Rest(u))[Rest(u)]
        <3>1. Rest(u) \subseteq t /\ Rest(u) # t
            BY <2>1, PickOne
        <3> QED BY <1>3, <3>1
    <2>2. h = [u \in SUBSET t |-> IF u = {} THEN 0 ELSE f[Pick(u)] + h[Rest(u)]]
        <3> HIDE DEF G, Rest
        <3> QED BY <2>1
    <2> QED BY <2>2 DEF Sums
<1> QED  BY <1>1, <1>4

\* What TLC computes: an element and the rest.
LEMMA SumByPick ==
    ASSUME NEW f, NEW S, IsFiniteSet(S)
    PROVE  SumFunctionOnSet(f, S) =
               IF S = {} THEN 0
               ELSE f[Pick(S)] + SumFunctionOnSet(f, S \ {Pick(S)})
<1> DEFINE R == S \ {Pick(S)}
           g == CHOOSE iter : Sums(f, S, iter)
           h == CHOOSE iter : Sums(f, R, iter)
<1>1. IsFiniteSet(R)
    BY FS_Subset
<1>2. Sums(f, S, g) /\ Sums(f, R, h)
    BY <1>1, SumsExist
<1>3. SumFunctionOnSet(f, S) = g[S] /\ SumFunctionOnSet(f, R) = h[R]
    BY SumIsChosen
<1>4. g[S] = IF S = {} THEN 0 ELSE f[Pick(S)] + g[R]
    <2> HIDE DEF g
    <2> QED BY <1>2, SumsAt
<1>5. g[R] = h[R]
    <2> HIDE DEF g, h, R
    <2> QED BY <1>2, SumsAgree, R \subseteq S DEF R
<1> QED BY <1>3, <1>4, <1>5

LEMMA SumTyped ==
    ASSUME NEW S, IsFiniteSet(S), NEW f, \A x \in S : f[x] \in Int
    PROVE  SumFunctionOnSet(f, S) \in Int
<1> DEFINE F == {t \in SUBSET S : SumFunctionOnSet(f, t) \notin Int}
<1> SUFFICES ASSUME F # {}
             PROVE  FALSE
    OBVIOUS
<1>1. PICK t \in F : \A u \in F : u \subseteq t => u = t
    <2>1. F \in SUBSET SUBSET S /\ F # {}
        OBVIOUS
    <2> HIDE DEF F
    <2> QED BY <2>1, SomeSmallest
<1>2. t \subseteq S /\ IsFiniteSet(t)
    BY FS_Subset
<1>3. SumFunctionOnSet(f, t) = IF t = {} THEN 0 ELSE f[Pick(t)] + SumFunctionOnSet(f, t \ {Pick(t)})
    BY <1>2, SumByPick
<1>4. CASE t = {}
    BY <1>3, <1>4
<1>5. CASE t # {}
    <2>1. Pick(t) \in t
        BY <1>5, PickOne
    <2>2. t \ {Pick(t)} \notin F
        BY <1>1, <2>1
    <2>3. SumFunctionOnSet(f, t \ {Pick(t)}) \in Int
        BY <1>2, <2>2
    <2> QED BY <1>2, <1>3, <1>5, <2>1, <2>3
<1> QED BY <1>4, <1>5

\* The order does not matter.
LEMMA SumByAny ==
    ASSUME NEW S, IsFiniteSet(S), NEW f, \A x \in S : f[x] \in Int, NEW x \in S
    PROVE  SumFunctionOnSet(f, S) = f[x] + SumFunctionOnSet(f, S \ {x})
<1> DEFINE Sum(s) == SumFunctionOnSet(f, s)
           F == {t \in SUBSET S : \E z \in t : Sum(t) # f[z] + Sum(t \ {z})}
<1> SUFFICES ASSUME F # {}
             PROVE  FALSE
    OBVIOUS
<1>1. PICK t \in F : \A u \in F : u \subseteq t => u = t
    <2>1. F \in SUBSET SUBSET S /\ F # {}
        OBVIOUS
    <2> HIDE DEF F
    <2> QED BY <2>1, SomeSmallest
<1>2. PICK z \in t : Sum(t) # f[z] + Sum(t \ {z})
    OBVIOUS
<1> DEFINE p == Pick(t)
<1>3. p \in t /\ t \subseteq S /\ z \in t /\ t # {}
    BY PickOne
<1>4. Sum(t) = f[p] + Sum(t \ {p})
    <2>1. IsFiniteSet(t)
        BY <1>3, FS_Subset
    <2> QED BY <1>3, <2>1, SumByPick
<1> HIDE DEF p, Sum
<1>5. p # z
    BY <1>2, <1>4
<1>6. /\ Sum(t \ {p}) = f[z] + Sum((t \ {p}) \ {z})
      /\ Sum(t \ {z}) = f[p] + Sum((t \ {z}) \ {p})
    <2>1. t \ {p} \notin F /\ t \ {z} \notin F
        BY <1>1, <1>3
    <2>2. t \ {p} \subseteq S /\ t \ {z} \subseteq S /\ z \in t \ {p} /\ p \in t \ {z}
        BY <1>3, <1>5
    <2> QED BY <2>1, <2>2
<1>7. (t \ {p}) \ {z} = (t \ {z}) \ {p}
    OBVIOUS
<1>8. f[p] \in Int /\ f[z] \in Int /\ Sum((t \ {z}) \ {p}) \in Int
    <2>1. (t \ {z}) \ {p} \subseteq S /\ IsFiniteSet((t \ {z}) \ {p})
        BY <1>3, FS_Subset
    <2>2. Sum((t \ {z}) \ {p}) \in Int
        BY <2>1, SumTyped DEF Sum
    <2> QED BY <1>3, <2>2
<1> DEFINE all == Sum(t)
           one == Sum(t \ {p})
           other == Sum(t \ {z})
           rest == Sum((t \ {z}) \ {p})
<1>9. /\ all # f[z] + other /\ all = f[p] + one
      /\ one = f[z] + rest /\ other = f[p] + rest
      /\ rest \in Int
    BY <1>2, <1>4, <1>6, <1>7, <1>8
<1> HIDE DEF all, one, other, rest
<1> QED BY <1>8, <1>9

\* Renaming what is summed changes nothing.
LEMMA SumRenamed ==
    ASSUME NEW S, IsFiniteSet(S), NEW f, \A x \in S : f[x] \in Int,
           NEW T, IsFiniteSet(T), NEW g, NEW h \in [S -> T],
           \A x, y \in S : h[x] = h[y] => x = y,
           \A y \in T : \E x \in S : h[x] = y,
           \A x \in S : g[h[x]] = f[x]
    PROVE  SumFunctionOnSet(f, S) = SumFunctionOnSet(g, T)
<1> DEFINE Image(s) == {h[x] : x \in s}
           Sum(s) == SumFunctionOnSet(f, s)
           SumOf(s) == SumFunctionOnSet(g, s)
           F == {t \in SUBSET S : Sum(t) # SumOf(Image(t))}
<1>1. Image(S) = T
    OBVIOUS
<1> SUFFICES ASSUME F # {}
             PROVE  FALSE
    BY <1>1
<1>2. PICK t \in F : \A u \in F : u \subseteq t => u = t
    <2>1. F \in SUBSET SUBSET S /\ F # {}
        OBVIOUS
    <2> HIDE DEF F
    <2> QED BY <2>1, SomeSmallest
<1>3. t \subseteq S /\ IsFiniteSet(t) /\ Image(t) \subseteq T /\ IsFiniteSet(Image(t))
    <2>1. t \subseteq S /\ Image(t) \subseteq T
        OBVIOUS
    <2> QED BY <2>1, FS_Subset
<1>4. CASE t = {}
    <2>1. Image(t) = {}
        BY <1>4
    <2>2. Sum(t) = 0 /\ SumOf(Image(t)) = 0
        BY <1>3, <1>4, <2>1, SumByPick
    <2> QED BY <2>2
<1>5. CASE t # {}
    <2>1. PICK x \in t : TRUE
        BY <1>5
    <2>2. x \in S /\ h[x] \in Image(t) /\ g[h[x]] = f[x]
        BY <1>3, <2>1
    <2>3. Image(t \ {x}) = Image(t) \ {h[x]}
        BY <1>3, <2>1
    <2>4. Sum(t) = f[x] + Sum(t \ {x})
        BY <1>3, <2>1, SumByAny
    <2>5. \A y \in Image(t) : g[y] \in Int
        BY <1>3
    <2>6. SumOf(Image(t)) = g[h[x]] + SumOf(Image(t) \ {h[x]})
        <3> HIDE DEF Image
        <3> QED BY <1>3, <2>2, <2>5, SumByAny
    <2>7. Sum(t \ {x}) = SumOf(Image(t \ {x}))
        <3>1. t \ {x} \notin F
            BY <1>2, <2>1
        <3> QED BY <1>3, <3>1
    <2> HIDE DEF Sum, SumOf, Image
    <2> QED BY <1>2, <2>2, <2>3, <2>4, <2>6, <2>7
<1> QED BY <1>4, <1>5

-----------------------------------------------------------------------------
(***************************************************************************)
(* Runs of positions.                                                      *)
(***************************************************************************)
\* A run that ends at a position which is not occupied is the one around each of
\* its positions.
LEMMA RunIsFound ==
    ASSUME NEW last \in Nat, NEW occupied, NEW lo \in 0 .. last, NEW hi \in lo .. last,
           NEW k \in lo .. hi, \A j \in lo .. hi : j \in occupied,
           lo - 1 \notin occupied, hi + 1 \notin occupied
    PROVE  FirstOfRun(occupied, k) = lo /\ LastOfRun(occupied, k, last) = hi
<1>1. ASSUME NEW l \in 0 .. k, \A j \in l .. k - 1 : j \in occupied, l - 1 \notin occupied
      PROVE  l = lo
    <2>1. CASE l < lo
        <3>1. lo - 1 \in l .. k - 1
            BY <2>1
        <3> QED  BY <1>1, <3>1
    <2>2. CASE lo < l
        <3>1. l - 1 \in lo .. hi
            BY <2>2
        <3> QED  BY <1>1, <3>1
    <2> QED  BY <2>1, <2>2
<1>2. lo \in 0 .. k /\ \A j \in lo .. k - 1 : j \in occupied
    OBVIOUS
<1>3. ASSUME NEW h \in k .. last, \A j \in k + 1 .. h : j \in occupied, h + 1 \notin occupied
      PROVE  h = hi
    <2>1. CASE hi < h
        <3>1. hi + 1 \in k + 1 .. h
            BY <2>1
        <3> QED  BY <1>3, <3>1
    <2>2. CASE h < hi
        <3>1. h + 1 \in lo .. hi
            BY <2>2
        <3> QED  BY <1>3, <3>1
    <2> QED  BY <2>1, <2>2
<1>4. hi \in k .. last /\ \A j \in k + 1 .. hi : j \in occupied
    OBVIOUS
<1>5. FirstOfRun(occupied, k) = lo
    BY <1>1, <1>2 DEF FirstOfRun
<1>6. LastOfRun(occupied, k, last) = hi
    BY <1>3, <1>4 DEF LastOfRun
<1> QED  BY <1>5, <1>6

LEMMA LeastNatural ==
    ASSUME NEW S \in SUBSET Nat, S # {}
    PROVE  \E m \in S : \A k \in S : m =< k
<1>1. PICK n \in S : TRUE
    OBVIOUS
<1> DEFINE D == 0 .. n
           F == {0 .. m : m \in {k \in S : k =< n}}
<1>2. F \in SUBSET SUBSET D /\ F # {}
    OBVIOUS
<1>3. PICK t \in F : \A u \in F : u \subseteq t => u = t
    <2>1. IsFiniteSet(D)
        BY FS_Interval
    <2> HIDE DEF D, F
    <2> QED  BY <1>2, <2>1, SomeSmallest
<1>4. PICK m \in S : m =< n /\ t = 0 .. m
    BY <1>3
<1>5. ASSUME NEW k \in S, k < m
      PROVE  FALSE
    <2>1. 0 .. k \in F /\ 0 .. k \subseteq t
        BY <1>4, <1>5
    <2>2. 0 .. k = 0 .. m
        BY <1>3, <1>4, <2>1
    <2> QED  BY <1>5, <2>2
<1> QED  BY <1>5

\* Around every occupied position there is a run.
LEMMA RunExists ==
    ASSUME NEW last \in Nat, NEW occupied \in SUBSET (0 .. last), NEW k \in occupied
    PROVE  \E lo \in 0 .. k, hi \in k .. last :
               /\ \A j \in lo .. hi : j \in occupied
               /\ lo - 1 \notin occupied
               /\ hi + 1 \notin occupied
<1> DEFINE Down == {l \in 0 .. k : \A j \in l .. k : j \in occupied}
           Up == {d \in 0 .. last - k : \A j \in k .. last - d : j \in occupied}
<1>1. k \in Down /\ Down \in SUBSET Nat
    OBVIOUS
<1>2. PICK lo \in Down : \A l \in Down : lo =< l
    <2> HIDE DEF Down
    <2> QED  BY <1>1, LeastNatural
<1>3. lo - 1 \notin occupied
    <2> SUFFICES ASSUME lo - 1 \in occupied
                 PROVE  FALSE
        OBVIOUS
    <2>1. \A j \in lo - 1 .. k : j = lo - 1 \/ j \in lo .. k
        OBVIOUS
    <2>2. lo - 1 \in Down
        BY <2>1
    <2> QED  BY <1>2, <2>2
<1>4. last - k \in Up /\ Up \in SUBSET Nat
    OBVIOUS
<1>5. PICK d \in Up : \A e \in Up : d =< e
    <2> HIDE DEF Up
    <2> QED  BY <1>4, LeastNatural
<1> DEFINE hi == last - d
<1>6. hi + 1 \notin occupied
    <2> SUFFICES ASSUME hi + 1 \in occupied
                 PROVE  FALSE
        OBVIOUS
    <2>1. d - 1 \in 0 .. last - k /\ \A j \in k .. last - (d - 1) : j = hi + 1 \/ j \in k .. hi
        OBVIOUS
    <2>2. d - 1 \in Up
        BY <2>1
    <2> QED  BY <1>5, <2>2
<1>7. \A j \in lo .. hi : j \in lo .. k \/ j \in k .. hi
    OBVIOUS
<1> QED  BY <1>3, <1>6, <1>7

\* Stretches of a row and of a column, and how many cells they have.
Row(lo, hi, y) == (lo .. hi) \X {y}
Column(x, lo, hi) == {x} \X (lo .. hi)

LEMMA StretchSize ==
    ASSUME NEW lo \in Int, NEW hi \in Int, NEW z
    PROVE  /\ Cardinality(Row(lo, hi, z)) = IF lo > hi THEN 0 ELSE hi - lo + 1
           /\ Cardinality(Column(z, lo, hi)) = IF lo > hi THEN 0 ELSE hi - lo + 1
<1>1. /\ IsFiniteSet(lo .. hi)
      /\ Cardinality(lo .. hi) = IF lo > hi THEN 0 ELSE hi - lo + 1
    BY FS_Interval
<1>2. IsFiniteSet({z}) /\ Cardinality({z}) = 1
    BY FS_Singleton
<1>3. /\ Cardinality(Row(lo, hi, z)) = Cardinality(lo .. hi) * Cardinality({z})
      /\ Cardinality(Column(z, lo, hi)) = Cardinality({z}) * Cardinality(lo .. hi)
    BY <1>1, <1>2, FS_Product DEF Row, Column
<1>4. Cardinality(lo .. hi) \in Int
    BY <1>1
<1> QED  BY <1>1, <1>2, <1>3, <1>4

\* The cells of a stretch before one of its cells.
LEMMA StretchBefore ==
    ASSUME NEW lo \in Int, NEW hi \in Int, NEW z \in Int, NEW k \in lo .. hi
    PROVE  /\ Cardinality({d \in Row(lo, hi, z) : d[1] + d[2] < k + z}) = k - lo
           /\ Cardinality({d \in Column(z, lo, hi) : d[1] + d[2] < z + k}) = k - lo
<1>1. {d \in Row(lo, hi, z) : d[1] + d[2] < k + z} = Row(lo, k - 1, z)
    BY DEF Row
<1>2. {d \in Column(z, lo, hi) : d[1] + d[2] < z + k} = Column(z, lo, k - 1)
    BY DEF Column
<1>3. k - 1 \in Int
    OBVIOUS
<1>4. (IF lo > k - 1 THEN 0 ELSE k - 1 - lo + 1) = k - lo
    OBVIOUS
<1>5. /\ Cardinality(Row(lo, k - 1, z)) = k - lo
      /\ Cardinality(Column(z, lo, k - 1)) = k - lo
    BY <1>3, <1>4, StretchSize
<1> QED  BY <1>1, <1>2, <1>5

\* A stretch is read in order.
LEMMA RowIsSpelled ==
    ASSUME NEW b, NEW lo \in Int, NEW hi \in Int, NEW y \in Int, lo =< hi
    PROVE  Spell(b, Row(lo, hi, y)) = [k \in 1 .. hi - lo + 1 |-> b[<<lo + k - 1, y>>]]
<1> DEFINE s == Row(lo, hi, y)
           Before(c) == Cardinality({d \in s : d[1] + d[2] < c[1] + c[2]})
<1>1. Cardinality(s) = hi - lo + 1
    BY StretchSize
<1>2. ASSUME NEW k \in 1 .. hi - lo + 1
      PROVE  (CHOOSE c \in s : Before(c) = k - 1) = <<lo + k - 1, y>>
    <2>1. \A c \in s : c[1] \in lo .. hi /\ c = <<c[1], y>> /\ c[2] = y
        BY DEF Row
    <2>2. ASSUME NEW c \in s
          PROVE  Before(c) = c[1] - lo
        <3>1. c[1] \in lo .. hi /\ c[2] = y
            BY <2>1
        <3>2. Cardinality({d \in s : d[1] + d[2] < c[1] + y}) = c[1] - lo
            BY <3>1, StretchBefore
        <3> QED  BY <3>1, <3>2
    <2>3. <<lo + k - 1, y>> \in s
        BY DEF Row
    <2>4. Before(<<lo + k - 1, y>>) = k - 1
        BY <2>2, <2>3
    <2>5. \A c \in s : Before(c) = k - 1 => c = <<lo + k - 1, y>>
        BY <2>1, <2>2
    <2> HIDE DEF s, Before
    <2> QED  BY <2>3, <2>4, <2>5
<1>3. Spell(b, s) = [k \in 1 .. hi - lo + 1 |-> b[CHOOSE c \in s : Before(c) = k - 1]]
    BY <1>1 DEF Spell
<1> HIDE DEF Before
<1> QED  BY <1>2, <1>3

LEMMA ColumnIsSpelled ==
    ASSUME NEW b, NEW lo \in Int, NEW hi \in Int, NEW x \in Int, lo =< hi
    PROVE  Spell(b, Column(x, lo, hi)) = [k \in 1 .. hi - lo + 1 |-> b[<<x, lo + k - 1>>]]
<1> DEFINE s == Column(x, lo, hi)
           Before(c) == Cardinality({d \in s : d[1] + d[2] < c[1] + c[2]})
<1>1. Cardinality(s) = hi - lo + 1
    BY StretchSize
<1>2. ASSUME NEW k \in 1 .. hi - lo + 1
      PROVE  (CHOOSE c \in s : Before(c) = k - 1) = <<x, lo + k - 1>>
    <2>1. \A c \in s : c[2] \in lo .. hi /\ c = <<x, c[2]>> /\ c[1] = x
        BY DEF Column
    <2>2. ASSUME NEW c \in s
          PROVE  Before(c) = c[2] - lo
        <3>1. c[2] \in lo .. hi /\ c[1] = x
            BY <2>1
        <3>2. Cardinality({d \in s : d[1] + d[2] < x + c[2]}) = c[2] - lo
            BY <3>1, StretchBefore
        <3> QED  BY <3>1, <3>2
    <2>3. <<x, lo + k - 1>> \in s
        BY DEF Column
    <2>4. Before(<<x, lo + k - 1>>) = k - 1
        BY <2>2, <2>3
    <2>5. \A c \in s : Before(c) = k - 1 => c = <<x, lo + k - 1>>
        BY <2>1, <2>2
    <2> HIDE DEF s, Before
    <2> QED  BY <2>3, <2>4, <2>5
<1>3. Spell(b, s) = [k \in 1 .. hi - lo + 1 |-> b[CHOOSE c \in s : Before(c) = k - 1]]
    BY <1>1 DEF Spell
<1> HIDE DEF Before
<1> QED  BY <1>2, <1>3

-----------------------------------------------------------------------------
(***************************************************************************)
(* Words of a board.                                                       *)
(***************************************************************************)
OccupiedInRow(b, y) == {x \in 0 .. Width - 1 : b[<<x, y>>] # NoLetter}
OccupiedInColumn(b, x) == {y \in 0 .. Height - 1 : b[<<x, y>>] # NoLetter}

\* Where the words are: every word of a board is a stretch of a row or of a column.
LEMMA WordsAreStretches ==
    ASSUME NEW b, NEW s \in WordsOn(b)
    PROVE  \/ \E lo, hi \in 0 .. Width - 1, y \in 0 .. Height - 1 : lo < hi /\ s = Row(lo, hi, y)
           \/ \E x \in 0 .. Width - 1, lo, hi \in 0 .. Height - 1 : lo < hi /\ s = Column(x, lo, hi)
<1>1. s \in Segments /\ Cardinality(s) >= 2
    BY DEF WordsOn, Segments
<1>2. CASE \E lo, hi \in 0 .. Width - 1, y \in 0 .. Height - 1 : s = (lo .. hi) \X {y}
    <2>1. PICK lo \in 0 .. Width - 1, hi \in 0 .. Width - 1, y \in 0 .. Height - 1 : s = Row(lo, hi, y)
        BY <1>2 DEF Row
    <2>2. lo < hi
        BY <1>1, <2>1, StretchSize, BoardAssumption
    <2> QED  BY <2>1, <2>2
<1>3. CASE \E x \in 0 .. Width - 1, lo, hi \in 0 .. Height - 1 : s = {x} \X (lo .. hi)
    <2>1. PICK x \in 0 .. Width - 1, lo \in 0 .. Height - 1, hi \in 0 .. Height - 1 : s = Column(x, lo, hi)
        BY <1>3 DEF Column
    <2>2. lo < hi
        BY <1>1, <2>1, StretchSize, BoardAssumption
    <2> QED  BY <2>1, <2>2
<1> QED  BY <1>1, <1>2, <1>3 DEF Segments

\* The walk along x at any cell of a word in a row finds its two ends.
LEMMA RowEnds ==
    ASSUME NEW b, NEW lo \in 0 .. Width - 1, NEW hi \in 0 .. Width - 1, NEW y \in 0 .. Height - 1,
           lo < hi, Row(lo, hi, y) \in WordsOn(b), NEW x \in lo .. hi
    PROVE  /\ FirstOfRun(OccupiedInRow(b, y), x) = lo
           /\ LastOfRun(OccupiedInRow(b, y), x, Width - 1) = hi
<1> DEFINE s == Row(lo, hi, y)
           occupied == OccupiedInRow(b, y)
<1>1. \A c \in s : b[c] # NoLetter
    BY DEF WordsOn
<1>2. \A j \in lo .. hi : j \in occupied
    <2>1. \A j \in lo .. hi : j \in 0 .. Width - 1 /\ b[<<j, y>>] # NoLetter
        BY <1>1, BoardAssumption DEF Row
    <2> QED  BY <2>1 DEF OccupiedInRow
<1>3. ASSUME NEW l \in 0 .. Width - 1, NEW h \in 0 .. Width - 1, l =< lo, hi =< h,
             \A j \in l .. h : j \in occupied
      PROVE  l = lo /\ h = hi
    <2>1. Cardinality(Row(l, h, y)) = h - l + 1 /\ h - l + 1 >= 2
        BY <1>3, StretchSize
    <2>2. Row(l, h, y) \in Segments
        <3>1. Row(l, h, y) \in {(a .. z) \X {v} : a, z \in 0 .. Width - 1, v \in 0 .. Height - 1}
            BY DEF Row
        <3> QED  BY <2>1, <3>1 DEF Segments
    <2>3. \A c \in Row(l, h, y) : b[c] # NoLetter
        BY <1>3 DEF Row, OccupiedInRow
    <2>4. s \subseteq Row(l, h, y)
        BY <1>3 DEF Row
    <2>5. s = Row(l, h, y)
        BY <2>2, <2>3, <2>4 DEF WordsOn
    <2>6. <<l, y>> \in s /\ <<h, y>> \in s
        BY <1>3, <2>5 DEF Row
    <2> QED  BY <1>3, <2>6 DEF Row
<1>4. lo - 1 \notin occupied
    <2> SUFFICES ASSUME lo - 1 \in occupied PROVE FALSE
        OBVIOUS
    <2>1. lo - 1 \in 0 .. Width - 1 /\ \A j \in lo - 1 .. hi : j = lo - 1 \/ j \in lo .. hi
        BY DEF OccupiedInRow
    <2> QED  BY <1>2, <1>3, <2>1
<1>5. hi + 1 \notin occupied
    <2> SUFFICES ASSUME hi + 1 \in occupied PROVE FALSE
        OBVIOUS
    <2>1. hi + 1 \in 0 .. Width - 1 /\ \A j \in lo .. hi + 1 : j = hi + 1 \/ j \in lo .. hi
        BY DEF OccupiedInRow
    <2> QED  BY <1>2, <1>3, <2>1
<1>6. Width - 1 \in Nat /\ hi \in lo .. Width - 1
    BY BoardAssumption
<1> HIDE DEF occupied
<1>7. FirstOfRun(occupied, x) = lo /\ LastOfRun(occupied, x, Width - 1) = hi
    BY <1>2, <1>4, <1>5, <1>6, RunIsFound
<1> QED  BY <1>7 DEF occupied

\* The walk along y at any cell of a word in a column finds its two ends.
LEMMA ColumnEnds ==
    ASSUME NEW b, NEW x \in 0 .. Width - 1, NEW lo \in 0 .. Height - 1, NEW hi \in 0 .. Height - 1,
           lo < hi, Column(x, lo, hi) \in WordsOn(b), NEW y \in lo .. hi
    PROVE  /\ FirstOfRun(OccupiedInColumn(b, x), y) = lo
           /\ LastOfRun(OccupiedInColumn(b, x), y, Height - 1) = hi
<1> DEFINE s == Column(x, lo, hi)
           occupied == OccupiedInColumn(b, x)
<1>1. \A c \in s : b[c] # NoLetter
    BY DEF WordsOn
<1>2. \A j \in lo .. hi : j \in occupied
    <2>1. \A j \in lo .. hi : j \in 0 .. Height - 1 /\ b[<<x, j>>] # NoLetter
        BY <1>1, BoardAssumption DEF Column
    <2> QED  BY <2>1 DEF OccupiedInColumn
<1>3. ASSUME NEW l \in 0 .. Height - 1, NEW h \in 0 .. Height - 1, l =< lo, hi =< h,
             \A j \in l .. h : j \in occupied
      PROVE  l = lo /\ h = hi
    <2>1. Cardinality(Column(x, l, h)) = h - l + 1 /\ h - l + 1 >= 2
        BY <1>3, StretchSize
    <2>2. Column(x, l, h) \in Segments
        <3>1. Column(x, l, h) \in {{v} \X (a .. z) : v \in 0 .. Width - 1, a, z \in 0 .. Height - 1}
            BY DEF Column
        <3> QED  BY <2>1, <3>1 DEF Segments
    <2>3. \A c \in Column(x, l, h) : b[c] # NoLetter
        BY <1>3 DEF Column, OccupiedInColumn
    <2>4. s \subseteq Column(x, l, h)
        BY <1>3 DEF Column
    <2>5. s = Column(x, l, h)
        BY <2>2, <2>3, <2>4 DEF WordsOn
    <2>6. <<x, l>> \in s /\ <<x, h>> \in s
        BY <1>3, <2>5 DEF Column
    <2> QED  BY <1>3, <2>6 DEF Column
<1>4. lo - 1 \notin occupied
    <2> SUFFICES ASSUME lo - 1 \in occupied PROVE FALSE
        OBVIOUS
    <2>1. lo - 1 \in 0 .. Height - 1 /\ \A j \in lo - 1 .. hi : j = lo - 1 \/ j \in lo .. hi
        BY DEF OccupiedInColumn
    <2> QED  BY <1>2, <1>3, <2>1
<1>5. hi + 1 \notin occupied
    <2> SUFFICES ASSUME hi + 1 \in occupied PROVE FALSE
        OBVIOUS
    <2>1. hi + 1 \in 0 .. Height - 1 /\ \A j \in lo .. hi + 1 : j = hi + 1 \/ j \in lo .. hi
        BY DEF OccupiedInColumn
    <2> QED  BY <1>2, <1>3, <2>1
<1>6. Height - 1 \in Nat /\ hi \in lo .. Height - 1
    BY BoardAssumption
<1> HIDE DEF occupied
<1>7. FirstOfRun(occupied, y) = lo /\ LastOfRun(occupied, y, Height - 1) = hi
    BY <1>2, <1>4, <1>5, <1>6, RunIsFound
<1> QED  BY <1>7 DEF occupied

\* So it reads the word.
LEMMA RowIsRead ==
    ASSUME NEW b, NEW lo \in 0 .. Width - 1, NEW hi \in 0 .. Width - 1, NEW y \in 0 .. Height - 1,
           lo < hi, Row(lo, hi, y) \in WordsOn(b), NEW c \in Row(lo, hi, y)
    PROVE  HorizontalWord(b, c) = Spell(b, Row(lo, hi, y))
<1>1. c[1] \in lo .. hi /\ c[2] = y
    BY DEF Row
<1>2. /\ FirstOfRun(OccupiedInRow(b, c[2]), c[1]) = lo
      /\ LastOfRun(OccupiedInRow(b, c[2]), c[1], Width - 1) = hi
    BY <1>1, RowEnds
<1>3. HorizontalWord(b, c) = [k \in 1 .. hi - lo + 1 |-> b[<<lo + k - 1, y>>]]
    <2> DEFINE first == FirstOfRun(OccupiedInRow(b, c[2]), c[1])
               end == LastOfRun(OccupiedInRow(b, c[2]), c[1], Width - 1)
    <2>1. HorizontalWord(b, c) = [k \in 1 .. end - first + 1 |-> b[<<first + k - 1, c[2]>>]]
        BY DEF HorizontalWord, OccupiedInRow
    <2> HIDE DEF first, end
    <2>2. first = lo /\ end = hi
        BY <1>2 DEF first, end
    <2> QED  BY <1>1, <2>1, <2>2
<1>4. lo \in Int /\ hi \in Int /\ y \in Int /\ lo =< hi
    BY BoardAssumption
<1>5. Spell(b, Row(lo, hi, y)) = [k \in 1 .. hi - lo + 1 |-> b[<<lo + k - 1, y>>]]
    BY <1>4, RowIsSpelled
<1> QED  BY <1>3, <1>5

LEMMA ColumnIsRead ==
    ASSUME NEW b, NEW x \in 0 .. Width - 1, NEW lo \in 0 .. Height - 1, NEW hi \in 0 .. Height - 1,
           lo < hi, Column(x, lo, hi) \in WordsOn(b), NEW c \in Column(x, lo, hi)
    PROVE  VerticalWord(b, c) = Spell(b, Column(x, lo, hi))
<1>1. c[2] \in lo .. hi /\ c[1] = x
    BY DEF Column
<1>2. /\ FirstOfRun(OccupiedInColumn(b, c[1]), c[2]) = lo
      /\ LastOfRun(OccupiedInColumn(b, c[1]), c[2], Height - 1) = hi
    BY <1>1, ColumnEnds
<1>3. VerticalWord(b, c) = [k \in 1 .. hi - lo + 1 |-> b[<<x, lo + k - 1>>]]
    <2> DEFINE first == FirstOfRun(OccupiedInColumn(b, c[1]), c[2])
               end == LastOfRun(OccupiedInColumn(b, c[1]), c[2], Height - 1)
    <2>1. VerticalWord(b, c) = [k \in 1 .. end - first + 1 |-> b[<<c[1], first + k - 1>>]]
        BY DEF VerticalWord, OccupiedInColumn
    <2> HIDE DEF first, end
    <2>2. first = lo /\ end = hi
        BY <1>2 DEF first, end
    <2> QED  BY <1>1, <2>1, <2>2
<1>4. lo \in Int /\ hi \in Int /\ x \in Int /\ lo =< hi
    BY BoardAssumption
<1>5. Spell(b, Column(x, lo, hi)) = [k \in 1 .. hi - lo + 1 |-> b[<<x, lo + k - 1>>]]
    BY <1>4, ColumnIsSpelled
<1> QED  BY <1>3, <1>5

\* Two words of a row, or of a column, have no cell in common.
LEMMA RowsAreApart ==
    ASSUME NEW b,
           NEW lo \in 0 .. Width - 1, NEW hi \in 0 .. Width - 1, NEW y \in 0 .. Height - 1,
           lo < hi, Row(lo, hi, y) \in WordsOn(b),
           NEW l \in 0 .. Width - 1, NEW h \in 0 .. Width - 1, NEW z \in 0 .. Height - 1,
           l < h, Row(l, h, z) \in WordsOn(b),
           NEW c, c \in Row(lo, hi, y), c \in Row(l, h, z)
    PROVE  Row(lo, hi, y) = Row(l, h, z)
<1>1. z = y /\ c[1] \in lo .. hi /\ c[1] \in l .. h
    BY DEF Row
<1>2. /\ FirstOfRun(OccupiedInRow(b, y), c[1]) = lo
      /\ LastOfRun(OccupiedInRow(b, y), c[1], Width - 1) = hi
    BY <1>1, RowEnds
<1>3. /\ FirstOfRun(OccupiedInRow(b, y), c[1]) = l
      /\ LastOfRun(OccupiedInRow(b, y), c[1], Width - 1) = h
    BY <1>1, RowEnds
<1> QED  BY <1>1, <1>2, <1>3

LEMMA ColumnsAreApart ==
    ASSUME NEW b,
           NEW x \in 0 .. Width - 1, NEW lo \in 0 .. Height - 1, NEW hi \in 0 .. Height - 1,
           lo < hi, Column(x, lo, hi) \in WordsOn(b),
           NEW z \in 0 .. Width - 1, NEW l \in 0 .. Height - 1, NEW h \in 0 .. Height - 1,
           l < h, Column(z, l, h) \in WordsOn(b),
           NEW c, c \in Column(x, lo, hi), c \in Column(z, l, h)
    PROVE  Column(x, lo, hi) = Column(z, l, h)
<1>1. z = x /\ c[2] \in lo .. hi /\ c[2] \in l .. h
    BY DEF Column
<1>2. /\ FirstOfRun(OccupiedInColumn(b, x), c[2]) = lo
      /\ LastOfRun(OccupiedInColumn(b, x), c[2], Height - 1) = hi
    BY <1>1, ColumnEnds
<1>3. /\ FirstOfRun(OccupiedInColumn(b, x), c[2]) = l
      /\ LastOfRun(OccupiedInColumn(b, x), c[2], Height - 1) = h
    BY <1>1, ColumnEnds
<1> QED  BY <1>1, <1>2, <1>3

\* A run of a row is a word.
LEMMA RunIsRow ==
    ASSUME NEW b, NEW lo \in 0 .. Width - 1, NEW hi \in 0 .. Width - 1, NEW y \in 0 .. Height - 1,
           lo < hi, \A j \in lo .. hi : j \in OccupiedInRow(b, y),
           lo - 1 \notin OccupiedInRow(b, y), hi + 1 \notin OccupiedInRow(b, y)
    PROVE  Row(lo, hi, y) \in WordsOn(b)
<1> DEFINE s == Row(lo, hi, y)
<1>1. s \in Segments
    <2>1. Cardinality(s) >= 2
        BY StretchSize, BoardAssumption
    <2> QED  BY <2>1 DEF Segments, Row
<1>2. \A c \in s : b[c] # NoLetter
    BY DEF Row, OccupiedInRow
<1>3. ASSUME NEW t \in Segments, \A c \in t : b[c] # NoLetter, s \subseteq t
      PROVE  s = t
    <2>1. <<lo, y>> \in t /\ <<hi, y>> \in t
        BY <1>3, BoardAssumption DEF Row
    <2>2. CASE \E l, h \in 0 .. Width - 1, z \in 0 .. Height - 1 : t = (l .. h) \X {z}
        <3>1. PICK l \in 0 .. Width - 1, h \in 0 .. Width - 1, z \in 0 .. Height - 1 : t = (l .. h) \X {z}
            BY <2>2
        <3>2. z = y /\ lo \in l .. h /\ hi \in l .. h
            BY <2>1, <3>1
        <3>3. \A j \in l .. h : j \in OccupiedInRow(b, y)
            BY <1>3, <3>1, <3>2, BoardAssumption DEF OccupiedInRow
        <3>4. l = lo
            BY <3>2, <3>3, BoardAssumption
        <3>5. h = hi
            BY <3>2, <3>3, BoardAssumption
        <3> QED  BY <3>1, <3>2, <3>4, <3>5 DEF Row
    <2>3. CASE \E x \in 0 .. Width - 1, l, h \in 0 .. Height - 1 : t = {x} \X (l .. h)
        BY <2>1, <2>3, BoardAssumption
    <2> QED  BY <2>2, <2>3 DEF Segments
<1> QED  BY <1>1, <1>2, <1>3 DEF WordsOn

LEMMA RunIsColumn ==
    ASSUME NEW b, NEW x \in 0 .. Width - 1, NEW lo \in 0 .. Height - 1, NEW hi \in 0 .. Height - 1,
           lo < hi, \A j \in lo .. hi : j \in OccupiedInColumn(b, x),
           lo - 1 \notin OccupiedInColumn(b, x), hi + 1 \notin OccupiedInColumn(b, x)
    PROVE  Column(x, lo, hi) \in WordsOn(b)
<1> DEFINE s == Column(x, lo, hi)
<1>1. s \in Segments
    <2>1. Cardinality(s) >= 2
        BY StretchSize, BoardAssumption
    <2> QED  BY <2>1 DEF Segments, Column
<1>2. \A c \in s : b[c] # NoLetter
    BY DEF Column, OccupiedInColumn
<1>3. ASSUME NEW t \in Segments, \A c \in t : b[c] # NoLetter, s \subseteq t
      PROVE  s = t
    <2>1. <<x, lo>> \in t /\ <<x, hi>> \in t
        BY <1>3, BoardAssumption DEF Column
    <2>2. CASE \E z \in 0 .. Width - 1, l, h \in 0 .. Height - 1 : t = {z} \X (l .. h)
        <3>1. PICK z \in 0 .. Width - 1, l \in 0 .. Height - 1, h \in 0 .. Height - 1 : t = {z} \X (l .. h)
            BY <2>2
        <3>2. z = x /\ lo \in l .. h /\ hi \in l .. h
            BY <2>1, <3>1
        <3>3. \A j \in l .. h : j \in OccupiedInColumn(b, x)
            BY <1>3, <3>1, <3>2, BoardAssumption DEF OccupiedInColumn
        <3>4. l = lo
            BY <3>2, <3>3, BoardAssumption
        <3>5. h = hi
            BY <3>2, <3>3, BoardAssumption
        <3> QED  BY <3>1, <3>2, <3>4, <3>5 DEF Column
    <2>3. CASE \E l, h \in 0 .. Width - 1, y \in 0 .. Height - 1 : t = (l .. h) \X {y}
        BY <2>1, <2>3, BoardAssumption
    <2> QED  BY <2>2, <2>3 DEF Segments
<1> QED  BY <1>1, <1>2, <1>3 DEF WordsOn

-----------------------------------------------------------------------------
(***************************************************************************)
(* The tiles of a placement and the words along its line, and what a walk  *)
(* reads at a cell of a word.                                              *)
(***************************************************************************)
IsRow(b, s) ==
    \E lo, hi \in 0 .. Width - 1, y \in 0 .. Height - 1 :
        lo < hi /\ s = Row(lo, hi, y) /\ s \in WordsOn(b)

IsColumn(b, s) ==
    \E x \in 0 .. Width - 1, lo, hi \in 0 .. Height - 1 :
        lo < hi /\ s = Column(x, lo, hi) /\ s \in WordsOn(b)

\* The tiles of a placement without gaps that share a cell with a word along their
\* line are all in it: so is the first.
LEMMA FirstTileInRow ==
    ASSUME NEW b, NEW p, InBoard(p), Horizontal(p), p.coordinates \in Seq(Seq(Int)),
           Gapless(b, p), NEW s, IsRow(With(b, p), s),
           NEW i \in DOMAIN p.coordinates, At(p, i) \in s
    PROVE  At(p, 1) \in s
<1> DEFINE n == With(b, p)
<1>1. 1 \in DOMAIN p.coordinates
    OBVIOUS
<1>2. At(p, 1)[2] = At(p, i)[2]
    BY DEF Horizontal
<1>3. At(p, 1) \in CellsOf(p) /\ At(p, i) \in CellsOf(p)
    BY <1>1 DEF CellsOf
<1>4. CASE \E c : CellsOf(p) = {c}
    BY <1>3, <1>4
<1>5. ASSUME NEW t \in WordsOn(n), CellsOf(p) \subseteq t
      PROVE  At(p, 1) \in s
    <2>1. At(p, 1) \in t /\ At(p, i) \in t
        BY <1>3, <1>5
    <2>2. CASE IsRow(n, t)
        BY <2>1, <2>2, RowsAreApart DEF IsRow
    <2>3. CASE IsColumn(n, t)
        <3>1. At(p, 1)[1] = At(p, i)[1]
            BY <2>1, <2>3 DEF IsColumn, Column
        <3> QED  BY <1>2, <3>1 DEF At
    <2> QED  BY <2>2, <2>3, WordsAreStretches DEF IsRow, IsColumn
<1> QED  BY <1>4, <1>5 DEF Gapless

LEMMA FirstTileInColumn ==
    ASSUME NEW b, NEW p, InBoard(p), Vertical(p), p.coordinates \in Seq(Seq(Int)),
           Gapless(b, p), NEW s, IsColumn(With(b, p), s),
           NEW i \in DOMAIN p.coordinates, At(p, i) \in s
    PROVE  At(p, 1) \in s
<1> DEFINE n == With(b, p)
<1>1. 1 \in DOMAIN p.coordinates
    OBVIOUS
<1>2. At(p, 1)[1] = At(p, i)[1]
    BY DEF Vertical
<1>3. At(p, 1) \in CellsOf(p) /\ At(p, i) \in CellsOf(p)
    BY <1>1 DEF CellsOf
<1>4. CASE \E c : CellsOf(p) = {c}
    BY <1>3, <1>4
<1>5. ASSUME NEW t \in WordsOn(n), CellsOf(p) \subseteq t
      PROVE  At(p, 1) \in s
    <2>1. At(p, 1) \in t /\ At(p, i) \in t
        BY <1>3, <1>5
    <2>2. CASE IsColumn(n, t)
        BY <2>1, <2>2, ColumnsAreApart DEF IsColumn
    <2>3. CASE IsRow(n, t)
        <3>1. At(p, 1)[2] = At(p, i)[2]
            BY <2>1, <2>3 DEF IsRow, Row
        <3> QED  BY <1>2, <3>1 DEF At
    <2> QED  BY <2>2, <2>3, WordsAreStretches DEF IsRow, IsColumn
<1> QED  BY <1>4, <1>5 DEF Gapless

\* A word at the cell of a walk is what the walk reads, and it is not dropped.
LEMMA WalkReads ==
    ASSUME NEW b, NEW p, NEW s, NEW axis, NEW i,
           \/ axis = "x" /\ IsRow(b, s)
           \/ axis = "y" /\ IsColumn(b, s),
           At(p, i) \in s
    PROVE  /\ WordAt(b, p, <<axis, i>>) = Spell(b, s)
           /\ Len(Spell(b, s)) > 1
<1>1. CASE axis = "x" /\ IsRow(b, s)
    <2>1. PICK lo \in 0 .. Width - 1, hi \in 0 .. Width - 1, y \in 0 .. Height - 1 :
            lo < hi /\ s = Row(lo, hi, y) /\ s \in WordsOn(b)
        BY <1>1 DEF IsRow
    <2>2. HorizontalWord(b, At(p, i)) = Spell(b, s)
        BY <2>1, RowIsRead
    <2>3. Spell(b, s) = [k \in 1 .. hi - lo + 1 |-> b[<<lo + k - 1, y>>]]
        <3>1. lo \in Int /\ hi \in Int /\ y \in Int /\ lo =< hi
            BY <2>1, BoardAssumption
        <3>2. Spell(b, Row(lo, hi, y)) = [k \in 1 .. hi - lo + 1 |-> b[<<lo + k - 1, y>>]]
            BY <3>1, RowIsSpelled
        <3> QED  BY <2>1, <3>2
    <2>4. Len(Spell(b, s)) = hi - lo + 1
        BY <2>1, <2>3, BoardAssumption
    <2> QED  BY <1>1, <2>1, <2>2, <2>4, BoardAssumption DEF WordAt
<1>2. CASE axis = "y" /\ IsColumn(b, s)
    <2>1. PICK x \in 0 .. Width - 1, lo \in 0 .. Height - 1, hi \in 0 .. Height - 1 :
            lo < hi /\ s = Column(x, lo, hi) /\ s \in WordsOn(b)
        BY <1>2 DEF IsColumn
    <2>2. VerticalWord(b, At(p, i)) = Spell(b, s)
        BY <2>1, ColumnIsRead
    <2>3. Spell(b, s) = [k \in 1 .. hi - lo + 1 |-> b[<<x, lo + k - 1>>]]
        <3>1. lo \in Int /\ hi \in Int /\ x \in Int /\ lo =< hi
            BY <2>1, BoardAssumption
        <3>2. Spell(b, Column(x, lo, hi)) = [k \in 1 .. hi - lo + 1 |-> b[<<x, lo + k - 1>>]]
            BY <3>1, ColumnIsSpelled
        <3> QED  BY <2>1, <3>2
    <2>4. Len(Spell(b, s)) = hi - lo + 1
        BY <2>1, <2>3, BoardAssumption
    <2> QED  BY <1>2, <2>1, <2>2, <2>4, BoardAssumption DEF WordAt
<1> QED  BY <1>1, <1>2

-----------------------------------------------------------------------------
(***************************************************************************)
(* Walks and words.  Every walk that is not dropped is on one word, no two *)
(* walks are on the same one, and every word that contains a tile of a     *)
(* placement without gaps is on a walk: they add up to the same points.    *)
(***************************************************************************)
\* What a walk reads at an occupied cell, unless it is one letter, is a word.
LEMMA RowThroughCell ==
    ASSUME NEW b, NEW c \in Cells, b[c] # NoLetter, Len(HorizontalWord(b, c)) > 1
    PROVE  \E s : IsRow(b, s) /\ c \in s
<1> DEFINE x == c[1]
           y == c[2]
           occupied == OccupiedInRow(b, y)
<1>1. /\ x \in 0 .. Width - 1 /\ y \in 0 .. Height - 1 /\ c = <<x, y>>
      /\ Width - 1 \in Nat
    BY BoardAssumption DEF Cells
<1>2. occupied \in SUBSET (0 .. Width - 1) /\ x \in occupied
    BY <1>1 DEF OccupiedInRow
<1> HIDE DEF occupied
<1>3. PICK lo \in 0 .. x, hi \in x .. Width - 1 :
        /\ \A j \in lo .. hi : j \in occupied
        /\ lo - 1 \notin occupied
        /\ hi + 1 \notin occupied
    BY <1>1, <1>2, RunExists
<1>4. FirstOfRun(occupied, x) = lo /\ LastOfRun(occupied, x, Width - 1) = hi
    BY <1>1, <1>3, RunIsFound
<1>5. HorizontalWord(b, c) = [k \in 1 .. hi - lo + 1 |-> b[<<lo + k - 1, c[2]>>]]
    BY <1>4 DEF HorizontalWord, OccupiedInRow, occupied
<1>6. lo < hi
    BY <1>1, <1>3, <1>5
<1>7. Row(lo, hi, y) \in WordsOn(b)
    BY <1>1, <1>3, <1>6, RunIsRow DEF occupied
<1>8. c \in Row(lo, hi, y)
    BY <1>1, <1>3 DEF Row
<1>9. lo \in 0 .. Width - 1 /\ hi \in 0 .. Width - 1
    BY <1>1, <1>3
<1> QED  BY <1>1, <1>6, <1>7, <1>8, <1>9 DEF IsRow

LEMMA ColumnThroughCell ==
    ASSUME NEW b, NEW c \in Cells, b[c] # NoLetter, Len(VerticalWord(b, c)) > 1
    PROVE  \E s : IsColumn(b, s) /\ c \in s
<1> DEFINE x == c[1]
           y == c[2]
           occupied == OccupiedInColumn(b, x)
<1>1. /\ x \in 0 .. Width - 1 /\ y \in 0 .. Height - 1 /\ c = <<x, y>>
      /\ Height - 1 \in Nat
    BY BoardAssumption DEF Cells
<1>2. occupied \in SUBSET (0 .. Height - 1) /\ y \in occupied
    BY <1>1 DEF OccupiedInColumn
<1> HIDE DEF occupied
<1>3. PICK lo \in 0 .. y, hi \in y .. Height - 1 :
        /\ \A j \in lo .. hi : j \in occupied
        /\ lo - 1 \notin occupied
        /\ hi + 1 \notin occupied
    BY <1>1, <1>2, RunExists
<1>4. FirstOfRun(occupied, y) = lo /\ LastOfRun(occupied, y, Height - 1) = hi
    BY <1>1, <1>3, RunIsFound
<1>5. VerticalWord(b, c) = [k \in 1 .. hi - lo + 1 |-> b[<<c[1], lo + k - 1>>]]
    BY <1>4 DEF VerticalWord, OccupiedInColumn, occupied
<1>6. lo < hi
    BY <1>1, <1>3, <1>5
<1>7. Column(x, lo, hi) \in WordsOn(b)
    BY <1>1, <1>3, <1>6, RunIsColumn DEF occupied
<1>8. c \in Column(x, lo, hi)
    BY <1>1, <1>3 DEF Column
<1>9. lo \in 0 .. Height - 1 /\ hi \in 0 .. Height - 1
    BY <1>1, <1>3
<1> QED  BY <1>1, <1>6, <1>7, <1>8, <1>9 DEF IsColumn

\* The cell of a tile holds a letter once the tile is there.
LEMMA TileLands ==
    ASSUME NEW b, NEW p \in PlacementType, WellFormed(p), InBoard(p), NEW i \in DOMAIN p.coordinates
    PROVE  At(p, i) \in Cells /\ With(b, p)[At(p, i)] # NoLetter
<1>1. At(p, i) \in Cells
    BY DEF InBoard
<1>2. i \in DOMAIN p.tiles
    BY SameDomain
<1> DEFINE k == CHOOSE j \in DOMAIN p.tiles : At(p, j) = At(p, i)
<1>3. k \in DOMAIN p.tiles
    BY <1>2
<1>4. p.tiles[k] \in Letters
    BY <1>3 DEF PlacementType
<1>5. With(b, p)[At(p, i)] = p.tiles[k]
    BY <1>1, <1>2 DEF With
<1> QED  BY <1>1, <1>4, <1>5, BoardAssumption

\* The word a walk is on.
OnWalk(n, p, walk, s) ==
    /\ At(p, walk[2]) \in s
    /\ \/ walk[1] = "x" /\ IsRow(n, s)
       \/ walk[1] = "y" /\ IsColumn(n, s)

WordOf(n, p, walk) == CHOOSE s : OnWalk(n, p, walk, s)

\* A walk is on at most one word.
LEMMA OneWordOnAWalk ==
    ASSUME NEW n, NEW p, NEW walk, NEW s, OnWalk(n, p, walk, s), NEW t, OnWalk(n, p, walk, t)
    PROVE  s = t
<1>1. CASE IsRow(n, s) /\ IsRow(n, t)
    BY <1>1, RowsAreApart DEF OnWalk, IsRow
<1>2. CASE IsColumn(n, s) /\ IsColumn(n, t)
    BY <1>2, ColumnsAreApart DEF OnWalk, IsColumn
<1> QED  BY <1>1, <1>2 DEF OnWalk

LEMMA WalkParts ==
    ASSUME NEW p, p.coordinates \in Seq(Seq(Int)), p.coordinates # <<>>, NEW walk \in Walks(p)
    PROVE  /\ walk[2] \in DOMAIN p.coordinates
           /\ walk[1] \in {"x", "y"}
           /\ walk = <<walk[1], walk[2]>>
           /\ Horizontal(p) /\ walk[1] = "x" => walk[2] = 1
           /\ ~Horizontal(p) /\ walk[1] = "y" => walk[2] = 1
<1>1. 1 \in DOMAIN p.coordinates
    OBVIOUS
<1> QED  BY <1>1 DEF Walks

\* A walk that reads two letters or more is on a word and reads that word.
LEMMA WalkIsOnAWord ==
    ASSUME NEW b, NEW p \in PlacementType, WellFormed(p), Legal(b, p),
           NEW walk \in DOMAIN NewWords(With(b, p), p)
    PROVE  LET n == With(b, p)
           IN  /\ OnWalk(n, p, walk, WordOf(n, p, walk))
               /\ WordOf(n, p, walk) \in FormedBy(b, p)
               /\ NewWords(n, p)[walk] = Spell(n, WordOf(n, p, walk))
<1> DEFINE n == With(b, p)
           c == At(p, walk[2])
<1>1. InBoard(p) /\ p.coordinates # <<>> /\ p.coordinates \in Seq(Seq(Int))
    BY DEF Legal, PlacementType
<1>2. /\ walk \in Walks(p) /\ Len(WordAt(n, p, walk)) > 1
      /\ NewWords(n, p)[walk] = WordAt(n, p, walk)
    BY DEF NewWords
<1>3. walk[2] \in DOMAIN p.coordinates /\ walk[1] \in {"x", "y"}
    BY <1>1, <1>2, WalkParts
<1>4. c \in Cells /\ n[c] # NoLetter
    BY <1>1, <1>3, TileLands
<1> HIDE DEF n
<1>5. \E s : OnWalk(n, p, walk, s)
    <2>1. CASE walk[1] = "x"
        <3>1. Len(HorizontalWord(n, c)) > 1
            BY <1>2, <2>1 DEF WordAt
        <3> QED  BY <1>4, <2>1, <3>1, RowThroughCell DEF OnWalk
    <2>2. CASE walk[1] = "y"
        <3>1. Len(VerticalWord(n, c)) > 1
            BY <1>2, <2>2 DEF WordAt
        <3> QED  BY <1>4, <2>2, <3>1, ColumnThroughCell DEF OnWalk
    <2> QED  BY <1>3, <2>1, <2>2
<1> DEFINE s == WordOf(n, p, walk)
<1>6. OnWalk(n, p, walk, s)
    BY <1>5 DEF WordOf
<1> HIDE DEF s
<1>7. s \in WordsOn(n) /\ c \in s
    BY <1>6 DEF OnWalk, IsRow, IsColumn
<1>8. s \in FormedBy(b, p)
    BY <1>3, <1>7 DEF FormedBy, CellsOf, n
<1>9. WordAt(n, p, walk) = Spell(n, s)
    <2>1. CASE walk[1] = "x"
        <3>1. IsRow(n, s)
            BY <1>6, <2>1 DEF OnWalk
        <3> QED  BY <1>7, <2>1, <3>1, RowIsRead DEF IsRow, WordAt
    <2>2. CASE walk[1] = "y"
        <3>1. IsColumn(n, s)
            BY <1>6, <2>2 DEF OnWalk
        <3> QED  BY <1>7, <2>2, <3>1, ColumnIsRead DEF IsColumn, WordAt
    <2> QED  BY <1>3, <2>1, <2>2
<1> QED  BY <1>2, <1>6, <1>8, <1>9 DEF n, s

\* No word is found by two walks.
LEMMA WalksFindOtherWords ==
    ASSUME NEW b, NEW p \in PlacementType, Legal(b, p), NEW n, NEW s,
           NEW v \in Walks(p), NEW w \in Walks(p), OnWalk(n, p, v, s), OnWalk(n, p, w, s)
    PROVE  v = w
<1>1. p.coordinates # <<>> /\ p.coordinates \in Seq(Seq(Int))
    BY DEF Legal, PlacementType
<1>2. /\ v[2] \in DOMAIN p.coordinates /\ w[2] \in DOMAIN p.coordinates
      /\ v = <<v[1], v[2]>> /\ w = <<w[1], w[2]>>
    BY <1>1, WalkParts
<1>3. ~(IsRow(n, s) /\ IsColumn(n, s))
    <2> SUFFICES ASSUME IsRow(n, s), IsColumn(n, s)
                 PROVE  FALSE
        OBVIOUS
    <2>1. PICK lo \in 0 .. Width - 1, hi \in 0 .. Width - 1, y \in 0 .. Height - 1 :
            lo < hi /\ s = Row(lo, hi, y)
        BY DEF IsRow
    <2>2. <<lo, y>> \in s /\ <<hi, y>> \in s
        BY <2>1, BoardAssumption DEF Row
    <2>3. \A c, d \in s : c[1] = d[1]
        BY DEF IsColumn, Column
    <2>4. lo = hi
        BY <2>2, <2>3
    <2> QED  BY <2>1, <2>4, BoardAssumption
<1>4. v[1] = w[1]
    BY <1>3 DEF OnWalk
<1>5. v[2] = w[2]
    <2>1. At(p, v[2]) = At(p, w[2]) => v[2] = w[2]
        BY <1>2 DEF Legal, OnFreeCells
    <2>2. CASE v[1] = "x" /\ Horizontal(p)
        <3>1. v[2] = 1
            BY <1>1, <2>2, WalkParts
        <3>2. w[2] = 1
            BY <1>1, <1>4, <2>2, WalkParts
        <3> QED  BY <3>1, <3>2
    <2>5. CASE v[1] = "y" /\ ~Horizontal(p)
        <3>1. v[2] = 1
            BY <1>1, <2>5, WalkParts
        <3>2. w[2] = 1
            BY <1>1, <1>4, <2>5, WalkParts
        <3> QED  BY <3>1, <3>2
    <2>3. CASE v[1] = "x" /\ ~Horizontal(p)
        <3>1. At(p, v[2])[1] = At(p, w[2])[1]
            BY <1>2, <2>3 DEF Legal, Vertical
        <3>2. At(p, v[2])[2] = At(p, w[2])[2]
            BY <1>4, <2>3 DEF OnWalk, IsRow, Row
        <3> QED  BY <2>1, <3>1, <3>2 DEF At
    <2>4. CASE v[1] = "y" /\ Horizontal(p)
        <3>1. At(p, v[2])[2] = At(p, w[2])[2]
            BY <1>2, <2>4 DEF Horizontal
        <3>2. At(p, v[2])[1] = At(p, w[2])[1]
            BY <1>4, <2>4 DEF OnWalk, IsColumn, Column
        <3> QED  BY <2>1, <3>1, <3>2 DEF At
    <2>6. v[1] = "x" \/ v[1] = "y"
        BY DEF OnWalk
    <2>7. Horizontal(p) \/ ~Horizontal(p)
        OBVIOUS
    <2> QED  BY <2>2, <2>3, <2>4, <2>5, <2>6, <2>7
<1> QED  BY <1>2, <1>4, <1>5

\* Every word that contains a tile of a placement without gaps is on a walk.
LEMMA WordsAreWalked ==
    ASSUME NEW b, NEW p, p.coordinates \in Seq(Seq(Int)), Legal(b, p), Gapless(b, p),
           NEW s \in FormedBy(b, p)
    PROVE  \E walk \in Walks(p) : OnWalk(With(b, p), p, walk, s)
<1> DEFINE n == With(b, p)
<1>1. InBoard(p) /\ p.coordinates # <<>> /\ (Horizontal(p) \/ Vertical(p))
    BY DEF Legal
<1>2. PICK i \in DOMAIN p.coordinates : At(p, i) \in s
    BY DEF FormedBy, CellsOf
<1>3. IsRow(n, s) \/ IsColumn(n, s)
    BY WordsAreStretches DEF FormedBy, IsRow, IsColumn
<1>4. CASE IsRow(n, s) /\ Horizontal(p)
    <2>1. At(p, 1) \in s
        BY <1>1, <1>2, <1>4, FirstTileInRow
    <2>2. OnWalk(n, p, <<"x", 1>>, s) /\ <<"x", 1>> \in Walks(p)
        BY <1>4, <2>1 DEF OnWalk, Walks
    <2> QED  BY <2>2
<1>5. CASE IsRow(n, s) /\ ~Horizontal(p)
    <2>1. OnWalk(n, p, <<"x", i>>, s) /\ <<"x", i>> \in Walks(p)
        BY <1>2, <1>5 DEF OnWalk, Walks
    <2> QED  BY <2>1
<1>6. CASE IsColumn(n, s) /\ Horizontal(p)
    <2>1. OnWalk(n, p, <<"y", i>>, s) /\ <<"y", i>> \in Walks(p)
        BY <1>2, <1>6 DEF OnWalk, Walks
    <2> QED  BY <2>1
<1>7. CASE IsColumn(n, s) /\ ~Horizontal(p)
    <2>1. At(p, 1) \in s
        BY <1>1, <1>2, <1>7, FirstTileInColumn
    <2>2. OnWalk(n, p, <<"y", 1>>, s) /\ <<"y", 1>> \in Walks(p)
        BY <1>7, <2>1 DEF OnWalk, Walks
    <2> QED  BY <2>2
<1> QED  BY <1>3, <1>4, <1>5, <1>6, <1>7

\* A walk on a word reads it, and keeps it.
LEMMA WalkReadsItsWord ==
    ASSUME NEW n, NEW p, NEW walk \in Walks(p), NEW s, OnWalk(n, p, walk, s)
    PROVE  walk \in DOMAIN NewWords(n, p) /\ NewWords(n, p)[walk] = Spell(n, s)
<1>1. /\ At(p, walk[2]) \in s
      /\ \/ walk[1] = "x" /\ IsRow(n, s)
         \/ walk[1] = "y" /\ IsColumn(n, s)
    BY DEF OnWalk
<1>2. WordAt(n, p, walk) = WordAt(n, p, <<walk[1], walk[2]>>)
    BY DEF WordAt
<1>3. WordAt(n, p, walk) = Spell(n, s) /\ Len(Spell(n, s)) > 1
    BY <1>1, <1>2, WalkReads
<1> QED  BY <1>3 DEF NewWords

\* GetNewWords_ finds every word that contains a tile of the placement.
LEMMA WalksFindTheWords ==
    ASSUME NEW b, NEW p, p.coordinates \in Seq(Seq(Int)), Legal(b, p), Gapless(b, p),
           NEW s \in FormedBy(b, p)
    PROVE  \E walk \in DOMAIN NewWords(With(b, p), p) :
               NewWords(With(b, p), p)[walk] = Spell(With(b, p), s)
BY WordsAreWalked, WalkReadsItsWord

\* The cells of a word.
LEMMA WordsHaveCells ==
    ASSUME NEW b, NEW s \in WordsOn(b)
    PROVE  s \subseteq Cells /\ s # {}
<1>1. ASSUME NEW lo \in 0 .. Width - 1, NEW hi \in 0 .. Width - 1, NEW y \in 0 .. Height - 1,
             lo < hi
      PROVE  Row(lo, hi, y) \subseteq Cells /\ <<lo, y>> \in Row(lo, hi, y)
    BY <1>1, BoardAssumption DEF Row, Cells
<1>2. ASSUME NEW x \in 0 .. Width - 1, NEW lo \in 0 .. Height - 1, NEW hi \in 0 .. Height - 1,
             lo < hi
      PROVE  Column(x, lo, hi) \subseteq Cells /\ <<x, lo>> \in Column(x, lo, hi)
    BY <1>2, BoardAssumption DEF Column, Cells
<1>3. CASE \E lo, hi \in 0 .. Width - 1, y \in 0 .. Height - 1 : lo < hi /\ s = Row(lo, hi, y)
    <2>1. PICK lo \in 0 .. Width - 1, hi \in 0 .. Width - 1, y \in 0 .. Height - 1 :
            lo < hi /\ s = Row(lo, hi, y)
        BY <1>3
    <2> QED  BY <1>1, <2>1
<1>4. CASE \E x \in 0 .. Width - 1, lo, hi \in 0 .. Height - 1 : lo < hi /\ s = Column(x, lo, hi)
    <2>1. PICK x \in 0 .. Width - 1, lo \in 0 .. Height - 1, hi \in 0 .. Height - 1 :
            lo < hi /\ s = Column(x, lo, hi)
        BY <1>4
    <2> QED  BY <1>2, <2>1
<1> QED  BY <1>3, <1>4, WordsAreStretches

\* The points of the letters of a word are an integer.
LEMMA WordsScore ==
    ASSUME NEW n \in Boards, NEW s \in WordsOn(n)
    PROVE  WordScore(Spell(n, s)) \in Int
<1> DEFINE w == Spell(n, s)
           f == [k \in DOMAIN w |-> Points[w[k]]]
<1>1. \E size \in Nat :
        /\ DOMAIN w = 1 .. size
        /\ \A k \in 1 .. size : w[k] \in Letters
    <2>1. ASSUME NEW lo \in 0 .. Width - 1, NEW hi \in 0 .. Width - 1, NEW y \in 0 .. Height - 1,
                 lo < hi, s = Row(lo, hi, y)
          PROVE  \E size \in Nat : DOMAIN w = 1 .. size /\ \A k \in 1 .. size : w[k] \in Letters
        <3>1. lo \in Int /\ hi \in Int /\ y \in Int /\ lo =< hi
            BY <2>1, BoardAssumption
        <3>2. w = [k \in 1 .. hi - lo + 1 |-> n[<<lo + k - 1, y>>]]
            BY <2>1, <3>1, RowIsSpelled
        <3> HIDE DEF w
        <3>3. \A k \in 1 .. hi - lo + 1 : <<lo + k - 1, y>> \in s
            BY <2>1, <3>1 DEF Row
        <3>4. \A c \in s : n[c] \in Letters
            BY WordsHaveCells DEF WordsOn, Boards
        <3>5. hi - lo + 1 \in Nat
            BY <2>1, <3>1
        <3> QED  BY <3>2, <3>3, <3>4, <3>5
    <2>2. ASSUME NEW x \in 0 .. Width - 1, NEW lo \in 0 .. Height - 1, NEW hi \in 0 .. Height - 1,
                 lo < hi, s = Column(x, lo, hi)
          PROVE  \E size \in Nat : DOMAIN w = 1 .. size /\ \A k \in 1 .. size : w[k] \in Letters
        <3>1. lo \in Int /\ hi \in Int /\ x \in Int /\ lo =< hi
            BY <2>2, BoardAssumption
        <3>2. w = [k \in 1 .. hi - lo + 1 |-> n[<<x, lo + k - 1>>]]
            BY <2>2, <3>1, ColumnIsSpelled
        <3> HIDE DEF w
        <3>3. \A k \in 1 .. hi - lo + 1 : <<x, lo + k - 1>> \in s
            BY <2>2, <3>1 DEF Column
        <3>4. \A c \in s : n[c] \in Letters
            BY WordsHaveCells DEF WordsOn, Boards
        <3>5. hi - lo + 1 \in Nat
            BY <2>2, <3>1
        <3> QED  BY <3>2, <3>3, <3>4, <3>5
    <2> HIDE DEF w
    <2> QED  BY <2>1, <2>2, WordsAreStretches
<1> HIDE DEF w
<1>2. PICK size \in Nat : DOMAIN w = 1 .. size /\ \A k \in 1 .. size : w[k] \in Letters
    BY <1>1
<1>3. IsFiniteSet(DOMAIN w)
    BY <1>2, FS_Interval
<1>4. DOMAIN f = DOMAIN w /\ \A k \in DOMAIN w : f[k] \in Int
    BY <1>2, WordAssumption
<1>5. WordScore(w) = SumFunctionOnSet(f, DOMAIN w)
    BY <1>4 DEF WordScore, SumFunction
<1> HIDE DEF f
<1>6. WordScore(w) \in Int
    BY <1>3, <1>4, <1>5, SumTyped
<1> QED  BY <1>6 DEF w

\* The words a placement without gaps forms are worth what the walks add up.
LEMMA WalksAddUp ==
    ASSUME NEW b \in Boards, NEW p \in PlacementType, WellFormed(p), Legal(b, p), Gapless(b, p)
    PROVE  LET words == NewWords(With(b, p), p)
           IN  SumFunction([walk \in DOMAIN words |-> WordScore(words[walk])]) = FormedTotal(b, p)
<1> DEFINE n == With(b, p)
           words == NewWords(n, p)
           S == DOMAIN words
           T == FormedBy(b, p)
           f == [walk \in S |-> WordScore(words[walk])]
           g == [s \in T |-> WordScore(Spell(n, s))]
           h == [walk \in S |-> WordOf(n, p, walk)]
<1>0. n \in Boards /\ p.coordinates \in Seq(Seq(Int)) /\ p.coordinates # <<>>
    BY WithIsBoard DEF PlacementType, Legal
<1>1. \A walk \in S : OnWalk(n, p, walk, h[walk]) /\ h[walk] \in T /\ words[walk] = Spell(n, h[walk])
    BY WalkIsOnAWord
<1>2. S \subseteq Walks(p)
    BY DEF NewWords
<1> HIDE DEF words, n
<1>3. h \in [S -> T]
    BY <1>1
<1>4. \A v, w \in S : h[v] = h[w] => v = w
    BY <1>1, <1>2, WalksFindOtherWords
<1>5. \A s \in T : \E walk \in S : h[walk] = s
    <2> SUFFICES ASSUME NEW s \in T
                 PROVE  \E walk \in S : h[walk] = s
        OBVIOUS
    <2>1. PICK walk \in Walks(p) : OnWalk(n, p, walk, s)
        BY <1>0, WordsAreWalked DEF n
    <2>2. walk \in S
        BY <2>1, WalkReadsItsWord DEF words
    <2>3. h[walk] = s
        BY <1>1, <2>1, <2>2, OneWordOnAWalk
    <2> QED  BY <2>2, <2>3
<1>6. IsFiniteSet(S)
    <2>1. IsFiniteSet(DOMAIN p.coordinates)
        <3>1. PICK size \in Nat : DOMAIN p.coordinates = 1 .. size
            BY <1>0
        <3>2. IsFiniteSet(1 .. size)
            BY FS_Interval
        <3> QED  BY <3>1, <3>2
    <2>2. IsFiniteSet({"x", "y"})
        <3>1. {"x", "y"} = {"x"} \cup {"y"}
            OBVIOUS
        <3>2. IsFiniteSet({"x"}) /\ IsFiniteSet({"y"})
            BY FS_Singleton
        <3> QED  BY <3>1, <3>2, FS_Union
    <2>3. IsFiniteSet({"x", "y"} \X DOMAIN p.coordinates)
        <3> DEFINE A == {"x", "y"}
                   D == DOMAIN p.coordinates
        <3> HIDE DEF A, D
        <3>1. IsFiniteSet(A) /\ IsFiniteSet(D)
            BY <2>1, <2>2 DEF A, D
        <3>2. IsFiniteSet(A \X D)
            BY <3>1, FS_Product
        <3> QED  BY <3>2 DEF A, D
    <2>4. 1 \in DOMAIN p.coordinates
        BY <1>0
    <2> HIDE DEF S
    <2>5. S \subseteq {"x", "y"} \X DOMAIN p.coordinates
        <3>1. Walks(p) \subseteq {"x", "y"} \X DOMAIN p.coordinates
            BY <2>4 DEF Walks
        <3> QED  BY <1>2, <3>1
    <2> QED  BY <2>3, <2>5, FS_Subset
<1>7. IsFiniteSet(T)
    <2> HIDE DEF h, T, S
    <2>1. h \in Surjection(S, T)
        BY <1>3, <1>5 DEF Surjection
    <2> QED  BY <1>6, <2>1, FS_Surjection
<1>8. \A walk \in S : f[walk] \in Int /\ g[h[walk]] = f[walk]
    <2> SUFFICES ASSUME NEW walk \in S
                 PROVE  f[walk] \in Int /\ g[h[walk]] = f[walk]
        OBVIOUS
    <2>1. h[walk] \in T /\ f[walk] = WordScore(Spell(n, h[walk]))
        BY <1>1
    <2>2. h[walk] \in WordsOn(n)
        BY <2>1 DEF FormedBy, n
    <2> QED  BY <1>0, <2>1, <2>2, WordsScore
<1>9. DOMAIN f = S /\ DOMAIN g = T
    OBVIOUS
<1>10. SumFunction(g) = FormedTotal(b, p)
    BY DEF FormedTotal, n
<1> HIDE DEF S, T, f, g, h
<1>11. SumFunctionOnSet(f, S) = SumFunctionOnSet(g, T)
    BY <1>3, <1>4, <1>5, <1>6, <1>7, <1>8, SumRenamed
<1>12. SumFunction(f) = FormedTotal(b, p)
    BY <1>9, <1>10, <1>11 DEF SumFunction
<1> QED  BY <1>12 DEF f, S, words, n

-----------------------------------------------------------------------------
(***************************************************************************)
(* The game.  What was looked up when a placement was checked is what the  *)
(* board spells when it is submitted.                                      *)
(***************************************************************************)
\* The words of a placement that SubmitWord would accept were accepted, and its
\* points are theirs.
PendingIsKnown ==
    score # -1 =>
        LET words == NewWords(With(board, new_tiles), new_tiles)
        IN  /\ \A walk \in DOMAIN words : words[walk] \in Dictionary
            /\ score = SumFunction([walk \in DOMAIN words |-> WordScore(words[walk])])

LEMMA NextKnown == Inv /\ PendingIsKnown /\ [Next]_vars => PendingIsKnown'
<1> SUFFICES ASSUME Inv, PendingIsKnown, [Next]_vars
             PROVE  PendingIsKnown'
    OBVIOUS
<1>1. CASE UNCHANGED <<board, new_tiles, score>>
    BY <1>1 DEF PendingIsKnown
<1>2. CASE score' = -1
    BY <1>2 DEF PendingIsKnown
<1>3. ASSUME NEW p \in Placements, TryPlaceTiles(p), score' # -1
      PROVE  PendingIsKnown'
    <2>1. /\ WellFormed(p) /\ Legal(board, p) /\ board \in Boards
          /\ new_tiles' = p /\ score' = PlacementScore(board, p) /\ board' = board
        BY <1>3 DEF TryPlaceTiles, tableVars, Inv, TypeOK
    <2>2. PlacementScoreOf(board, p) # -1 /\ score' = PlacementScoreOf(board, p)
        BY <1>3, <2>1, RulesAssumption
    <2>3. LET words == NewWords(With(board, p), p)
          IN  /\ \A walk \in DOMAIN words : words[walk] \in Dictionary
              /\ score' = SumFunction([walk \in DOMAIN words |-> WordScore(words[walk])])
        BY <2>2 DEF PlacementScoreOf
    <2> QED  BY <2>1, <2>3 DEF PendingIsKnown
<1>4. CASE Next
    <2>1. CASE \E ps \in Rosters : SetPlayers(ps)
        BY <1>1, <2>1 DEF SetPlayers, pendingVars
    <2>2. CASE OutOfBounds
        BY <1>1, <2>2 DEF OutOfBounds, pendingVars, tableVars
    <2>3. CASE \E p \in Placements : TryPlaceTiles(p)
        BY <1>2, <1>3, <2>3
    <2>4. CASE SubmitWord \/ Pass
        BY <1>2, <2>4 DEF SubmitWord, Pass, EndTurn
    <2>5. CASE \E i \in DOMAIN players, request \in Requests : Change(i, request)
        BY <1>2, <2>5 DEF Change, EndTurn
    <2>6. CASE \E i \in DOMAIN players, request \in Requests : ChangeRefused(i, request)
        BY <1>1, <2>6 DEF ChangeRefused, pendingVars
    <2> QED
        BY <1>4, <2>1, <2>2, <2>3, <2>4, <2>5, <2>6
        DEF Next, Move, SetPlayersOutOfBounds, SubmitWordOutOfBounds, ChangeOutOfBounds
<1>5. CASE UNCHANGED vars
    BY <1>1, <1>5 DEF vars
<1> QED  BY <1>4, <1>5

\* Whatever has been placed, refused or passed over in between, the words that
\* SubmitWord puts on the board are words word_checker was asked for and accepted,
\* when the placement was checked, and the points it credits are those of these
\* words (ScrabbleGame.cpp:154-168, 290-300).
THEOREM PendingStaysKnown == Spec => []PendingIsKnown
<1>1. Init => PendingIsKnown
    BY DEF Init, PendingIsKnown
<1> QED  BY <1>1, NextKnown, Invariance, PTL DEF Spec

\* The points SubmitWord would credit for a placement without gaps are those of
\* the words on the board that contain one of its tiles, each counted once however
\* many of its tiles are new: no word is walked twice and none is left out
\* (ScrabbleGame.cpp:316-353), on every board and for every placement.
THEOREM PendingScoreStaysTotal == Spec => []PendingScoreIsWordTotal
<1>1. Inv /\ PendingIsLegal /\ PendingIsKnown => PendingScoreIsWordTotal
    <2> SUFFICES ASSUME Inv, PendingIsLegal, PendingIsKnown,
                        score # -1, Gapless(board, new_tiles)
                 PROVE  score = FormedTotal(board, new_tiles)
        BY DEF PendingScoreIsWordTotal
    <2>1. /\ board \in Boards /\ new_tiles \in PlacementType
          /\ WellFormed(new_tiles) /\ Legal(board, new_tiles)
        BY DEF PendingIsLegal, Inv, TypeOK
    <2>2. LET words == NewWords(With(board, new_tiles), new_tiles)
          IN  /\ score = SumFunction([walk \in DOMAIN words |-> WordScore(words[walk])])
              /\ SumFunction([walk \in DOMAIN words |-> WordScore(words[walk])])
                     = FormedTotal(board, new_tiles)
        BY <2>1, WalksAddUp DEF PendingIsKnown
    <2> QED  BY <2>2
<1> QED  BY <1>1, Invariance, PendingStaysLegal, PendingStaysKnown, PTL

\* Every word that a submission without gaps forms on any board was accepted by
\* word_checker: the ones that its tiles extend or join, along their line and
\* across it, also those the walk reads at the first tile only
\* (ScrabbleGame.cpp:316-353).
THEOREM SubmittedWordsAreKnown == Spec => SubmittedWordsAreInDictionary
<1> DEFINE Known ==
        board' # board /\ Gapless(board, new_tiles) =>
            \A s \in FormedBy(board, new_tiles) : Spell(board', s) \in Dictionary
<1>1. Inv /\ PendingIsLegal /\ PendingIsKnown /\ [Next]_vars => [Known]_vars
    <2> SUFFICES ASSUME Inv, PendingIsLegal, PendingIsKnown, [Next]_vars,
                        board' # board, Gapless(board, new_tiles),
                        NEW s \in FormedBy(board, new_tiles)
                 PROVE  Spell(board', s) \in Dictionary
        OBVIOUS
    <2>1. SubmitWord
        BY StepKinds DEF SetPlayers
    <2>2. board' = With(board, new_tiles) /\ score # -1
        BY <2>1 DEF SubmitWord
    <2>3. Legal(board, new_tiles) /\ new_tiles.coordinates \in Seq(Seq(Int))
        BY <2>2 DEF PendingIsLegal, Inv, TypeOK, PlacementType
    <2>4. PICK walk \in DOMAIN NewWords(board', new_tiles) :
            NewWords(board', new_tiles)[walk] = Spell(board', s)
        BY <2>2, <2>3, WalksFindTheWords
    <2> QED  BY <2>2, <2>4 DEF PendingIsKnown
<1> QED
    BY <1>1, Invariance, PendingStaysLegal, PendingStaysKnown, PTL
    DEF Spec, SubmittedWordsAreInDictionary

-----------------------------------------------------------------------------
(***************************************************************************)
(* The board.  Gaps are the only way a word gets on it that was not looked *)
(* up.                                                                     *)
(***************************************************************************)
\* What is read depends on the cells of the word only.
LEMMA SameSpelling ==
    ASSUME NEW b, NEW n, NEW s \in WordsOn(n), \A c \in s : n[c] = b[c]
    PROVE  Spell(n, s) = Spell(b, s)
<1>1. ASSUME NEW lo \in 0 .. Width - 1, NEW hi \in 0 .. Width - 1, NEW y \in 0 .. Height - 1,
             lo < hi, s = Row(lo, hi, y)
      PROVE  Spell(n, s) = Spell(b, s)
    <2>1. lo \in Int /\ hi \in Int /\ y \in Int /\ lo =< hi
        BY <1>1, BoardAssumption
    <2>2. /\ Spell(n, s) = [k \in 1 .. hi - lo + 1 |-> n[<<lo + k - 1, y>>]]
          /\ Spell(b, s) = [k \in 1 .. hi - lo + 1 |-> b[<<lo + k - 1, y>>]]
        BY <1>1, <2>1, RowIsSpelled
    <2>3. \A k \in 1 .. hi - lo + 1 : <<lo + k - 1, y>> \in s
        BY <1>1, <2>1 DEF Row
    <2> QED  BY <2>2, <2>3
<1>2. ASSUME NEW x \in 0 .. Width - 1, NEW lo \in 0 .. Height - 1, NEW hi \in 0 .. Height - 1,
             lo < hi, s = Column(x, lo, hi)
      PROVE  Spell(n, s) = Spell(b, s)
    <2>1. lo \in Int /\ hi \in Int /\ x \in Int /\ lo =< hi
        BY <1>2, BoardAssumption
    <2>2. /\ Spell(n, s) = [k \in 1 .. hi - lo + 1 |-> n[<<x, lo + k - 1>>]]
          /\ Spell(b, s) = [k \in 1 .. hi - lo + 1 |-> b[<<x, lo + k - 1>>]]
        BY <1>2, <2>1, ColumnIsSpelled
    <2>3. \A k \in 1 .. hi - lo + 1 : <<x, lo + k - 1>> \in s
        BY <1>2, <2>1 DEF Column
    <2> QED  BY <2>2, <2>3
<1> QED  BY <1>1, <1>2, WordsAreStretches

\* A word without a new tile was there before.
LEMMA OldWordsStay ==
    ASSUME NEW b \in Boards, NEW p \in PlacementType, WellFormed(p), Legal(b, p),
           NEW s \in WordsOn(With(b, p)), s \cap CellsOf(p) = {}
    PROVE  s \in WordsOn(b) /\ Spell(With(b, p), s) = Spell(b, s)
<1> DEFINE n == With(b, p)
<1>1. s \subseteq Cells
    BY WordsHaveCells
<1>2. \A c \in s : n[c] = b[c]
    <2>1. \A c \in s : ~\E i \in DOMAIN p.tiles : At(p, i) = c
        BY SameDomain DEF CellsOf
    <2> QED  BY <1>1, <2>1 DEF With
<1>3. s \in Segments /\ \A c \in s : b[c] # NoLetter
    BY <1>2 DEF WordsOn
<1>4. ASSUME NEW t \in Segments, \A c \in t : b[c] # NoLetter, s \subseteq t
      PROVE  s = t
    <2>1. t \subseteq Cells
        <3>1. CASE \E x, hi \in 0 .. Width - 1, y \in 0 .. Height - 1 : t = (x .. hi) \X {y}
            BY <3>1, BoardAssumption DEF Cells
        <3>2. CASE \E x \in 0 .. Width - 1, y, hi \in 0 .. Height - 1 : t = {x} \X (y .. hi)
            BY <3>2, BoardAssumption DEF Cells
        <3> QED  BY <1>4, <3>1, <3>2 DEF Segments
    <2>2. \A c \in t : n[c] # NoLetter
        BY <1>4, <2>1, WithKeepsLetters
    <2> QED  BY <1>4, <2>2 DEF WordsOn
<1>5. s \in WordsOn(b)
    BY <1>3, <1>4 DEF WordsOn
<1>6. Spell(n, s) = Spell(b, s)
    BY <1>2, SameSpelling
<1> QED  BY <1>5, <1>6

\* In a game whose submissions leave no gap, every word that can be read on the
\* board, along either axis and at any time, was accepted by word_checker: the
\* empty cell between two tiles that GetNewWords_ does not look for
\* (ScrabbleGame.cpp:321-325) is the only way past the dictionary.
THEOREM GaplessGamesKeepDictionary ==
    Spec /\ [][board' # board => Gapless(board, new_tiles)]_vars => []EveryWordInDictionary
<1> DEFINE NoGap == board' # board => Gapless(board, new_tiles)
           Known == board' # board /\ Gapless(board, new_tiles) =>
                       \A s \in FormedBy(board, new_tiles) : Spell(board', s) \in Dictionary
<1>1. Init => EveryWordInDictionary
    <2> SUFFICES ASSUME Init, NEW s \in WordsOn(EmptyBoard)
                 PROVE  FALSE
        BY DEF Init, EveryWordInDictionary
    <2>1. PICK c \in s : c \in Cells
        BY WordsHaveCells
    <2> QED  BY <2>1 DEF WordsOn, EmptyBoard
<1>2. /\ EveryWordInDictionary /\ Inv /\ PendingIsLegal
      /\ [Next]_vars /\ [NoGap]_vars /\ [Known]_vars
      => EveryWordInDictionary'
    <2> SUFFICES ASSUME EveryWordInDictionary, Inv, PendingIsLegal,
                        [Next]_vars, [NoGap]_vars, [Known]_vars,
                        NEW s \in WordsOn(board')
                 PROVE  Spell(board', s) \in Dictionary
        BY DEF EveryWordInDictionary
    <2>1. CASE board' = board
        BY <2>1 DEF EveryWordInDictionary
    <2>2. CASE board' # board
        <3>1. SubmitWord
            BY <2>2, StepKinds DEF SetPlayers
        <3>2. board' = With(board, new_tiles) /\ score # -1
            BY <3>1 DEF SubmitWord
        <3>3. /\ WellFormed(new_tiles) /\ Legal(board, new_tiles)
              /\ board \in Boards /\ new_tiles \in PlacementType
            BY <3>2 DEF PendingIsLegal, Inv, TypeOK
        <3>4. CASE s \cap CellsOf(new_tiles) = {}
            BY <3>2, <3>3, <3>4, OldWordsStay DEF EveryWordInDictionary
        <3>5. CASE s \cap CellsOf(new_tiles) # {}
            BY <2>2, <3>2, <3>5 DEF FormedBy, vars
        <3> QED  BY <3>4, <3>5
    <2> QED  BY <2>1, <2>2
<1>3. Spec => [][Known]_vars
    BY SubmittedWordsAreKnown DEF SubmittedWordsAreInDictionary
<1> QED  BY <1>1, <1>2, <1>3, Invariance, PendingStaysLegal, PTL DEF Spec
=============================================================================
