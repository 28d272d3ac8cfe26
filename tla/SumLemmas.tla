------------------------------ MODULE SumLemmas ------------------------------
(***************************************************************************)
(* Lemmas about Total, for every finite domain.  The proofs of the other   *)
(* modules use a sum only through these.                                   *)
(***************************************************************************)
EXTENDS Sums, FiniteSetTheorems, WellFoundedInduction, TLAPS

(* A single entry contributes exactly its value. *)
LEMMA CoinsOfCard ==
  ASSUME NEW f, NEW x, f[x] \in Nat
  PROVE  /\ IsFiniteSet(CoinsOf(f, x))
         /\ Cardinality(CoinsOf(f, x)) = f[x]
<1> DEFINE B == [i \in 1 .. f[x] |-> <<x, i>>]
<1>1. /\ IsFiniteSet(1 .. f[x])
      /\ Cardinality(1 .. f[x]) = f[x]
  BY FS_Interval
<1>2. B \in Bijection(1 .. f[x], CoinsOf(f, x))
  <2>1. B \in [1 .. f[x] -> CoinsOf(f, x)]
    BY DEF CoinsOf
  <2>2. \A s, t \in 1 .. f[x] : B[s] = B[t] => s = t
    OBVIOUS
  <2>3. \A c \in CoinsOf(f, x) : \E i \in 1 .. f[x] : B[i] = c
    BY DEF CoinsOf
  <2> QED
    BY <2>1, <2>2, <2>3 DEF Bijection, Injection, Surjection, IsInjective
<1>3. ExistsBijection(1 .. f[x], CoinsOf(f, x))
  BY <1>2 DEF ExistsBijection
<1> QED
  BY <1>1, <1>3, FS_Bijection

(* The coins of a function with a finite domain are finitely many. *)
LEMMA CoinsFinite ==
  ASSUME NEW S, IsFiniteSet(S), NEW f \in [S -> Nat]
  PROVE  IsFiniteSet(Coins(f))
<1> DEFINE C == {CoinsOf(f, x) : x \in S}
           G == [x \in S |-> CoinsOf(f, x)]
<1>1. G \in Surjection(S, C)
  BY DEF Surjection
<1>2. IsFiniteSet(C)
  BY <1>1, FS_Surjection
<1>3. \A T \in C : IsFiniteSet(T)
  BY CoinsOfCard
<1>4. IsFiniteSet(UNION C)
  BY <1>2, <1>3, FS_UNION
<1>5. DOMAIN f = S
  OBVIOUS
<1> QED
  BY <1>4, <1>5 DEF Coins

(* A total of natural numbers is a natural number. *)
LEMMA TotalType ==
  ASSUME NEW S, IsFiniteSet(S), NEW f \in [S -> Nat]
  PROVE  Total(f) \in Nat
BY CoinsFinite, FS_CardinalityType DEF Total

(* The coins of all entries but one. *)
OtherCoins(f, x) == UNION {CoinsOf(f, y) : y \in DOMAIN f \ {x}}

(* A total is one entry plus the coins of the others. *)
LEMMA TotalSplit ==
  ASSUME NEW S, IsFiniteSet(S), NEW f \in [S -> Nat], NEW x \in S
  PROVE  /\ IsFiniteSet(OtherCoins(f, x))
         /\ Cardinality(OtherCoins(f, x)) \in Nat
         /\ Total(f) = f[x] + Cardinality(OtherCoins(f, x))
<1>1. Coins(f) = CoinsOf(f, x) \cup OtherCoins(f, x)
  BY DEF Coins, OtherCoins
<1>2. CoinsOf(f, x) \cap OtherCoins(f, x) = {}
  BY DEF CoinsOf, OtherCoins
<1>3. IsFiniteSet(OtherCoins(f, x))
  <2>1. OtherCoins(f, x) \in SUBSET Coins(f)
    BY DEF Coins, OtherCoins
  <2> QED
    BY <2>1, CoinsFinite, FS_Subset
<1>4. Cardinality(OtherCoins(f, x)) \in Nat
  BY <1>3, FS_CardinalityType
<1>5. f[x] \in Nat
  OBVIOUS
<1>6. /\ IsFiniteSet(CoinsOf(f, x))
      /\ Cardinality(CoinsOf(f, x)) = f[x]
  BY <1>5, CoinsOfCard
<1>7. Cardinality(Coins(f)) =
        Cardinality(CoinsOf(f, x)) + Cardinality(OtherCoins(f, x))
        - Cardinality(CoinsOf(f, x) \cap OtherCoins(f, x))
  BY <1>1, <1>3, <1>6, FS_Union
<1>8. Cardinality(CoinsOf(f, x) \cap OtherCoins(f, x)) = 0
  BY <1>2, FS_EmptySet
<1> QED
  BY <1>3, <1>4, <1>5, <1>6, <1>7, <1>8 DEF Total

(* Changing one entry changes the total by as much. *)
LEMMA TotalUpdate ==
  ASSUME NEW S, IsFiniteSet(S), NEW f \in [S -> Nat], NEW x \in S,
         NEW n \in Nat
  PROVE  Total([f EXCEPT ![x] = n]) = Total(f) - f[x] + n
<1> DEFINE g == [f EXCEPT ![x] = n]
<1>1. g \in [S -> Nat] /\ g[x] = n
  OBVIOUS
<1>2. OtherCoins(g, x) = OtherCoins(f, x)
  <2>1. \A y \in S \ {x} : CoinsOf(g, y) = CoinsOf(f, y)
    BY DEF CoinsOf
  <2>2. DOMAIN g = S /\ DOMAIN f = S
    OBVIOUS
  <2> QED
    BY <2>1, <2>2 DEF OtherCoins
<1>3. Total(g) = n + Cardinality(OtherCoins(f, x))
  BY <1>1, <1>2, TotalSplit
<1>4. Total(f) = f[x] + Cardinality(OtherCoins(f, x))
  BY TotalSplit
<1>5. Cardinality(OtherCoins(f, x)) \in Nat /\ f[x] \in Nat
  BY TotalSplit
<1> QED
  BY <1>3, <1>4, <1>5

(* No entry exceeds the total. *)
LEMMA TotalBound ==
  ASSUME NEW S, IsFiniteSet(S), NEW f \in [S -> Nat], NEW x \in S
  PROVE  f[x] <= Total(f)
BY TotalSplit

(* The total is zero exactly when every entry is. *)
LEMMA TotalZero ==
  ASSUME NEW S, IsFiniteSet(S), NEW f \in [S -> Nat]
  PROVE  Total(f) = 0 <=> \A x \in S : f[x] = 0
<1>1. ASSUME Total(f) = 0, NEW x \in S
      PROVE  f[x] = 0
  BY <1>1, TotalBound
<1>2. ASSUME \A x \in S : f[x] = 0
      PROVE  Total(f) = 0
  <2>1. Coins(f) = {}
    BY <1>2 DEF Coins, CoinsOf
  <2> QED
    BY <2>1, FS_EmptySet DEF Total
<1> QED
  BY <1>1, <1>2

-----------------------------------------------------------------------------
(* Tables with one row per pair: the total over all rows, over the rows of *)
(* one first component, and over the rows of one second component.         *)
LEMMA PairsFinite ==
  ASSUME NEW S, IsFiniteSet(S)
  PROVE  IsFiniteSet(S \X S)
BY FS_Product

PairTable(S) == [S \X S -> Nat]

(* The table with d added to one row. *)
RowAdded(D, f, t, d) == [D EXCEPT ![<<f, t>>] = @ + d]

LEMMA PairTotalTypes ==
  ASSUME NEW S, IsFiniteSet(S), NEW D \in PairTable(S), NEW a \in S
  PROVE  TotalFrom(D, S, a) \in Nat /\ TotalTo(D, S, a) \in Nat
<1>1. /\ [x \in S |-> D[<<a, x>>]] \in [S -> Nat]
      /\ [x \in S |-> D[<<x, a>>]] \in [S -> Nat]
  BY DEF PairTable
<1> QED
  BY <1>1, TotalType DEF TotalFrom, TotalTo

LEMMA RowUpdate ==
  ASSUME NEW S, IsFiniteSet(S), NEW D \in PairTable(S),
         NEW f \in S, NEW t \in S, NEW d \in Int,
         RowAdded(D, f, t, d) \in PairTable(S)
  PROVE  TotalFrom(RowAdded(D, f, t, d), S, f) = TotalFrom(D, S, f) + d
<1> DEFINE E == RowAdded(D, f, t, d)
           n == E[<<f, t>>]
           old == [x \in S |-> D[<<f, x>>]]
           new == [x \in S |-> E[<<f, x>>]]
<1>1. /\ old \in [S -> Nat]
      /\ old[t] \in Nat
      /\ n = old[t] + d
      /\ n \in Nat
      /\ new = [old EXCEPT ![t] = n]
  BY DEF RowAdded, PairTable
<1> HIDE DEF E, n, old, new
<1>2. Total([old EXCEPT ![t] = n]) = Total(old) - old[t] + n
  BY <1>1, TotalUpdate
<1>3. Total(old) \in Nat
  BY <1>1, TotalType
<1>4. Total(new) = Total(old) + d
  BY <1>1, <1>2, <1>3
<1> QED
  BY <1>4 DEF E, old, new, TotalFrom

LEMMA RowKept ==
  ASSUME NEW S, IsFiniteSet(S), NEW D \in PairTable(S),
         NEW f \in S, NEW t \in S, NEW d \in Int, NEW a \in S \ {f}
  PROVE  TotalFrom(RowAdded(D, f, t, d), S, a) = TotalFrom(D, S, a)
<1>1. [x \in S |-> RowAdded(D, f, t, d)[<<a, x>>]] = [x \in S |-> D[<<a, x>>]]
  BY DEF RowAdded, PairTable
<1> QED
  BY <1>1 DEF TotalFrom

LEMMA ColumnUpdate ==
  ASSUME NEW S, IsFiniteSet(S), NEW D \in PairTable(S),
         NEW f \in S, NEW t \in S, NEW d \in Int,
         RowAdded(D, f, t, d) \in PairTable(S)
  PROVE  TotalTo(RowAdded(D, f, t, d), S, t) = TotalTo(D, S, t) + d
<1> DEFINE E == RowAdded(D, f, t, d)
           n == E[<<f, t>>]
           old == [x \in S |-> D[<<x, t>>]]
           new == [x \in S |-> E[<<x, t>>]]
<1>1. /\ old \in [S -> Nat]
      /\ old[f] \in Nat
      /\ n = old[f] + d
      /\ n \in Nat
      /\ new = [old EXCEPT ![f] = n]
  BY DEF RowAdded, PairTable
<1> HIDE DEF E, n, old, new
<1>2. Total([old EXCEPT ![f] = n]) = Total(old) - old[f] + n
  BY <1>1, TotalUpdate
<1>3. Total(old) \in Nat
  BY <1>1, TotalType
<1>4. Total(new) = Total(old) + d
  BY <1>1, <1>2, <1>3
<1> QED
  BY <1>4 DEF E, old, new, TotalTo

LEMMA ColumnKept ==
  ASSUME NEW S, IsFiniteSet(S), NEW D \in PairTable(S),
         NEW f \in S, NEW t \in S, NEW d \in Int, NEW a \in S \ {t}
  PROVE  TotalTo(RowAdded(D, f, t, d), S, a) = TotalTo(D, S, a)
<1>1. [x \in S |-> RowAdded(D, f, t, d)[<<x, a>>]] = [x \in S |-> D[<<x, a>>]]
  BY DEF RowAdded, PairTable
<1> QED
  BY <1>1 DEF TotalTo

(* A table of zeros. *)
LEMMA ZeroTable ==
  ASSUME NEW S, IsFiniteSet(S), NEW D \in [S \X S -> Nat], NEW a \in S,
         \A p \in S \X S : D[p] = 0
  PROVE  Total(D) = 0 /\ TotalFrom(D, S, a) = 0 /\ TotalTo(D, S, a) = 0
<1> DEFINE row == [x \in S |-> D[<<a, x>>]]
           col == [x \in S |-> D[<<x, a>>]]
<1>1. Total(D) = 0
  BY PairsFinite, TotalZero
<1>2. /\ row \in [S -> Nat] /\ \A x \in S : row[x] = 0
      /\ col \in [S -> Nat] /\ \A x \in S : col[x] = 0
  OBVIOUS
<1> HIDE DEF row, col
<1>3. Total(row) = 0 /\ Total(col) = 0
  BY <1>2, TotalZero
<1> QED
  BY <1>1, <1>3 DEF row, col, TotalFrom, TotalTo

(* Two functions that differ in one entry at most. *)
LEMMA TotalChange ==
  ASSUME NEW S, IsFiniteSet(S), NEW f \in [S -> Nat], NEW g \in [S -> Nat],
         NEW x \in S, \A y \in S \ {x} : g[y] = f[y]
  PROVE  Total(f) \in Nat /\ Total(g) = Total(f) - f[x] + g[x]
<1>1. g = [f EXCEPT ![x] = g[x]]
  OBVIOUS
<1> QED
  BY <1>1, TotalUpdate, TotalType

(* Totals add up, entry by entry.                                          *)
LEMMA TotalSum ==
  ASSUME NEW S, IsFiniteSet(S), NEW f \in [S -> Nat], NEW g \in [S -> Nat]
  PROVE  Total([x \in S |-> f[x] + g[x]]) = Total(f) + Total(g)
<1> DEFINE h == [x \in S |-> f[x] + g[x]]
           shift == [c \in Coins(g) |-> <<c[1], f[c[1]] + c[2]>>]
           above == {<<c[1], f[c[1]] + c[2]>> : c \in Coins(g)}
<1>1. /\ Coins(f) = {c \in S \X Nat : 1 <= c[2] /\ c[2] <= f[c[1]]}
      /\ Coins(g) = {c \in S \X Nat : 1 <= c[2] /\ c[2] <= g[c[1]]}
      /\ Coins(h) = {c \in S \X Nat : 1 <= c[2] /\ c[2] <= f[c[1]] + g[c[1]]}
  BY DEF Coins, CoinsOf
<1>2. /\ \A x \in S : f[x] \in Nat /\ g[x] \in Nat
      /\ h \in [S -> Nat]
  OBVIOUS
<1> HIDE DEF h
<1>3. shift \in Bijection(Coins(g), above)
  <2>1. shift \in [Coins(g) -> above]
    OBVIOUS
  <2>2. \A c, e \in Coins(g) : shift[c] = shift[e] => c = e
    BY <1>1, <1>2
  <2>3. \A a \in above : \E c \in Coins(g) : shift[c] = a
    OBVIOUS
  <2> QED
    BY <2>1, <2>2, <2>3 DEF Bijection, Injection, Surjection, IsInjective
<1>4. ExistsBijection(Coins(g), above)
  BY <1>3 DEF ExistsBijection
<1>5. IsFiniteSet(Coins(f)) /\ IsFiniteSet(Coins(g))
  BY CoinsFinite
<1>6. IsFiniteSet(above) /\ Cardinality(above) = Cardinality(Coins(g))
  BY <1>4, <1>5, FS_Bijection
<1>7. above = {c \in S \X Nat : f[c[1]] + 1 <= c[2] /\ c[2] <= f[c[1]] + g[c[1]]}
  <2>1. ASSUME NEW x \in S, NEW i \in Nat, f[x] + 1 <= i, i <= f[x] + g[x]
        PROVE  <<x, i>> \in above
    <3>1. i - f[x] \in Nat /\ 1 <= i - f[x] /\ i - f[x] <= g[x]
      BY <1>2, <2>1
    <3>2. <<x, i - f[x]>> \in Coins(g)
      BY <1>1, <3>1
    <3>3. f[x] + (i - f[x]) = i
      BY <1>2
    <3> QED
      BY <3>2, <3>3
  <2>2. ASSUME NEW c \in Coins(g)
        PROVE  /\ c[1] \in S /\ f[c[1]] + c[2] \in Nat
               /\ f[c[1]] + 1 <= f[c[1]] + c[2]
               /\ f[c[1]] + c[2] <= f[c[1]] + g[c[1]]
    BY <1>1, <1>2
  <2> QED
    BY <2>1, <2>2
<1>8. Coins(h) = Coins(f) \cup above /\ Coins(f) \cap above = {}
  <2> HIDE DEF above
  <2>1. \A x \in S, i \in Nat :
          /\ f[x] \in Nat /\ g[x] \in Nat
          /\ i <= f[x] + g[x] <=> i <= f[x] \/ (f[x] + 1 <= i /\ i <= f[x] + g[x])
          /\ ~ (i <= f[x] /\ f[x] + 1 <= i)
          /\ f[x] + 1 <= i => 1 <= i
    BY <1>2
  <2> QED
    BY <1>1, <1>7, <2>1
<1>9. Cardinality(Coins(f) \cap above) = 0
  BY <1>8, FS_EmptySet
<1>10. Cardinality(Coins(h)) =
         Cardinality(Coins(f)) + Cardinality(above) - Cardinality(Coins(f) \cap above)
  BY <1>5, <1>6, <1>8, FS_Union
<1>11. Cardinality(Coins(f)) \in Nat /\ Cardinality(Coins(g)) \in Nat
  BY <1>5, FS_CardinalityType
<1> QED
  BY <1>6, <1>9, <1>10, <1>11 DEF Total, h

(* Entries of zero add nothing.                                            *)
LEMMA TotalPadded ==
  ASSUME NEW S, NEW T, T \subseteq S, NEW f \in [T -> Nat]
  PROVE  Total([x \in S |-> IF x \in T THEN f[x] ELSE 0]) = Total(f)
<1> DEFINE g == [x \in S |-> IF x \in T THEN f[x] ELSE 0]
<1>1. \A x \in T : CoinsOf(g, x) = CoinsOf(f, x)
  BY DEF CoinsOf
<1>2. \A x \in S \ T : CoinsOf(g, x) = {}
  BY DEF CoinsOf
<1>3. DOMAIN g = S /\ DOMAIN f = T
  OBVIOUS
<1> HIDE DEF g
<1>4. Coins(g) = Coins(f)
  BY <1>1, <1>2, <1>3 DEF Coins
<1> QED
  BY <1>4 DEF Total, g

-----------------------------------------------------------------------------
(* A set of numbers that is not empty has a lowest one: what the proofs by *)
(* induction rest on, that look at the lowest number where something fails.*)
LEMMA HasLowest ==
  ASSUME NEW S, S \subseteq Nat, S # {}
  PROVE  \E m \in S : \A x \in S : m <= x
<1> DEFINE Lower == OpToRel(<, Nat)
<1>1. IsWellFoundedOn(Lower, Nat)
  BY NatLessThanWellFounded
<1> HIDE DEF Lower
<1>2. PICK m \in S : \A y \in S : ~ (<<y, m>> \in Lower)
  BY <1>1, WFMin
<1>3. \A y \in S : y < m => <<y, m>> \in Lower
  BY DEF Lower, OpToRel
<1>4. m \in Nat /\ \A y \in S : y \in Nat /\ ~ (y < m)
  BY <1>2, <1>3
<1>5. \A y \in S : m <= y
  BY <1>4
<1> QED
  BY <1>5

(* The larger of two functions, entry by entry, has the larger total. *)
LEMMA TotalLeq ==
  ASSUME NEW S, IsFiniteSet(S), NEW f \in [S -> Nat], NEW g \in [S -> Nat],
         \A x \in S : f[x] <= g[x]
  PROVE  Total(f) <= Total(g)
<1>1. IsFiniteSet(Coins(g))
  BY CoinsFinite
<1>2. Coins(f) \subseteq Coins(g)
  <2>1. ASSUME NEW x \in S PROVE CoinsOf(f, x) \subseteq CoinsOf(g, x)
    <3>1. f[x] \in Nat /\ g[x] \in Nat /\ f[x] <= g[x]
      OBVIOUS
    <3>2. 1 .. f[x] \subseteq 1 .. g[x]
      BY <3>1
    <3> QED
      BY <3>2 DEF CoinsOf
  <2>2. DOMAIN f = S /\ DOMAIN g = S
    OBVIOUS
  <2> QED
    BY <2>1, <2>2 DEF Coins
<1> QED
  BY <1>1, <1>2, FS_Subset DEF Total

(* A total of as much for each of some entries. *)
LEMMA TotalOfEqual ==
  ASSUME NEW S, IsFiniteSet(S), NEW T, T \subseteq S, NEW n \in Nat
  PROVE  /\ Cardinality(T) \in Nat
         /\ Total([x \in S |-> IF x \in T THEN n ELSE 0]) = n * Cardinality(T)
<1> DEFINE f == [x \in T |-> n]
<1>1. IsFiniteSet(T) /\ Cardinality(T) \in Nat
  BY FS_Subset, FS_CardinalityType
<1>2. Coins(f) = T \X (1 .. n)
  BY DEF Coins, CoinsOf
<1>3. IsFiniteSet(1 .. n) /\ Cardinality(1 .. n) = n
  <2>1. IsFiniteSet(1 .. n) /\ Cardinality(1 .. n) = IF 1 > n THEN 0 ELSE n - 1 + 1
    BY FS_Interval
  <2> QED
    BY <2>1
<1>4. Cardinality(T \X (1 .. n)) = Cardinality(T) * n
  BY <1>1, <1>3, FS_Product
<1>5. Total(f) = n * Cardinality(T)
  BY <1>1, <1>2, <1>4 DEF Total
<1>6. f \in [T -> Nat]
  OBVIOUS
<1>7. Total([x \in S |-> IF x \in T THEN f[x] ELSE 0]) = Total(f)
  BY <1>6, TotalPadded
<1>8. [x \in S |-> IF x \in T THEN f[x] ELSE 0]
        = [x \in S |-> IF x \in T THEN n ELSE 0]
  OBVIOUS
<1> QED
  BY <1>1, <1>5, <1>7, <1>8

(* A total of which some entries change by the same amount. *)
LEMMA TotalShift ==
  ASSUME NEW S, IsFiniteSet(S), NEW f \in [S -> Nat], NEW g \in [S -> Nat],
         NEW T, T \subseteq S, NEW d \in Int,
         \A x \in S : g[x] = f[x] + (IF x \in T THEN d ELSE 0)
  PROVE  Total(g) = Total(f) + d * Cardinality(T)
<1>1. Total(f) \in Nat /\ Total(g) \in Nat
  BY TotalType
<1>2. CASE d >= 0
  <2> DEFINE h == [x \in S |-> IF x \in T THEN d ELSE 0]
  <2>1. h \in [S -> Nat] /\ d \in Nat
    BY <1>2
  <2>2. Total([x \in S |-> f[x] + h[x]]) = Total(f) + Total(h)
    BY <2>1, TotalSum
  <2>3. g = [x \in S |-> f[x] + h[x]]
    OBVIOUS
  <2>4. Total(h) = d * Cardinality(T)
    BY <2>1, TotalOfEqual
  <2> QED
    BY <2>2, <2>3, <2>4
<1>3. CASE d < 0
  <2> DEFINE h == [x \in S |-> IF x \in T THEN -d ELSE 0]
  <2>1. h \in [S -> Nat] /\ -d \in Nat
    BY <1>3
  <2>2. Total([x \in S |-> g[x] + h[x]]) = Total(g) + Total(h)
    BY <2>1, TotalSum
  <2>3. f = [x \in S |-> g[x] + h[x]]
    <3>1. \A x \in S : f[x] \in Nat /\ g[x] \in Nat /\ f[x] = g[x] + h[x]
      OBVIOUS
    <3> QED
      BY <3>1
  <2>4. Total(h) = (-d) * Cardinality(T) /\ Cardinality(T) \in Nat
    BY <2>1, TotalOfEqual
  <2>5. (-d) * Cardinality(T) = -(d * Cardinality(T))
    BY <2>4
  <2>6. d * Cardinality(T) \in Int
    BY <2>4
  <2> HIDE DEF h
  <2> QED
    BY <1>1, <2>2, <2>3, <2>4, <2>5, <2>6
<1> QED
  BY <1>2, <1>3

(* The entries of S grouped by k: the totals of the groups of A add up to  *)
(* the total of the entries in them.                                       *)
InGroup(S, f, k, v) == [u \in S |-> IF k[u] = v THEN f[u] ELSE 0]
InGroups(S, f, k, A) == [u \in S |-> IF k[u] \in A THEN f[u] ELSE 0]
ByGroup(S, f, k, A) ==
  [v \in S |-> IF v \in A THEN Total(InGroup(S, f, k, v)) ELSE 0]

LEMMA TotalOneGroupMore ==
  ASSUME NEW S, IsFiniteSet(S), NEW f \in [S -> Nat], NEW k,
         NEW A \in SUBSET S, NEW b \in S \ A,
         Total(ByGroup(S, f, k, A)) = Total(InGroups(S, f, k, A))
  PROVE  Total(ByGroup(S, f, k, A \cup {b})) = Total(InGroups(S, f, k, A \cup {b}))
<1>1. /\ InGroup(S, f, k, b) \in [S -> Nat]
      /\ InGroups(S, f, k, A) \in [S -> Nat]
      /\ \A v \in S : Total(InGroup(S, f, k, v)) \in Nat
  <2>1. \A v \in S : InGroup(S, f, k, v) \in [S -> Nat]
    BY DEF InGroup
  <2>2. InGroups(S, f, k, A) \in [S -> Nat]
    BY DEF InGroups
  <2> QED
    BY <2>1, <2>2, TotalType
<1>2. InGroups(S, f, k, A \cup {b})
        = [u \in S |-> InGroups(S, f, k, A)[u] + InGroup(S, f, k, b)[u]]
  <2>1. ASSUME NEW u \in S
        PROVE  (IF k[u] \in A \cup {b} THEN f[u] ELSE 0)
                 = (IF k[u] \in A THEN f[u] ELSE 0) + (IF k[u] = b THEN f[u] ELSE 0)
    OBVIOUS
  <2> QED
    BY <2>1 DEF InGroups, InGroup
<1>3. Total(InGroups(S, f, k, A \cup {b}))
        = Total(InGroups(S, f, k, A)) + Total(InGroup(S, f, k, b))
  <2>1. \A p, q \in [S -> Nat] : Total([u \in S |-> p[u] + q[u]]) = Total(p) + Total(q)
    BY TotalSum
  <2> QED
    BY <1>1, <1>2, <2>1
<1>4. /\ ByGroup(S, f, k, A) \in [S -> Nat]
      /\ ByGroup(S, f, k, A \cup {b}) \in [S -> Nat]
      /\ ByGroup(S, f, k, A)[b] = 0
      /\ ByGroup(S, f, k, A \cup {b})[b] = Total(InGroup(S, f, k, b))
      /\ \A v \in S \ {b} : ByGroup(S, f, k, A \cup {b})[v] = ByGroup(S, f, k, A)[v]
  BY <1>1 DEF ByGroup
<1>5. /\ Total(ByGroup(S, f, k, A)) \in Nat
      /\ Total(ByGroup(S, f, k, A \cup {b}))
           = Total(ByGroup(S, f, k, A)) - ByGroup(S, f, k, A)[b]
             + ByGroup(S, f, k, A \cup {b})[b]
  <2> DEFINE old == ByGroup(S, f, k, A)
             new == ByGroup(S, f, k, A \cup {b})
  <2>1. /\ old \in [S -> Nat]
        /\ new \in [S -> Nat]
        /\ b \in S
        /\ \A v \in S \ {b} : new[v] = old[v]
    BY <1>4
  <2> HIDE DEF old, new
  <2>2. Total(old) \in Nat /\ Total(new) = Total(old) - old[b] + new[b]
    BY <2>1, TotalChange
  <2> QED
    BY <2>2 DEF old, new
<1>6. Total(InGroup(S, f, k, b)) \in Nat
  BY <1>1
<1> QED
  BY <1>3, <1>4, <1>5, <1>6

LEMMA TotalByGroup ==
  ASSUME NEW S, IsFiniteSet(S), NEW f \in [S -> Nat], NEW k, NEW A \in SUBSET S
  PROVE  Total(ByGroup(S, f, k, A)) = Total(InGroups(S, f, k, A))
<1> DEFINE Agree(B) == Total(ByGroup(S, f, k, B)) = Total(InGroups(S, f, k, B))
           Failing == {Cardinality(B) : B \in {C \in SUBSET A : ~ Agree(C)}}
<1>1. SUFFICES ASSUME ~ Agree(A) PROVE FALSE
  OBVIOUS
<1>2. \A B \in SUBSET A : IsFiniteSet(B) /\ Cardinality(B) \in Nat
  BY FS_Subset, FS_CardinalityType
<1>3. Failing \subseteq Nat /\ Failing # {}
  BY <1>1, <1>2
<1>4. PICK m \in Failing : \A n \in Failing : m <= n
  <2> HIDE DEF Failing
  <2> QED
    BY <1>3, HasLowest
<1>5. PICK B \in SUBSET A : Cardinality(B) = m /\ ~ Agree(B)
  BY <1>4
<1>6. B # {}
  <2>1. SUFFICES ASSUME B = {} PROVE FALSE
    OBVIOUS
  <2>2. /\ ByGroup(S, f, k, {}) = [v \in S |-> 0]
        /\ InGroups(S, f, k, {}) = [v \in S |-> 0]
    BY DEF ByGroup, InGroups
  <2> QED
    BY <1>5, <2>1, <2>2
<1>7. PICK b \in B : TRUE
  BY <1>6
<1>8. Cardinality(B \ {b}) = Cardinality(B) - 1
  BY <1>2, <1>7, FS_RemoveElement
<1>9. Agree(B \ {b})
  <2>1. SUFFICES ASSUME ~ Agree(B \ {b}) PROVE FALSE
    OBVIOUS
  <2>2. B \ {b} \in SUBSET A
    OBVIOUS
  <2>3. Cardinality(B \ {b}) \in Failing
    BY <2>1, <2>2
  <2>4. m \in Nat /\ m <= m - 1
    BY <1>2, <1>4, <1>5, <1>8, <2>3
  <2> QED
    BY <2>4
<1>10. B \ {b} \in SUBSET S /\ b \in S \ (B \ {b}) /\ (B \ {b}) \cup {b} = B
  BY <1>7
<1>11. Agree((B \ {b}) \cup {b})
  BY <1>9, <1>10, TotalOneGroupMore
<1> QED
  BY <1>5, <1>10, <1>11

-----------------------------------------------------------------------------
(* Sums of entries that may be negative: what is positive in f less what   *)
(* is negative.                                                            *)
PositivePart(S, f) == [x \in S |-> NotBelow0(f[x])]
NegativePart(S, f) == [x \in S |-> NotBelow0(-f[x])]

LEMMA SumOfParts ==
  ASSUME NEW S, IsFiniteSet(S), NEW f \in [S -> Int]
  PROVE  /\ PositivePart(S, f) \in [S -> Nat] /\ NegativePart(S, f) \in [S -> Nat]
         /\ Total(PositivePart(S, f)) \in Nat /\ Total(NegativePart(S, f)) \in Nat
         /\ SumOf(f) = Total(PositivePart(S, f)) - Total(NegativePart(S, f))
         /\ SumOf(f) \in Int
         /\ \A x \in S : PositivePart(S, f)[x] - NegativePart(S, f)[x] = f[x]
<1>1. \A x \in S : f[x] \in Int
  OBVIOUS
<1>2. \A x \in S : /\ NotBelow0(f[x]) \in Nat /\ NotBelow0(-f[x]) \in Nat
                   /\ NotBelow0(f[x]) - NotBelow0(-f[x]) = f[x]
  BY <1>1 DEF NotBelow0
<1>3. /\ PositivePart(S, f) \in [S -> Nat] /\ NegativePart(S, f) \in [S -> Nat]
      /\ \A x \in S : PositivePart(S, f)[x] - NegativePart(S, f)[x] = f[x]
  BY <1>2 DEF PositivePart, NegativePart
<1>4. Total(PositivePart(S, f)) \in Nat /\ Total(NegativePart(S, f)) \in Nat
  BY <1>3, TotalType
<1>5. SumOf(f) = Total(PositivePart(S, f)) - Total(NegativePart(S, f))
  <2>1. DOMAIN f = S
    OBVIOUS
  <2> QED
    BY <2>1 DEF SumOf, PositivePart, NegativePart
<1> QED
  BY <1>3, <1>4, <1>5

LEMMA SumOfZero ==
  ASSUME NEW S, IsFiniteSet(S), NEW f \in [S -> Int], \A x \in S : f[x] = 0
  PROVE  SumOf(f) = 0
<1>1. \A x \in S : PositivePart(S, f)[x] = 0 /\ NegativePart(S, f)[x] = 0
  BY DEF PositivePart, NegativePart, NotBelow0
<1>2. Total(PositivePart(S, f)) = 0
  BY <1>1, SumOfParts, TotalZero
<1>3. Total(NegativePart(S, f)) = 0
  BY <1>1, SumOfParts, TotalZero
<1> QED
  BY <1>2, <1>3, SumOfParts

(* One entry changes.                                                      *)
LEMMA SumOfChange ==
  ASSUME NEW S, IsFiniteSet(S), NEW f \in [S -> Int], NEW g \in [S -> Int],
         NEW x \in S, \A y \in S \ {x} : g[y] = f[y]
  PROVE  SumOf(g) = SumOf(f) - f[x] + g[x]
<1>1. /\ Total(PositivePart(S, g)) = Total(PositivePart(S, f))
                                     - PositivePart(S, f)[x] + PositivePart(S, g)[x]
  <2>1. \A y \in S \ {x} : PositivePart(S, g)[y] = PositivePart(S, f)[y]
    BY DEF PositivePart
  <2> QED
    BY <2>1, SumOfParts, TotalChange
<1>2. /\ Total(NegativePart(S, g)) = Total(NegativePart(S, f))
                                     - NegativePart(S, f)[x] + NegativePart(S, g)[x]
  <2>1. \A y \in S \ {x} : NegativePart(S, g)[y] = NegativePart(S, f)[y]
    BY DEF NegativePart
  <2> QED
    BY <2>1, SumOfParts, TotalChange
<1>3. /\ PositivePart(S, f)[x] - NegativePart(S, f)[x] = f[x]
      /\ PositivePart(S, g)[x] - NegativePart(S, g)[x] = g[x]
      /\ PositivePart(S, f)[x] \in Nat /\ NegativePart(S, f)[x] \in Nat
      /\ PositivePart(S, g)[x] \in Nat /\ NegativePart(S, g)[x] \in Nat
  BY SumOfParts
<1>4. /\ SumOf(f) = Total(PositivePart(S, f)) - Total(NegativePart(S, f))
      /\ SumOf(g) = Total(PositivePart(S, g)) - Total(NegativePart(S, g))
      /\ Total(PositivePart(S, f)) \in Nat /\ Total(NegativePart(S, f)) \in Nat
  BY SumOfParts
<1> QED
  BY <1>1, <1>2, <1>3, <1>4

LEMMA TotalThree ==
  ASSUME NEW S, IsFiniteSet(S),
         NEW f \in [S -> Nat], NEW g \in [S -> Nat], NEW h \in [S -> Nat]
  PROVE  Total([x \in S |-> f[x] + g[x] + h[x]]) = Total(f) + Total(g) + Total(h)
<1> DEFINE fg == [x \in S |-> f[x] + g[x]]
<1>1. fg \in [S -> Nat] /\ \A x \in S : fg[x] = f[x] + g[x]
  OBVIOUS
<1>2. Total(fg) = Total(f) + Total(g)
  BY TotalSum
<1> HIDE DEF fg
<1>3. Total([x \in S |-> fg[x] + h[x]]) = Total(fg) + Total(h)
  BY <1>1, TotalSum
<1>4. [x \in S |-> fg[x] + h[x]] = [x \in S |-> f[x] + g[x] + h[x]]
  BY <1>1
<1> QED
  BY <1>2, <1>3, <1>4

(* Sums add up, entry by entry.                                            *)
LEMMA SumOfPlus ==
  ASSUME NEW S, IsFiniteSet(S), NEW f \in [S -> Int], NEW g \in [S -> Int],
         NEW h \in [S -> Int], \A x \in S : h[x] = f[x] + g[x]
  PROVE  SumOf(h) = SumOf(f) + SumOf(g)
<1> DEFINE fp == PositivePart(S, f)
           fn == NegativePart(S, f)
           gp == PositivePart(S, g)
           gn == NegativePart(S, g)
           hp == PositivePart(S, h)
           hn == NegativePart(S, h)
<1>1. /\ fp \in [S -> Nat] /\ fn \in [S -> Nat] /\ Total(fp) \in Nat /\ Total(fn) \in Nat
      /\ SumOf(f) = Total(fp) - Total(fn) /\ \A x \in S : fp[x] - fn[x] = f[x]
  BY SumOfParts
<1>2. /\ gp \in [S -> Nat] /\ gn \in [S -> Nat] /\ Total(gp) \in Nat /\ Total(gn) \in Nat
      /\ SumOf(g) = Total(gp) - Total(gn) /\ \A x \in S : gp[x] - gn[x] = g[x]
  BY SumOfParts
<1>3. /\ hp \in [S -> Nat] /\ hn \in [S -> Nat] /\ Total(hp) \in Nat /\ Total(hn) \in Nat
      /\ SumOf(h) = Total(hp) - Total(hn) /\ \A x \in S : hp[x] - hn[x] = h[x]
  BY SumOfParts
<1> HIDE DEF fp, fn, gp, gn, hp, hn
<1>4. [x \in S |-> fp[x] + gp[x] + hn[x]] = [x \in S |-> fn[x] + gn[x] + hp[x]]
  <2>1. ASSUME NEW x \in S
        PROVE  fp[x] + gp[x] + hn[x] = fn[x] + gn[x] + hp[x]
    <3>1. /\ fp[x] \in Nat /\ fn[x] \in Nat /\ gp[x] \in Nat /\ gn[x] \in Nat
          /\ hp[x] \in Nat /\ hn[x] \in Nat
      BY <1>1, <1>2, <1>3
    <3>2. hp[x] - hn[x] = (fp[x] - fn[x]) + (gp[x] - gn[x])
      BY <1>1, <1>2, <1>3
    <3> QED
      BY ONLY <3>1, <3>2
  <2> QED
    BY <2>1
<1>5. /\ fp \in [S -> Nat] /\ fn \in [S -> Nat] /\ gp \in [S -> Nat] /\ gn \in [S -> Nat]
      /\ hp \in [S -> Nat] /\ hn \in [S -> Nat]
  BY <1>1, <1>2, <1>3
<1>6. Total([x \in S |-> fp[x] + gp[x] + hn[x]]) = Total(fp) + Total(gp) + Total(hn)
  BY ONLY <1>5, IsFiniteSet(S), TotalThree
<1>7. Total([x \in S |-> fn[x] + gn[x] + hp[x]]) = Total(fn) + Total(gn) + Total(hp)
  BY ONLY <1>5, IsFiniteSet(S), TotalThree
<1>8. Total(fp) + Total(gp) + Total(hn) = Total(fn) + Total(gn) + Total(hp)
  BY <1>4, <1>6, <1>7
<1>9. /\ Total(fp) \in Nat /\ Total(fn) \in Nat /\ Total(gp) \in Nat /\ Total(gn) \in Nat
      /\ Total(hp) \in Nat /\ Total(hn) \in Nat
  BY <1>1, <1>2, <1>3
<1>10. /\ SumOf(f) = Total(fp) - Total(fn) /\ SumOf(g) = Total(gp) - Total(gn)
       /\ SumOf(h) = Total(hp) - Total(hn)
  BY <1>1, <1>2, <1>3
<1> QED
  BY ONLY <1>8, <1>9, <1>10

(* Entries of zero add nothing.                                            *)
LEMMA SumOfPadded ==
  ASSUME NEW S, NEW T, T \subseteq S, NEW f \in [S -> Int], \A x \in S \ T : f[x] = 0
  PROVE  SumOf([x \in T |-> f[x]]) = SumOf(f)
<1> DEFINE g == [x \in T |-> f[x]]
<1>1. g \in [T -> Int] /\ DOMAIN g = T /\ DOMAIN f = S /\ \A x \in T : g[x] = f[x]
  OBVIOUS
<1> HIDE DEF g
<1>2. PositivePart(T, g) \in [T -> Nat] /\ NegativePart(T, g) \in [T -> Nat]
  <2>1. \A x \in T : NotBelow0(g[x]) \in Nat /\ NotBelow0(-g[x]) \in Nat
    BY <1>1 DEF NotBelow0
  <2> QED
    BY <2>1 DEF PositivePart, NegativePart
<1>3. PositivePart(S, f) = [x \in S |-> IF x \in T THEN PositivePart(T, g)[x] ELSE 0]
  <2>1. \A x \in S : NotBelow0(f[x]) = IF x \in T THEN NotBelow0(g[x]) ELSE 0
    BY <1>1 DEF NotBelow0
  <2> QED
    BY <2>1 DEF PositivePart
<1>4. NegativePart(S, f) = [x \in S |-> IF x \in T THEN NegativePart(T, g)[x] ELSE 0]
  <2>1. \A x \in S : NotBelow0(-f[x]) = IF x \in T THEN NotBelow0(-g[x]) ELSE 0
    BY <1>1 DEF NotBelow0
  <2> QED
    BY <2>1 DEF NegativePart
<1>5. /\ Total(PositivePart(S, f)) = Total(PositivePart(T, g))
      /\ Total(NegativePart(S, f)) = Total(NegativePart(T, g))
  BY <1>2, <1>3, <1>4, TotalPadded
<1> QED
  BY <1>1, <1>5 DEF SumOf, PositivePart, NegativePart, g
==============================================================================
