---------------------------- MODULE TotalsProofs ----------------------------
(***************************************************************************)
(* What Total returns and how it changes when its function changes at one  *)
(* point: the facts the accounting proofs rest on.                         *)
(***************************************************************************)
EXTENDS Totals, Integers, FiniteSetTheorems, TLAPS

\* The coins of every point but x.
LOCAL Others(f, x) == {c \in Coins(f) : c[1] # x}

(* A function to Nat over a finite set owns finitely many coins. *)
LEMMA CoinsFinite ==
  ASSUME NEW S, IsFiniteSet(S), NEW f \in [S -> Nat]
  PROVE  IsFiniteSet(Coins(f))
<1> DEFINE Heap(x) == {x} \X (1..f[x])
           Heaps == {Heap(x) : x \in S}
           h == [x \in S |-> Heap(x)]
<1>1. IsFiniteSet(Heaps)
  <2>1. h \in Surjection(S, Heaps)
    BY DEF Surjection
  <2> QED BY <2>1, FS_Surjection
<1>2. ASSUME NEW T \in Heaps PROVE IsFiniteSet(T)
  <2>1. PICK x \in S : T = {x} \X (1..f[x])
    OBVIOUS
  <2>2. f[x] \in Nat
    OBVIOUS
  <2>3. IsFiniteSet({x})
    BY FS_Singleton
  <2>4. IsFiniteSet(1..f[x])
    BY <2>2, FS_Interval
  <2> QED BY <2>1, <2>3, <2>4, FS_Product
<1>3. IsFiniteSet(UNION Heaps)
  BY <1>1, <1>2, FS_UNION
<1> QED BY <1>3 DEF Coins

(* The sum of a function to Nat over a finite set is a natural number. *)
LEMMA TotalType ==
  ASSUME NEW S, IsFiniteSet(S), NEW f \in [S -> Nat]
  PROVE  Total(f) \in Nat
BY CoinsFinite, FS_CardinalityType DEF Total

(* The sum is what x holds and what the others hold. *)
LEMMA TotalSplit ==
  ASSUME NEW S, IsFiniteSet(S), NEW f \in [S -> Nat], NEW x
  PROVE  /\ At(f, x) \in Nat
         /\ IsFiniteSet(Others(f, x))
         /\ Total(f) = Cardinality(Others(f, x)) + At(f, x)
<1> DEFINE heap == {x} \X (1..At(f, x))
<1>1. At(f, x) \in Nat
  BY DEF At
<1>2. IsFiniteSet(heap) /\ Cardinality(heap) = At(f, x)
  <2>1. IsFiniteSet({x}) /\ Cardinality({x}) = 1
    BY FS_Singleton
  <2>2. IsFiniteSet(1..At(f, x)) /\ Cardinality(1..At(f, x)) = At(f, x)
    BY <1>1, FS_Interval
  <2>3. /\ IsFiniteSet(heap)
        /\ Cardinality(heap) = Cardinality({x}) * Cardinality(1..At(f, x))
    BY <2>1, <2>2, FS_Product
  <2>4. 1 * At(f, x) = At(f, x)
    BY <1>1
  <2> HIDE DEF heap
  <2> QED BY <2>1, <2>2, <2>3, <2>4
<1>3. IsFiniteSet(Coins(f))
  BY CoinsFinite
<1>4. IsFiniteSet(Others(f, x))
  BY <1>3, FS_Subset DEF Others
<1>5. Coins(f) = Others(f, x) \cup heap
  <2>1. ASSUME NEW c \in Coins(f) PROVE c \in Others(f, x) \cup heap
    BY <2>1 DEF Coins, Others, At
  <2>2. ASSUME NEW c \in heap PROVE c \in Coins(f)
    BY <2>2 DEF Coins, At
  <2> QED BY <2>1, <2>2 DEF Others
<1>6. Others(f, x) \cap heap = {}
  BY DEF Others
<1>7. Cardinality(Coins(f)) =
        Cardinality(Others(f, x)) + Cardinality(heap) - Cardinality({})
  BY <1>2, <1>4, <1>5, <1>6, FS_Union
<1>8. Cardinality({}) = 0 /\ Cardinality(Others(f, x)) \in Nat
  BY <1>4, FS_EmptySet, FS_CardinalityType
<1> QED BY <1>1, <1>2, <1>4, <1>7, <1>8 DEF Total

(* Two functions that agree everywhere but at x differ in their sums by     *)
(* what they hold at x.  x may be missing from either domain: appending to  *)
(* a queue and updating an account are both instances.                      *)
LEMMA TotalChange ==
  ASSUME NEW S, IsFiniteSet(S), NEW f \in [S -> Nat],
         NEW T, IsFiniteSet(T), NEW g \in [T -> Nat],
         NEW x,
         \A y : y # x => /\ y \in S <=> y \in T
                         /\ y \in S => f[y] = g[y]
  PROVE  Total(g) + At(f, x) = Total(f) + At(g, x)
<1>1. Others(f, x) = Others(g, x)
  <2>1. ASSUME NEW c \in Others(f, x) PROVE c \in Others(g, x)
    BY <2>1 DEF Others, Coins
  <2>2. ASSUME NEW c \in Others(g, x) PROVE c \in Others(f, x)
    BY <2>2 DEF Others, Coins
  <2> QED BY <2>1, <2>2
<1>2. /\ At(f, x) \in Nat
      /\ IsFiniteSet(Others(f, x))
      /\ Total(f) = Cardinality(Others(f, x)) + At(f, x)
  BY TotalSplit
<1>3. /\ At(g, x) \in Nat
      /\ Total(g) = Cardinality(Others(g, x)) + At(g, x)
  BY TotalSplit
<1>4. Cardinality(Others(f, x)) \in Nat
  BY <1>2, FS_CardinalityType
<1> QED BY <1>1, <1>2, <1>3, <1>4

\* f and g are functions to Nat over S that agree everywhere but at x.
AgreeBut(S, f, g, x) ==
  /\ IsFiniteSet(S) /\ x \in S
  /\ f \in [S -> Nat] /\ g \in [S -> Nat]
  /\ \A y \in S : y # x => f[y] = g[y]

(* TotalChange when both functions have the same domain. *)
LEMMA TotalUpdate ==
  ASSUME NEW S, NEW f, NEW g, NEW x, AgreeBut(S, f, g, x)
  PROVE  Total(g) + f[x] = Total(f) + g[x]
<1>1. \A y : y # x => /\ y \in S <=> y \in S
                      /\ y \in S => f[y] = g[y]
  BY DEF AgreeBut
<1>2. Total(g) + At(f, x) = Total(f) + At(g, x)
  BY <1>1, TotalChange DEF AgreeBut
<1> QED BY <1>2 DEF At, AgreeBut

\* g extends f, a function to Nat over S, by the point x.
Extends(S, f, g, x) ==
  /\ IsFiniteSet(S) /\ IsFiniteSet(S \cup {x}) /\ x \notin S
  /\ f \in [S -> Nat] /\ g \in [S \cup {x} -> Nat]
  /\ \A y \in S : f[y] = g[y]

(* TotalChange when the second function has one more point. *)
LEMMA TotalExtend ==
  ASSUME NEW S, NEW f, NEW g, NEW x, Extends(S, f, g, x)
  PROVE  Total(g) = Total(f) + g[x]
<1> DEFINE T == S \cup {x}
<1>1. \A y : y # x => /\ y \in S <=> y \in T
                      /\ y \in S => f[y] = g[y]
  BY DEF Extends
<1>2. IsFiniteSet(T) /\ g \in [T -> Nat] /\ x \in T
  BY DEF Extends
<1> HIDE DEF T
<1>3. Total(g) + At(f, x) = Total(f) + At(g, x)
  BY <1>1, <1>2, TotalChange DEF Extends
<1>4. Total(g) \in Nat
  BY <1>2, TotalType
<1> QED BY <1>2, <1>3, <1>4 DEF At, Extends

(* Every point holds at most the sum. *)
LEMMA TotalBound ==
  ASSUME NEW S, IsFiniteSet(S), NEW f \in [S -> Nat], NEW x \in S
  PROVE  f[x] <= Total(f)
<1>1. /\ At(f, x) \in Nat
      /\ IsFiniteSet(Others(f, x))
      /\ Total(f) = Cardinality(Others(f, x)) + At(f, x)
  BY TotalSplit
<1>2. Cardinality(Others(f, x)) \in Nat
  BY <1>1, FS_CardinalityType
<1> QED BY <1>1, <1>2 DEF At

(* A function that is zero everywhere sums to zero, and only such one. *)
LEMMA TotalZero ==
  ASSUME NEW S, IsFiniteSet(S), NEW f \in [S -> Nat]
  PROVE  Total(f) = 0 <=> \A x \in S : f[x] = 0
<1>1. ASSUME \A x \in S : f[x] = 0 PROVE Total(f) = 0
  <2>1. Coins(f) = {}
    BY <1>1 DEF Coins
  <2> QED BY <2>1, FS_EmptySet DEF Total
<1>2. ASSUME Total(f) = 0, NEW x \in S PROVE f[x] = 0
  BY <1>2, TotalBound
<1> QED BY <1>1, <1>2

\* g is f with a more at x, both functions to Nat over S.
Gains(S, f, g, x, a) ==
  /\ IsFiniteSet(S) /\ x \in S /\ a \in Int
  /\ f \in [S -> Nat] /\ g \in [S -> Nat]
  /\ \A k \in S : g[k] = f[k] + (IF k = x THEN a ELSE 0)

(* A function that gains a at one point gains a in its sum. *)
LEMMA TotalAdd ==
  ASSUME NEW S, NEW f, NEW g, NEW x, NEW a, Gains(S, f, g, x, a)
  PROVE  Total(g) = Total(f) + a
<1>1. g[x] = f[x] + a
  BY DEF Gains
<1>2. AgreeBut(S, f, g, x)
  BY DEF AgreeBut, Gains
<1>3. Total(g) + f[x] = Total(f) + g[x]
  BY <1>2, TotalUpdate
<1>4. /\ Total(f) \in Nat /\ Total(g) \in Nat
      /\ f[x] \in Nat /\ g[x] \in Nat /\ a \in Int
  BY TotalType DEF Gains
<1> QED BY <1>1, <1>3, <1>4

\* g is f with a more at x and b more at y, which may be the same point.
GainsTwo(S, f, g, x, a, y, b) ==
  /\ IsFiniteSet(S) /\ x \in S /\ y \in S /\ a \in Nat /\ b \in Nat
  /\ f \in [S -> Nat] /\ g \in [S -> Nat]
  /\ \A k \in S : g[k] = f[k] + (IF k = x THEN a ELSE 0) + (IF k = y THEN b ELSE 0)

(* A function that gains at two points gains both in its sum: the two sides  *)
(* of a fill.                                                                *)
LEMMA TotalAddTwo ==
  ASSUME NEW S, NEW f, NEW g, NEW x, NEW a, NEW y, NEW b, GainsTwo(S, f, g, x, a, y, b)
  PROVE  Total(g) = Total(f) + a + b
<1> DEFINE h == [k \in S |-> f[k] + (IF k = x THEN a ELSE 0)]
<1>1. h \in [S -> Nat] /\ \A k \in S : h[k] = f[k] + (IF k = x THEN a ELSE 0)
  BY DEF GainsTwo
<1> HIDE DEF h
<1>2. Gains(S, f, h, x, a) /\ Gains(S, h, g, y, b)
  BY <1>1 DEF GainsTwo, Gains
<1>3. Total(h) = Total(f) + a /\ Total(g) = Total(h) + b
  BY <1>2, TotalAdd
<1> QED BY <1>3

-----------------------------------------------------------------------------
(* Tables: functions of a row and a column *)

\* The row m of a table f with the columns T.
RowOf(f, m, T) == [a \in T |-> f[<<m, a>>]]

\* The coins of row m of a table, and those of its other rows.
LOCAL InRow(f, m) == {c \in Coins(f) : c[1][1] = m}
LOCAL OffRow(f, m) == {c \in Coins(f) : c[1][1] # m}

\* f is a table to Nat with finitely many rows and columns.
Table(S, T, f) == IsFiniteSet(S) /\ IsFiniteSet(T) /\ f \in [S \X T -> Nat]

(* A table's sum is what a row holds and what the other rows hold. *)
LEMMA RowSplit ==
  ASSUME NEW S, NEW T, NEW f, NEW m \in S, Table(S, T, f)
  PROVE  /\ IsFiniteSet(OffRow(f, m))
         /\ RowOf(f, m, T) \in [T -> Nat]
         /\ Total(f) = Cardinality(OffRow(f, m)) + Total(RowOf(f, m, T))
<1> DEFINE row == RowOf(f, m, T)
           h == [c \in InRow(f, m) |-> <<c[1][2], c[2]>>]
<1>0. IsFiniteSet(S) /\ IsFiniteSet(T) /\ f \in [S \X T -> Nat]
  BY DEF Table
<1>1. IsFiniteSet(Coins(f))
  <2>1. IsFiniteSet(S \X T)
    BY <1>0, FS_Product
  <2> QED BY <1>0, <2>1, CoinsFinite
<1>2. row \in [T -> Nat] /\ \A a \in T : row[a] = f[<<m, a>>]
  BY <1>0 DEF RowOf
<1>3. \A c \in InRow(f, m) : /\ c[1] = <<m, c[1][2]>> /\ c[1][2] \in T
                             /\ c[2] \in 1..f[c[1]] /\ c = <<c[1], c[2]>>
  BY <1>0 DEF InRow, Coins
<1> HIDE DEF row
<1>4. h \in Bijection(InRow(f, m), Coins(row))
  <2>1. ASSUME NEW c \in InRow(f, m) PROVE h[c] \in Coins(row)
    <3>1. c[1][2] \in T /\ c[2] \in 1..row[c[1][2]]
      BY <1>2, <1>3
    <3> QED BY <1>2, <3>1 DEF Coins
  <2>2. ASSUME NEW d \in Coins(row) PROVE \E c \in InRow(f, m) : h[c] = d
    <3>1. d[1] \in T /\ d[2] \in 1..row[d[1]] /\ d = <<d[1], d[2]>>
      BY <1>2 DEF Coins
    <3> DEFINE c == << <<m, d[1]>>, d[2] >>
    <3>2. <<m, d[1]>> \in S \X T /\ c[1] = <<m, d[1]>> /\ c[2] = d[2] /\ c[1][1] = m
      BY <3>1
    <3>3. d[2] \in 1..f[<<m, d[1]>>]
      BY <1>2, <3>1
    <3>4. c \in {<<m, d[1]>>} \X (1..f[<<m, d[1]>>])
      BY <3>3
    <3>5. c \in Coins(f)
      BY <1>0, <3>2, <3>4 DEF Coins
    <3>6. c \in InRow(f, m)
      BY <3>2, <3>5 DEF InRow
    <3>7. h[c] = d
      BY <3>1, <3>2, <3>6
    <3> QED BY <3>6, <3>7
  <2>3. ASSUME NEW c \in InRow(f, m), NEW d \in InRow(f, m), h[c] = h[d] PROVE c = d
    BY <1>3, <2>3
  <2>4. h \in [InRow(f, m) -> Coins(row)]
    BY <2>1
  <2> QED BY <2>2, <2>3, <2>4 DEF Bijection, Injection, Surjection, IsInjective
<1>5. IsFiniteSet(InRow(f, m)) /\ IsFiniteSet(OffRow(f, m))
  BY <1>1, FS_Subset DEF InRow, OffRow
<1>6. Cardinality(InRow(f, m)) = Total(row)
  <2> HIDE DEF h
  <2> QED BY <1>4, <1>5, FS_Bijection DEF ExistsBijection, Total
<1>7. Coins(f) = OffRow(f, m) \cup InRow(f, m) /\ OffRow(f, m) \cap InRow(f, m) = {}
  BY DEF InRow, OffRow
<1>8. Cardinality(Coins(f)) =
        Cardinality(OffRow(f, m)) + Cardinality(InRow(f, m)) - Cardinality({})
  BY <1>5, <1>7, FS_Union
<1>9. /\ Cardinality({}) = 0
      /\ Cardinality(OffRow(f, m)) \in Nat /\ Cardinality(InRow(f, m)) \in Nat
  BY <1>5, FS_EmptySet, FS_CardinalityType
<1> QED BY <1>2, <1>5, <1>6, <1>8, <1>9 DEF Total, row

\* f and g are tables to Nat that agree everywhere but in row m.
AgreeOffRow(S, T, f, g, m) ==
  /\ Table(S, T, f) /\ Table(S, T, g) /\ m \in S
  /\ \A k \in S \X T : k[1] # m => f[k] = g[k]

(* Two tables that differ in one row differ in their sums by what the row    *)
(* holds: a market that is resolved changes what all its positions claim.    *)
LEMMA TotalRow ==
  ASSUME NEW S, NEW T, NEW f, NEW g, NEW m, AgreeOffRow(S, T, f, g, m)
  PROVE  Total(g) + Total(RowOf(f, m, T)) = Total(f) + Total(RowOf(g, m, T))
<1>0. m \in S /\ Table(S, T, f) /\ Table(S, T, g)
  BY DEF AgreeOffRow
<1>1. OffRow(f, m) = OffRow(g, m)
  <2>1. ASSUME NEW c \in OffRow(f, m) PROVE c \in OffRow(g, m)
    BY <2>1 DEF OffRow, Coins, AgreeOffRow, Table
  <2>2. ASSUME NEW c \in OffRow(g, m) PROVE c \in OffRow(f, m)
    BY <2>2 DEF OffRow, Coins, AgreeOffRow, Table
  <2> QED BY <2>1, <2>2
<1>2. /\ IsFiniteSet(OffRow(f, m)) /\ RowOf(f, m, T) \in [T -> Nat]
      /\ Total(f) = Cardinality(OffRow(f, m)) + Total(RowOf(f, m, T))
  BY <1>0, RowSplit
<1>3. /\ RowOf(g, m, T) \in [T -> Nat]
      /\ Total(g) = Cardinality(OffRow(g, m)) + Total(RowOf(g, m, T))
  BY <1>0, RowSplit
<1>4. /\ Cardinality(OffRow(f, m)) \in Nat
      /\ Total(RowOf(f, m, T)) \in Nat /\ Total(RowOf(g, m, T)) \in Nat
  BY <1>2, <1>3, FS_CardinalityType, TotalType DEF AgreeOffRow, Table
<1> QED BY <1>1, <1>2, <1>3, <1>4


(* A sum over two parts of a domain is the sum of their sums. *)
LEMMA TotalParts ==
  ASSUME NEW S, IsFiniteSet(S), NEW f \in [S -> Nat], NEW T \in SUBSET S
  PROVE  Total(f) = Total([x \in T |-> f[x]]) + Total([x \in S \ T |-> f[x]])
<1> DEFINE g == [x \in T |-> f[x]]
           h == [x \in S \ T |-> f[x]]
<1>1. /\ g \in [T -> Nat] /\ h \in [S \ T -> Nat]
      /\ \A x \in T : g[x] = f[x]
      /\ \A x \in S \ T : h[x] = f[x]
  OBVIOUS
<1>2. IsFiniteSet(T) /\ IsFiniteSet(S \ T)
  BY FS_Subset
<1> HIDE DEF g, h
<1>3. IsFiniteSet(Coins(g)) /\ IsFiniteSet(Coins(h))
  BY <1>1, <1>2, CoinsFinite
<1>4. Coins(f) = Coins(g) \cup Coins(h)
  <2>1. Coins(f) = UNION {{x} \X (1..f[x]) : x \in S}
    BY DEF Coins
  <2>2. Coins(g) = UNION {{x} \X (1..f[x]) : x \in T}
    BY <1>1 DEF Coins
  <2>3. Coins(h) = UNION {{x} \X (1..f[x]) : x \in S \ T}
    BY <1>1 DEF Coins
  <2> QED BY <2>1, <2>2, <2>3
<1>5. Coins(g) \cap Coins(h) = {}
  <2>1. \A c \in Coins(g) : c[1] \in T
    BY <1>1 DEF Coins
  <2>2. \A c \in Coins(h) : c[1] \in S \ T
    BY <1>1 DEF Coins
  <2> QED BY <2>1, <2>2
<1>6. Cardinality(Coins(f)) = Cardinality(Coins(g)) + Cardinality(Coins(h))
  <2>1. Cardinality(Coins(g) \cup Coins(h))
          = Cardinality(Coins(g)) + Cardinality(Coins(h)) - Cardinality(Coins(g) \cap Coins(h))
    BY <1>3, FS_Union
  <2>2. Cardinality(Coins(g)) \in Nat /\ Cardinality(Coins(h)) \in Nat
    BY <1>3, FS_CardinalityType
  <2> QED BY <1>4, <1>5, <2>1, <2>2, FS_EmptySet
<1> QED BY <1>6 DEF Total, g, h

===============================================================================
