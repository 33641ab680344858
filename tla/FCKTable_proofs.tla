-------------------------- MODULE FCKTable_proofs ---------------------------
(***************************************************************************)
(* Proofs about the table commands, for any table and any row of commands. *)
(*                                                                         *)
(* First what _CreateTableMap and _InstallTableMap compute: their          *)
(* recursions and loops are solved by induction over sets of indexes       *)
(* (module Induction).  Then where each text comes from, and what no       *)
(* command doubles or loses (TextIsKept).                                  *)
(***************************************************************************)
EXTENDS FCKTable, Induction, SequenceTheorems, FiniteSetTheorems, TLAPS

----------------------------------------------------------------------------
(* The order of the document                                               *)

\* It is a linear order.
LEMMA PrecedesOrders ==
    ASSUME NEW S \in SUBSET (Int \X Int)
    PROVE  /\ \A x \in S : ~ Precedes(x, x)
           /\ \A x, y \in S : x # y => Precedes(x, y) \/ Precedes(y, x)
           /\ \A x, y, z \in S : Precedes(x, y) /\ Precedes(y, z) => Precedes(x, z)
<1>1. \A x \in S : x = <<x[1], x[2]>> /\ x[1] \in Int /\ x[2] \in Int
  OBVIOUS
<1> QED BY <1>1 DEF Precedes

\* InOrder lists the elements in this order, each once.
Lists(s, S) ==
    /\ s \in [1 .. Cardinality(S) -> S]
    /\ \A x \in S : \E k \in 1 .. Cardinality(S) : s[k] = x
    /\ \A i, j \in 1 .. Cardinality(S) : i < j => Precedes(s[i], s[j])

\* InOrder lists a finite set of positions in this order, each once.
LEMMA InOrderLists ==
    ASSUME NEW S \in SUBSET (Int \X Int), IsFiniteSet(S)
    PROVE  Cardinality(S) \in Nat /\ Lists(InOrder(S), S)
<1> DEFINE n == Cardinality(S)
           Below(x) == {y \in S : Precedes(y, x)}
           before == [x \in S |-> Cardinality(Below(x))]
<1>1. n \in Nat
  BY FS_CardinalityType
<1>2. \A x \in S : IsFiniteSet(Below(x)) /\ Cardinality(Below(x)) \in Nat
  BY FS_Subset, FS_CardinalityType
<1>3. ASSUME NEW x \in S, NEW y \in S, Precedes(x, y) PROVE before[x] < before[y]
  <2>1. Below(x) \in SUBSET Below(y) /\ x \in Below(y) /\ x \notin Below(x)
    BY <1>3, PrecedesOrders
  <2>2. Cardinality(Below(x)) <= Cardinality(Below(y)) /\ Cardinality(Below(x)) # Cardinality(Below(y))
    BY <1>2, <2>1, FS_Subset
  <2> QED BY <1>2, <2>2
<1>4. ASSUME NEW x \in S PROVE before[x] \in 0 .. n - 1
  <2>1. Below(x) \in SUBSET S /\ x \notin Below(x)
    BY PrecedesOrders
  <2>2. Cardinality(Below(x)) <= n /\ Cardinality(Below(x)) # n
    BY <2>1, FS_Subset
  <2> QED BY <1>1, <1>2, <2>2
<1>5. before \in Injection(S, 0 .. n - 1)
  <2>1. before \in [S -> 0 .. n - 1]
    BY <1>4
  <2>2. ASSUME NEW x \in S, NEW y \in S, before[x] = before[y] PROVE x = y
    <3> SUFFICES ASSUME x # y PROVE FALSE
      OBVIOUS
    <3>1. before[x] \in Int /\ before[y] \in Int
      BY <1>4
    <3>2. Precedes(x, y) \/ Precedes(y, x)
      BY PrecedesOrders
    <3> HIDE DEF before
    <3>3. before[x] < before[y] \/ before[y] < before[x]
      BY <1>3, <3>2
    <3> QED BY <2>2, <3>1, <3>3
  <2> HIDE DEF before
  <2> QED BY <2>1, <2>2 DEF Injection, IsInjective
<1>6. IsFiniteSet(0 .. n - 1) /\ Cardinality(0 .. n - 1) = n
  <2> HIDE DEF n
  <2>1. 0 \in Int /\ n - 1 \in Int
    BY <1>1
  <2>2. IsFiniteSet(0 .. n - 1) /\ Cardinality(0 .. n - 1) = IF 0 > n - 1 THEN 0 ELSE n - 1 - 0 + 1
    BY <2>1, FS_Interval
  <2> QED BY <1>1, <2>2
<1>7. before \in Surjection(S, 0 .. n - 1)
  <2> HIDE DEF before, n
  <2> QED BY <1>5, <1>6, FS_Injection DEF n
<1> DEFINE s == [k \in 1 .. n |-> CHOOSE x \in S : before[x] = k - 1]
<1>8. InOrder(S) = s
  BY DEF InOrder
<1>9. ASSUME NEW k \in 1 .. n PROVE s[k] \in S /\ before[s[k]] = k - 1
  <2>1. k - 1 \in 0 .. n - 1
    BY <1>1
  <2>2. \E x \in S : before[x] = k - 1
    <3> HIDE DEF before
    <3> QED BY <1>7, <2>1 DEF Surjection
  <2> HIDE DEF before
  <2> QED BY <2>2
<1>10. ASSUME NEW x \in S PROVE \E k \in 1 .. n : s[k] = x
  <2>1. before[x] + 1 \in 1 .. n /\ (before[x] + 1) - 1 = before[x]
    BY <1>1, <1>4
  <2>2. s[before[x] + 1] \in S /\ before[s[before[x] + 1]] = before[x]
    <3> HIDE DEF before, s
    <3> QED BY <1>9, <2>1
  <2>3. s[before[x] + 1] = x
    <3> HIDE DEF before, s
    <3> QED BY <1>5, <2>2 DEF Injection, IsInjective
  <2> QED BY <2>1, <2>3
<1>11. ASSUME NEW i \in 1 .. n, NEW j \in 1 .. n, i < j PROVE Precedes(s[i], s[j])
  <2> HIDE DEF before, s
  <2>1. s[i] # s[j] /\ ~ Precedes(s[j], s[i])
    BY <1>1, <1>3, <1>9, <1>11
  <2> QED BY <1>9, <2>1, PrecedesOrders
<1>12. s \in [1 .. n -> S]
  <2> HIDE DEF before
  <2> QED BY <1>9
<1> QED
  <2> HIDE DEF s, before
  <2> QED BY <1>1, <1>8, <1>10, <1>11, <1>12 DEF Lists
----------------------------------------------------------------------------
(* Sets                                                                    *)

\* The values of a function on a finite set are finitely many.
LEMMA FiniteImage ==
    ASSUME NEW S, IsFiniteSet(S), NEW f
    PROVE  IsFiniteSet({f[x] : x \in S})
<1> DEFINE T == {f[x] : x \in S}
           g == [x \in S |-> f[x]]
<1>1. g \in Surjection(S, T)
  BY DEF Surjection
<1> QED
  <2> HIDE DEF g, T
  <2>1. IsFiniteSet(T)
    BY <1>1, FS_Surjection
  <2> QED BY <2>1 DEF T

\* Finitely many finite sets together are finite.
LEMMA FiniteFamily ==
    ASSUME NEW S, IsFiniteSet(S), NEW f, \A x \in S : IsFiniteSet(f[x])
    PROVE  IsFiniteSet(UNION {f[x] : x \in S})
BY FiniteImage, FS_UNION

\* Min and Max are what they are called.
LEMMA MinOf ==
    ASSUME NEW S \in SUBSET Nat, S # {}
    PROVE  Min(S) \in S /\ \A x \in S : Min(S) <= x
<1>1. \E x \in S : \A y \in S : x <= y
  BY LeastNumber
<1> QED BY <1>1 DEF Min

\* A finite set of numbers that is not empty has a greatest one, which is Max.
LEMMA MaxOf ==
    ASSUME NEW S \in SUBSET Nat, S # {}, IsFiniteSet(S)
    PROVE  Max(S) \in S /\ \A x \in S : x <= Max(S)
<1> DEFINE Above(x) == {y \in S : y > x}
           n == [x \in S |-> Cardinality(Above(x))]
           N == {n[x] : x \in S}
<1>1. \A x \in S : IsFiniteSet(Above(x)) /\ Cardinality(Above(x)) \in Nat
  BY FS_Subset, FS_CardinalityType
<1>2. N \in SUBSET Nat /\ N # {}
  BY <1>1
<1>3. PICK m \in N : \A k \in N : m <= k
  <2> HIDE DEF N
  <2> QED BY <1>2, LeastNumber
<1>4. PICK x \in S : m = n[x]
  BY <1>3
<1>5. ASSUME NEW y \in S, y > x PROVE FALSE
  <2>1. Above(y) \in SUBSET Above(x) /\ y \in Above(x) /\ y \notin Above(y)
    BY <1>4, <1>5
  <2>2. Cardinality(Above(y)) <= Cardinality(Above(x)) /\ Cardinality(Above(y)) # Cardinality(Above(x))
    BY <1>1, <2>1, FS_Subset
  <2>3. n[y] < n[x]
    BY <1>1, <2>2
  <2>4. n[x] <= n[y] /\ n[x] \in Nat /\ n[y] \in Nat
    BY <1>1, <1>3, <1>4
  <2> QED BY <2>3, <2>4
<1>6. \A y \in S : x >= y
  BY <1>5
<1> QED BY <1>4, <1>6 DEF Max

----------------------------------------------------------------------------
(* Tables and maps                                                         *)

Cell == [colSpan : Nat \ {0}, rowSpan : Nat \ {0}, text : SUBSET Place]
Tables == Seq(Seq(Cell))
Position == (Nat \ {0}) \X (Nat \ {0})

\* A cell of a table has a place, and what is there is a cell.
LEMMA PlacesOf ==
    ASSUME NEW t \in Tables
    PROVE  /\ Places(t) \in SUBSET Position
           /\ IsFiniteSet(Places(t))
           /\ \A p \in Places(t) : /\ p = <<p[1], p[2]>>
                                   /\ p[1] \in 1 .. Len(t)
                                   /\ p[2] \in 1 .. Len(t[p[1]])
                                   /\ CellAt(t, p) \in Cell
           /\ \A i \in 1 .. Len(t) : \A j \in 1 .. Len(t[i]) : <<i, j>> \in Places(t)
<1>1. Len(t) \in Nat /\ DOMAIN t = 1 .. Len(t) /\ \A i \in 1 .. Len(t) : t[i] \in Seq(Cell)
  BY LenProperties DEF Tables
<1>2. ASSUME NEW i \in 1 .. Len(t)
      PROVE  /\ Len(t[i]) \in Nat
             /\ DOMAIN t[i] = 1 .. Len(t[i])
             /\ \A j \in 1 .. Len(t[i]) : t[i][j] \in Cell
  BY <1>1, LenProperties
<1>3. \A p : p \in Places(t) <=> \E i \in 1 .. Len(t) : \E j \in 1 .. Len(t[i]) : p = <<i, j>>
  BY <1>1, <1>2 DEF Places
<1>4. IsFiniteSet(Places(t))
  <2> DEFINE f == [i \in 1 .. Len(t) |-> {i} \X DOMAIN t[i]]
  <2>1. IsFiniteSet(1 .. Len(t))
    BY <1>1, FS_Interval
  <2>2. ASSUME NEW i \in 1 .. Len(t) PROVE IsFiniteSet(f[i])
    <3>0. 1 \in Int /\ Len(t[i]) \in Int
      BY <1>2
    <3>1. IsFiniteSet(1 .. Len(t[i]))
      BY <3>0, FS_Interval
    <3>3. IsFiniteSet({i}) /\ IsFiniteSet(DOMAIN t[i])
      BY <1>2, <3>1, FS_Singleton
    <3>2. IsFiniteSet({i} \X DOMAIN t[i])
      BY <3>3, FS_Product
    <3> QED BY <3>2
  <2>3. Places(t) = UNION {f[i] : i \in 1 .. Len(t)}
    BY <1>1 DEF Places
  <2>4. \A i \in 1 .. Len(t) : IsFiniteSet(f[i])
    BY <2>2
  <2> HIDE DEF f
  <2>5. IsFiniteSet(UNION {f[i] : i \in 1 .. Len(t)})
    BY <2>1, <2>4, FiniteFamily
  <2> QED BY <2>3, <2>5
<1>5. Places(t) \in SUBSET Position
  BY <1>1, <1>2, <1>3 DEF Position
<1>6. ASSUME NEW p \in Places(t)
      PROVE  /\ p = <<p[1], p[2]>>
             /\ p[1] \in 1 .. Len(t)
             /\ p[2] \in 1 .. Len(t[p[1]])
             /\ CellAt(t, p) \in Cell
  BY <1>2, <1>3 DEF CellAt
<1> QED BY <1>3, <1>4, <1>5, <1>6

IsMap(map, P) ==
    /\ DOMAIN map \in SUBSET Position
    /\ IsFiniteSet(DOMAIN map)
    /\ map \in [DOMAIN map -> P]

\* The first free column exists.
LEMMA FirstFreeIsFree ==
    ASSUME NEW map, DOMAIN map \in SUBSET Position, IsFiniteSet(DOMAIN map), NEW r \in Nat \ {0}
    PROVE  /\ FirstFree(map, r) \in Nat \ {0}
           /\ <<r, FirstFree(map, r)>> \notin DOMAIN map
           /\ \A d \in 1 .. FirstFree(map, r) - 1 : <<r, d>> \in DOMAIN map
<1> DEFINE n == Cardinality(DOMAIN map)
           T == {c \in 1 .. n + 1 : <<r, c>> \notin DOMAIN map}
<1>1. n \in Nat
  BY FS_CardinalityType
<1>2. T # {}
  <2> SUFFICES ASSUME T = {} PROVE FALSE
    OBVIOUS
  <2> DEFINE f == [c \in 1 .. n + 1 |-> <<r, c>>]
  <2>1. f \in Injection(1 .. n + 1, DOMAIN map)
    BY DEF Injection, IsInjective
  <2>2. IsFiniteSet(1 .. n + 1) /\ Cardinality(1 .. n + 1) = n + 1
    <3> HIDE DEF n
    <3> QED BY <1>1, FS_Interval
  <2>3. Cardinality(1 .. n + 1) <= n
    <3> HIDE DEF f
    <3> QED BY <2>1, FS_Injection
  <2> QED BY <1>1, <2>2, <2>3
<1>3. PICK c \in T : \A d \in T : c <= d
  <2>1. T \in SUBSET Nat
    BY <1>1
  <2> HIDE DEF T
  <2> QED BY <1>2, <2>1, LeastNumber
<1>4. \A d \in 1 .. c - 1 : <<r, d>> \in DOMAIN map
  BY <1>1, <1>3
<1>5. \E e \in 1 .. Cardinality(DOMAIN map) + 1 :
         <<r, e>> \notin DOMAIN map /\ \A d \in 1 .. e - 1 : <<r, d>> \in DOMAIN map
  BY <1>3, <1>4
<1> DEFINE e == FirstFree(map, r)
<1>6. e \in 1 .. Cardinality(DOMAIN map) + 1 /\ <<r, e>> \notin DOMAIN map
      /\ \A d \in 1 .. e - 1 : <<r, d>> \in DOMAIN map
  BY <1>5 DEF FirstFree
<1> HIDE DEF e
<1>7. e \in Nat \ {0}
  BY <1>1, <1>6
<1> QED BY <1>6, <1>7 DEF e

----------------------------------------------------------------------------
(* What CreateTableMap makes                                               *)

\* A function from 1 .. n is a sequence.
LEMMA ListIsSeq ==
    ASSUME NEW S, NEW n \in Nat, NEW s \in [1 .. n -> S]
    PROVE  s \in Seq(S) /\ Len(s) = n /\ DOMAIN s = 1 .. n
<1>1. s \in Seq(S)
  BY SeqDef
<1>2. Len(s) \in Nat /\ DOMAIN s = 1 .. Len(s)
  BY <1>1, LenProperties
<1> QED BY <1>1, <1>2

\* Over takes the first function where it is defined, and the second elsewhere.
LEMMA OverIs ==
    ASSUME NEW f, NEW g
    PROVE  /\ DOMAIN Over(f, g) = DOMAIN f \cup DOMAIN g
           /\ \A x \in DOMAIN f : Over(f, g)[x] = f[x]
           /\ \A x \in DOMAIN g \ DOMAIN f : Over(f, g)[x] = g[x]
           /\ Over(f, g) = [x \in DOMAIN f \cup DOMAIN g |-> Over(f, g)[x]]
<1> DEFINE h == [x \in DOMAIN f \cup DOMAIN g |-> IF x \in DOMAIN f THEN f[x] ELSE g[x]]
<1>1. Over(f, g) = CHOOSE k \in {h} : k = k
  BY DEF Over
<1>2. (CHOOSE k \in {h} : k = k) = h
  <2> HIDE DEF h
  <2> QED OBVIOUS
<1> QED BY <1>1, <1>2

Within(x, r, c, h, w) ==
    /\ x = <<x[1], x[2]>> /\ x[1] \in Nat /\ x[2] \in Nat
    /\ r <= x[1] /\ x[1] < r + h
    /\ c <= x[2] /\ x[2] < c + w

\* A block has positions, and finitely many of them.
LEMMA BlockIs ==
    ASSUME NEW r \in Nat \ {0}, NEW c \in Nat \ {0}, NEW h \in Nat, NEW w \in Nat
    PROVE  /\ Block(r, c, h, w) \in SUBSET Position
           /\ IsFiniteSet(Block(r, c, h, w))
           /\ Cardinality(Block(r, c, h, w)) = w * h
           /\ \A x : x \in Block(r, c, h, w) <=> Within(x, r, c, h, w)
<1>1. r + h - 1 \in Int /\ c + w - 1 \in Int /\ r \in Int /\ c \in Int
  OBVIOUS
<1>2. /\ IsFiniteSet(r .. r + h - 1) /\ Cardinality(r .. r + h - 1) = h
      /\ IsFiniteSet(c .. c + w - 1) /\ Cardinality(c .. c + w - 1) = w
  BY <1>1, FS_Interval
<1>3. /\ IsFiniteSet(Block(r, c, h, w))
      /\ Cardinality(Block(r, c, h, w)) = h * w
  <2> DEFINE A == r .. r + h - 1
             B == c .. c + w - 1
  <2>1. IsFiniteSet(A) /\ Cardinality(A) = h /\ IsFiniteSet(B) /\ Cardinality(B) = w
    BY <1>2
  <2>2. Block(r, c, h, w) = A \X B
    BY DEF Block
  <2> HIDE DEF A, B
  <2> QED BY <2>1, <2>2, FS_Product
<1>4. ASSUME NEW x PROVE x \in Block(r, c, h, w) <=> Within(x, r, c, h, w)
  BY DEF Block, Within
<1>5. Block(r, c, h, w) \in SUBSET Position
  BY <1>4 DEF Position, Within
<1>6. h * w = w * h
  OBVIOUS
<1> QED BY <1>3, <1>4, <1>5, <1>6

Maps(P) == {m \in UNION {[Q -> P] : Q \in FiniteSubsetsOf(Position)} : TRUE}

\* Maps is the set of all maps.
LEMMA MapsAre == ASSUME NEW P, NEW m PROVE m \in Maps(P) <=> IsMap(m, P)
BY DEF Maps, IsMap, FiniteSubsetsOf

\* The map after one more cell.
MapStep(t, m, p) ==
    Over([x \in Block(p[1], FirstFree(m, p[1]), CellAt(t, p).rowSpan, CellAt(t, p).colSpan) |-> p], m)

\* One more cell makes a map of a map.
LEMMA MapStepIsMap ==
    ASSUME NEW t \in Tables, NEW m, IsMap(m, Places(t)), NEW p \in Places(t)
    PROVE  IsMap(MapStep(t, m, p), Places(t))
<1> DEFINE B == Block(p[1], FirstFree(m, p[1]), CellAt(t, p).rowSpan, CellAt(t, p).colSpan)
           f == [x \in B |-> p]
<1>1. p[1] \in Nat \ {0} /\ CellAt(t, p).rowSpan \in Nat /\ CellAt(t, p).colSpan \in Nat
  <2>1. p \in Position /\ CellAt(t, p) \in Cell
    BY PlacesOf
  <2> QED BY <2>1 DEF Cell, Position
<1>2. FirstFree(m, p[1]) \in Nat \ {0}
  BY <1>1, FirstFreeIsFree DEF IsMap
<1>3. B \in SUBSET Position /\ IsFiniteSet(B)
  <2> DEFINE r == p[1]
             c == FirstFree(m, p[1])
             h == CellAt(t, p).rowSpan
             w == CellAt(t, p).colSpan
  <2>1. r \in Nat \ {0} /\ c \in Nat \ {0} /\ h \in Nat /\ w \in Nat
    BY <1>1, <1>2
  <2>2. B = Block(r, c, h, w)
    OBVIOUS
  <2> HIDE DEF r, c, h, w, B
  <2> QED BY <2>1, <2>2, BlockIs
<1>8. DOMAIN f = B /\ \A x \in B : f[x] = p
  OBVIOUS
<1> HIDE DEF B, f
<1>4. /\ DOMAIN Over(f, m) = B \cup DOMAIN m
      /\ \A x \in B : Over(f, m)[x] = p
      /\ \A x \in DOMAIN m \ B : Over(f, m)[x] = m[x]
      /\ Over(f, m) = [x \in B \cup DOMAIN m |-> Over(f, m)[x]]
  <2>1. /\ DOMAIN Over(f, m) = DOMAIN f \cup DOMAIN m
        /\ \A x \in DOMAIN f : Over(f, m)[x] = f[x]
        /\ \A x \in DOMAIN m \ DOMAIN f : Over(f, m)[x] = m[x]
        /\ Over(f, m) = [x \in DOMAIN f \cup DOMAIN m |-> Over(f, m)[x]]
    BY OverIs
  <2>2. Over(f, m) = [x \in B \cup DOMAIN m |-> Over(f, m)[x]]
    <3>1. DOMAIN f \cup DOMAIN m = B \cup DOMAIN m
      BY <1>8
    <3> QED BY <2>1, <3>1
  <2> QED BY <1>8, <2>1, <2>2
<1>5. IsFiniteSet(B \cup DOMAIN m)
  BY <1>3, FS_Union DEF IsMap
<1>6. Over(f, m) \in [B \cup DOMAIN m -> Places(t)]
  BY <1>4 DEF IsMap
<1>7. IsMap(Over(f, m), Places(t))
  BY <1>3, <1>4, <1>5, <1>6 DEF IsMap
<1> QED BY <1>7 DEF MapStep, B, f

\* f[n] is the map after n cells.
Mapping(f, t) ==
    /\ f \in [0 .. Cardinality(Places(t)) -> Maps(Places(t))]
    /\ f[0] = <<>>
    /\ \A n \in 1 .. Cardinality(Places(t)) : f[n] = MapStep(t, f[n - 1], InOrder(Places(t))[n])

\* _CreateTableMap has a map after each number of cells: the recursion has a solution.
LEMMA MappingExists ==
    ASSUME NEW t \in Tables
    PROVE  \E f : Mapping(f, t)
<1> DEFINE P == Places(t)
           N == Cardinality(P)
           cells == InOrder(P)
           step == [n \in 1 .. N |-> [m \in Maps(P) |-> MapStep(t, m, cells[n])]]
<1>1. N \in Nat /\ Lists(cells, P)
  <2>1. P \in SUBSET (Int \X Int) /\ IsFiniteSet(P)
    BY PlacesOf DEF Position
  <2> QED BY <2>1, InOrderLists
<1>2. ASSUME NEW n \in 1 .. N, NEW m \in Maps(P) PROVE MapStep(t, m, cells[n]) \in Maps(P)
  <2>1. cells[n] \in P /\ IsMap(m, P)
    BY <1>1, MapsAre DEF Lists
  <2>2. IsMap(MapStep(t, m, cells[n]), P)
    BY <2>1, MapStepIsMap
  <2> QED BY <2>2, MapsAre
<1>3. <<>> \in Maps(P)
  <2>1. DOMAIN <<>> = {} /\ IsFiniteSet({})
    BY FS_EmptySet
  <2>2. <<>> \in [{} -> P]
    OBVIOUS
  <2>3. IsMap(<<>>, P)
    BY <2>1, <2>2 DEF IsMap
  <2> QED BY <2>3, MapsAre
<1> HIDE DEF P, N, cells
<1>4. step \in [1 .. N -> [Maps(P) -> Maps(P)]]
  BY <1>2
<1>5. PICK f : Solves(f, N, Maps(P), <<>>, step)
  <2> HIDE DEF step
  <2> QED BY <1>1, <1>3, <1>4, RecursionHasSolution
<1>6. ASSUME NEW n \in 1 .. N PROVE f[n] = MapStep(t, f[n - 1], cells[n])
  <2>1. n - 1 \in 0 .. N
    BY <1>1
  <2>2. f[n - 1] \in Maps(P) /\ f[n] = step[n][f[n - 1]]
    BY <1>5, <2>1 DEF Solves
  <2> QED BY <2>2
<1>7. f \in [0 .. N -> Maps(P)] /\ f[0] = <<>>
  BY <1>5 DEF Solves
<1>8. Mapping(f, t)
  <2> HIDE DEF step
  <2> QED BY <1>6, <1>7 DEF Mapping, P, N, cells
<1> QED BY <1>8

\* The map is the last of them.
LEMMA MapIsLast ==
    ASSUME NEW t \in Tables, NEW f, Mapping(f, t)
    PROVE  CreateTableMap(t) = f[Cardinality(Places(t))]
<1> DEFINE P == Places(t)
           N == Cardinality(P)
           cells == InOrder(P)
           Recursive(g) == g = [n \in 0 .. Len(cells) |->
               IF n = 0 THEN <<>>
               ELSE Over([x \in Block(cells[n][1], FirstFree(g[n - 1], cells[n][1]),
                                      CellAt(t, cells[n]).rowSpan, CellAt(t, cells[n]).colSpan) |-> cells[n]],
                         g[n - 1])]
           Stepwise(g) == g = [n \in 0 .. N |-> IF n = 0 THEN <<>> ELSE MapStep(t, g[n - 1], cells[n])]
<1>1. N \in Nat /\ Len(cells) = N
  <2>1. P \in SUBSET (Int \X Int) /\ IsFiniteSet(P)
    BY PlacesOf DEF Position
  <2>2. N \in Nat /\ cells \in [1 .. N -> P]
    BY <2>1, InOrderLists DEF Lists
  <2> HIDE DEF P, N, cells
  <2> QED BY <2>2, ListIsSeq
<1>2. CreateTableMap(t) = (CHOOSE g : Recursive(g))[Len(cells)]
  BY DEF CreateTableMap
<1>3. \A g : Recursive(g) <=> Stepwise(g)
  <2> HIDE DEF P, N, cells
  <2> QED BY <1>1 DEF MapStep
<1> HIDE DEF Recursive
<1>4. f \in [0 .. N -> Maps(P)] /\ f[0] = <<>> /\ \A n \in 1 .. N : f[n] = MapStep(t, f[n - 1], cells[n])
  BY DEF Mapping
<1> HIDE DEF P, N, cells
<1>5. Stepwise(f)
  BY <1>1, <1>4
<1>6. ASSUME NEW g, Stepwise(g) PROVE g = f
  <2> DEFINE S == {n \in 0 .. N : g[n] = f[n]}
  <2>1. 0 \in S
    BY <1>1, <1>4, <1>6
  <2>2. ASSUME NEW n \in 0 + 1 .. N, n - 1 \in S PROVE n \in S
    <3>1. n \in 1 .. N /\ n \in 0 .. N /\ n # 0
      BY <1>1
    <3>2. g[n] = MapStep(t, g[n - 1], cells[n])
      BY <1>6, <3>1
    <3> QED BY <1>4, <2>2, <3>1, <3>2
  <2>3. \A n \in 0 .. N : n \in S
    <3> HIDE DEF S
    <3> QED BY <1>1, <2>1, <2>2, UpTo
  <2>4. \A n \in 0 .. N : g[n] = f[n]
    BY <2>3
  <2> QED BY <1>4, <1>6, <2>4
<1>7. \E g : Recursive(g)
  BY <1>3, <1>5
<1>8. Recursive(CHOOSE g : Recursive(g))
  BY <1>7
<1>9. (CHOOSE g : Recursive(g)) = f
  <2> DEFINE g == CHOOSE h : Recursive(h)
  <2>1. Stepwise(g)
    BY <1>3, <1>8
  <2> HIDE DEF g
  <2>2. g = f
    BY <1>6, <2>1
  <2> QED BY <2>2 DEF g
<1> QED BY <1>1, <1>2, <1>9 DEF P, N

\* The n-th cell, the column it goes to, and the positions it covers then.
NthCell(t, n) == InOrder(Places(t))[n]
NthColumn(f, t, n) == FirstFree(f[n - 1], NthCell(t, n)[1])
NthBlock(f, t, n) ==
    Block(NthCell(t, n)[1], NthColumn(f, t, n),
          CellAt(t, NthCell(t, n)).rowSpan, CellAt(t, NthCell(t, n)).colSpan)

\* The cells in their order.
LEMMA NthCellIs ==
    ASSUME NEW t \in Tables
    PROVE  /\ Cardinality(Places(t)) \in Nat
           /\ \A n \in 1 .. Cardinality(Places(t)) :
                /\ NthCell(t, n) \in Places(t)
                /\ NthCell(t, n) = <<NthCell(t, n)[1], NthCell(t, n)[2]>>
                /\ NthCell(t, n)[1] \in Nat \ {0}
                /\ NthCell(t, n)[2] \in Nat \ {0}
                /\ CellAt(t, NthCell(t, n)).rowSpan \in Nat \ {0}
                /\ CellAt(t, NthCell(t, n)).colSpan \in Nat \ {0}
           /\ \A p \in Places(t) : \E n \in 1 .. Cardinality(Places(t)) : NthCell(t, n) = p
           /\ \A m, n \in 1 .. Cardinality(Places(t)) : m < n => Precedes(NthCell(t, m), NthCell(t, n))
           /\ \A m, n \in 1 .. Cardinality(Places(t)) : NthCell(t, m) = NthCell(t, n) => m = n
           /\ \A m, n \in 1 .. Cardinality(Places(t)) : Precedes(NthCell(t, m), NthCell(t, n)) => m < n
<1> DEFINE P == Places(t)
           N == Cardinality(P)
<1>1. P \in SUBSET (Int \X Int) /\ IsFiniteSet(P)
  BY PlacesOf DEF Position
<1>2. N \in Nat /\ Lists(InOrder(P), P)
  <2> HIDE DEF P
  <2> QED BY <1>1, InOrderLists
<1>3. ASSUME NEW n \in 1 .. N
      PROVE  /\ NthCell(t, n) \in P
             /\ NthCell(t, n) = <<NthCell(t, n)[1], NthCell(t, n)[2]>>
             /\ NthCell(t, n)[1] \in Nat \ {0}
             /\ NthCell(t, n)[2] \in Nat \ {0}
             /\ CellAt(t, NthCell(t, n)).rowSpan \in Nat \ {0}
             /\ CellAt(t, NthCell(t, n)).colSpan \in Nat \ {0}
  <2> DEFINE p == NthCell(t, n)
  <2>1. p \in P
    BY <1>2 DEF Lists, NthCell
  <2> HIDE DEF p
  <2>2. p \in Position /\ CellAt(t, p) \in Cell /\ p = <<p[1], p[2]>>
    BY <2>1, PlacesOf
  <2>3. /\ p[1] \in Nat \ {0} /\ p[2] \in Nat \ {0}
        /\ CellAt(t, p).rowSpan \in Nat \ {0} /\ CellAt(t, p).colSpan \in Nat \ {0}
    BY <2>2 DEF Cell, Position
  <2> QED BY <2>1, <2>2, <2>3 DEF p
<1>4. \A p \in P : \E n \in 1 .. N : NthCell(t, n) = p
  BY <1>2 DEF Lists, NthCell
<1>5. \A m, n \in 1 .. N : m < n => Precedes(NthCell(t, m), NthCell(t, n))
  BY <1>2 DEF Lists, NthCell
<1>6. ASSUME NEW m \in 1 .. N, NEW n \in 1 .. N PROVE m < n \/ m = n \/ n < m
  BY <1>2
<1>7. \A x \in P : ~ Precedes(x, x)
  <2> HIDE DEF P
  <2> QED BY <1>1, PrecedesOrders
<1>8. \A x, y \in P : Precedes(x, y) => ~ Precedes(y, x)
  <2> HIDE DEF P
  <2> QED BY <1>1, PrecedesOrders
<1>9. ASSUME NEW m \in 1 .. N, NEW n \in 1 .. N, NthCell(t, m) = NthCell(t, n) PROVE m = n
  <2> HIDE DEF P, N
  <2> QED BY <1>3, <1>5, <1>6, <1>7, <1>9
<1>10. ASSUME NEW m \in 1 .. N, NEW n \in 1 .. N, Precedes(NthCell(t, m), NthCell(t, n)) PROVE m < n
  <2> HIDE DEF P, N
  <2> QED BY <1>3, <1>5, <1>6, <1>7, <1>8, <1>10
<1> QED BY <1>2, <1>3, <1>4, <1>5, <1>9, <1>10

\* What a step does.
LEMMA StepIs ==
    ASSUME NEW t \in Tables, NEW f, Mapping(f, t), NEW n \in 1 .. Cardinality(Places(t))
    PROVE  /\ DOMAIN f[n] = NthBlock(f, t, n) \cup DOMAIN f[n - 1]
           /\ \A x \in NthBlock(f, t, n) : f[n][x] = NthCell(t, n)
           /\ \A x \in DOMAIN f[n - 1] \ NthBlock(f, t, n) : f[n][x] = f[n - 1][x]
           /\ NthColumn(f, t, n) \in Nat \ {0}
           /\ <<NthCell(t, n)[1], NthColumn(f, t, n)>> \notin DOMAIN f[n - 1]
           /\ <<NthCell(t, n)[1], NthColumn(f, t, n)>> \in NthBlock(f, t, n)
           /\ \A d \in 1 .. NthColumn(f, t, n) - 1 : <<NthCell(t, n)[1], d>> \in DOMAIN f[n - 1]
           /\ \A x : x \in NthBlock(f, t, n) <=>
                      Within(x, NthCell(t, n)[1], NthColumn(f, t, n),
                             CellAt(t, NthCell(t, n)).rowSpan, CellAt(t, NthCell(t, n)).colSpan)
<1> DEFINE N == Cardinality(Places(t))
           p == NthCell(t, n)
           m == f[n - 1]
           r == p[1]
           c == NthColumn(f, t, n)
           h == CellAt(t, p).rowSpan
           w == CellAt(t, p).colSpan
           B == NthBlock(f, t, n)
           g == [x \in B |-> p]
<1>1. r \in Nat \ {0} /\ h \in Nat \ {0} /\ w \in Nat \ {0} /\ N \in Nat
  BY NthCellIs
<1>2. IsMap(m, Places(t))
  <2>1. n - 1 \in 0 .. N
    BY <1>1
  <2>2. m \in Maps(Places(t))
    BY <2>1 DEF Mapping
  <2> QED BY <2>2, MapsAre
<1>3. f[n] = Over(g, m)
  BY DEF Mapping, MapStep, NthBlock, NthColumn, NthCell
<1>4. c = FirstFree(m, r)
  BY DEF NthColumn
<1>5. B = Block(r, c, h, w)
  BY DEF NthBlock
<1>6. DOMAIN g = B /\ \A x \in B : g[x] = p
  OBVIOUS
<1> HIDE DEF p, m, r, c, h, w, B, g
<1>7. c \in Nat \ {0} /\ <<r, c>> \notin DOMAIN m /\ \A d \in 1 .. c - 1 : <<r, d>> \in DOMAIN m
  BY <1>1, <1>2, <1>4, FirstFreeIsFree DEF IsMap
<1>8. \A x : x \in B <=> Within(x, r, c, h, w)
  <2>1. r \in Nat \ {0} /\ c \in Nat \ {0} /\ h \in Nat /\ w \in Nat
    BY <1>1, <1>7
  <2> QED BY <1>5, <2>1, BlockIs
<1>9. <<r, c>> \in B
  <2>1. r \in Nat /\ c \in Nat /\ r <= r /\ r < r + h /\ c <= c /\ c < c + w
    BY <1>1, <1>7
  <2> QED BY <1>8, <2>1 DEF Within
<1>10. /\ DOMAIN Over(g, m) = DOMAIN g \cup DOMAIN m
       /\ \A x \in DOMAIN g : Over(g, m)[x] = g[x]
       /\ \A x \in DOMAIN m \ DOMAIN g : Over(g, m)[x] = m[x]
  BY OverIs
<1>11. /\ DOMAIN f[n] = B \cup DOMAIN m
       /\ \A x \in B : f[n][x] = p
       /\ \A x \in DOMAIN m \ B : f[n][x] = m[x]
  BY <1>3, <1>6, <1>10
<1> QED BY <1>7, <1>8, <1>9, <1>11 DEF p, m, r, c, h, w, B

\* After n cells: each covers its block, except where a later one does.
LaidOut(f, t, n) ==
    /\ \A k \in 1 .. n : NthBlock(f, t, k) \subseteq DOMAIN f[n]
    /\ \A x \in DOMAIN f[n] : \E k \in 1 .. n : f[n][x] = NthCell(t, k) /\ x \in NthBlock(f, t, k)
    /\ \A k \in 1 .. n : f[n][<<NthCell(t, k)[1], NthColumn(f, t, k)>>] = NthCell(t, k)
    /\ \A k \in 1 .. n : \A d \in 1 .. NthColumn(f, t, k) : <<NthCell(t, k)[1], d>> \in DOMAIN f[n]
    /\ \A j, k \in 1 .. n :
          j < k /\ NthCell(t, j)[1] = NthCell(t, k)[1] => NthColumn(f, t, j) < NthColumn(f, t, k)

\* A cell comes to the first free columns of its row, behind the cells before it.
LEMMA LaidOutNext ==
    ASSUME NEW t \in Tables, NEW f, Mapping(f, t), NEW n \in 1 .. Cardinality(Places(t)),
           LaidOut(f, t, n - 1)
    PROVE  LaidOut(f, t, n)
<1> DEFINE N == Cardinality(Places(t))
           p(k) == NthCell(t, k)
           c(k) == NthColumn(f, t, k)
           B(k) == NthBlock(f, t, k)
<1>1. N \in Nat /\ n \in Nat /\ n - 1 \in Nat /\ n <= N
  BY NthCellIs
<1>2. \A k \in 1 .. N : p(k)[1] \in Nat \ {0}
  BY NthCellIs
<1>3. /\ DOMAIN f[n] = B(n) \cup DOMAIN f[n - 1]
      /\ \A x \in B(n) : f[n][x] = p(n)
      /\ \A x \in DOMAIN f[n - 1] \ B(n) : f[n][x] = f[n - 1][x]
      /\ <<p(n)[1], c(n)>> \notin DOMAIN f[n - 1]
      /\ <<p(n)[1], c(n)>> \in B(n)
      /\ \A d \in 1 .. c(n) - 1 : <<p(n)[1], d>> \in DOMAIN f[n - 1]
      /\ \A i, j : <<i, j>> \in B(n) => p(n)[1] <= i /\ c(n) <= j
  <2>1. ASSUME NEW i, NEW j, <<i, j>> \in B(n) PROVE p(n)[1] <= i /\ c(n) <= j
    <3>1. Within(<<i, j>>, p(n)[1], c(n), CellAt(t, p(n)).rowSpan, CellAt(t, p(n)).colSpan)
      BY <2>1, StepIs
    <3> HIDE DEF p, c
    <3> QED BY <3>1 DEF Within
  <2> QED BY <2>1, StepIs
<1>4. \A k \in 1 .. N : c(k) \in Nat \ {0} /\ <<p(k)[1], c(k)>> \in B(k)
  BY StepIs
<1>5. \A k \in 1 .. n - 1 : p(k)[1] <= p(n)[1]
  <2> SUFFICES ASSUME NEW k \in 1 .. n - 1 PROVE p(k)[1] <= p(n)[1]
    OBVIOUS
  <2>1. k \in 1 .. N /\ n \in 1 .. N /\ k < n
    BY <1>1
  <2>2. Precedes(p(k), p(n))
    BY <2>1, NthCellIs
  <2> HIDE DEF p
  <2> QED BY <1>2, <2>1, <2>2 DEF Precedes
<1>6. /\ \A k \in 1 .. n - 1 : B(k) \subseteq DOMAIN f[n - 1]
      /\ \A x \in DOMAIN f[n - 1] : \E k \in 1 .. n - 1 : f[n - 1][x] = p(k) /\ x \in B(k)
      /\ \A k \in 1 .. n - 1 : f[n - 1][<<p(k)[1], c(k)>>] = p(k)
      /\ \A k \in 1 .. n - 1 : \A d \in 1 .. c(k) : <<p(k)[1], d>> \in DOMAIN f[n - 1]
      /\ \A j, k \in 1 .. n - 1 : j < k /\ p(j)[1] = p(k)[1] => c(j) < c(k)
  BY DEF LaidOut
<1> HIDE DEF N, p, c, B
<1>7. \A k \in 1 .. n : k = n \/ k \in 1 .. n - 1
  BY <1>1
<1>8. ASSUME NEW k \in 1 .. n - 1, p(k)[1] = p(n)[1] PROVE c(k) < c(n)
  <2>1. k \in 1 .. N /\ n \in 1 .. N
    BY <1>1
  <2>2. c(k) \in Nat \ {0} /\ c(n) \in Nat \ {0}
    BY <1>4, <2>1
  <2> SUFFICES ASSUME c(n) <= c(k) PROVE FALSE
    BY <2>2
  <2>3. c(n) \in 1 .. c(k)
    BY <2>2
  <2>4. <<p(k)[1], c(n)>> \in DOMAIN f[n - 1]
    BY <1>6, <2>3
  <2> QED BY <1>3, <1>8, <2>4
<1>9. \A k \in 1 .. n : B(k) \subseteq DOMAIN f[n]
  BY <1>3, <1>6, <1>7
<1>10. ASSUME NEW x \in DOMAIN f[n] PROVE \E k \in 1 .. n : f[n][x] = p(k) /\ x \in B(k)
  <2>1. CASE x \in B(n)
    BY <1>1, <1>3, <2>1
  <2>2. CASE x \notin B(n)
    <3>1. x \in DOMAIN f[n - 1] /\ f[n][x] = f[n - 1][x]
      BY <1>3, <2>2
    <3>2. PICK k \in 1 .. n - 1 : f[n - 1][x] = p(k) /\ x \in B(k)
      BY <1>6, <3>1
    <3>3. k \in 1 .. n
      BY <1>1
    <3> QED BY <3>1, <3>2, <3>3
  <2> QED BY <2>1, <2>2
<1>11. ASSUME NEW k \in 1 .. n PROVE f[n][<<p(k)[1], c(k)>>] = p(k)
  <2>1. CASE k = n
    BY <1>3, <2>1
  <2>2. CASE k \in 1 .. n - 1
    <3>0. k \in 1 .. N /\ n \in 1 .. N
      BY <1>1
    <3>1. <<p(k)[1], c(k)>> \in DOMAIN f[n - 1]
      BY <1>4, <1>6, <2>2, <3>0
    <3>2. <<p(k)[1], c(k)>> \notin B(n)
      <4> SUFFICES ASSUME <<p(k)[1], c(k)>> \in B(n) PROVE FALSE
        OBVIOUS
      <4>1. p(n)[1] <= p(k)[1] /\ c(n) <= c(k)
        BY <1>3
      <4>2. p(k)[1] = p(n)[1]
        BY <1>2, <1>5, <2>2, <3>0, <4>1
      <4>3. c(k) < c(n)
        BY <1>8, <2>2, <4>2
      <4>4. c(k) \in Nat /\ c(n) \in Nat
        BY <1>4, <3>0
      <4> QED BY <4>1, <4>3, <4>4
    <3> QED BY <1>3, <1>6, <2>2, <3>1, <3>2
  <2> QED BY <1>7, <2>1, <2>2
<1>12. ASSUME NEW k \in 1 .. n, NEW d \in 1 .. c(k) PROVE <<p(k)[1], d>> \in DOMAIN f[n]
  <2>1. CASE k \in 1 .. n - 1
    BY <1>3, <1>6, <2>1
  <2>2. CASE k = n
    <3>1. n \in 1 .. N
      BY <1>1
    <3>3. c(n) \in Nat /\ d \in 1 .. c(n)
      BY <1>4, <2>2, <3>1
    <3>2. d = c(n) \/ d \in 1 .. c(n) - 1
      BY <3>3
    <3> QED BY <1>3, <2>2, <3>2
  <2> QED BY <1>7, <2>1, <2>2
<1>13. ASSUME NEW j \in 1 .. n, NEW k \in 1 .. n, j < k, p(j)[1] = p(k)[1] PROVE c(j) < c(k)
  <2>1. j \in 1 .. n - 1
    BY <1>1, <1>13
  <2> QED BY <1>6, <1>7, <1>8, <1>13, <2>1
<1> QED BY <1>9, <1>10, <1>11, <1>12, <1>13 DEF LaidOut, p, c, B

\* What a cell covers from its column on.
CellBlock(map, t, p) ==
    Block(p[1], CellColumn(map, p), CellAt(t, p).rowSpan, CellAt(t, p).colSpan)

\* Every cell is in the map, nowhere but in its block, and every block is covered;
\* the cells of a row stand in their order.
Laid(map, t) ==
    /\ IsMap(map, Places(t))
    /\ \A p \in Places(t) :
          /\ CellColumn(map, p) \in Nat \ {0}
          /\ <<p[1], CellColumn(map, p)>> \in DOMAIN map
          /\ map[<<p[1], CellColumn(map, p)>>] = p
          /\ CellBlock(map, t, p) \subseteq DOMAIN map
    /\ \A x \in DOMAIN map : x \in CellBlock(map, t, map[x])
    /\ \A p, q \in Places(t) : p[1] = q[1] /\ p[2] < q[2] => CellColumn(map, p) < CellColumn(map, q)

\* In the end all cells are laid out.
LEMMA LaidOutLast ==
    ASSUME NEW t \in Tables, NEW f, Mapping(f, t)
    PROVE  LaidOut(f, t, Cardinality(Places(t)))
<1> DEFINE N == Cardinality(Places(t))
           S == {n \in 0 .. N : LaidOut(f, t, n)}
<1>1. N \in Nat
  BY NthCellIs
<1>2. 0 \in S
  <2>1. DOMAIN f[0] = {}
    BY DEF Mapping
  <2>2. LaidOut(f, t, 0)
    BY <2>1 DEF LaidOut
  <2> QED BY <1>1, <2>2
<1>3. ASSUME NEW n \in 0 + 1 .. N, n - 1 \in S PROVE n \in S
  <2>1. n \in 1 .. N /\ LaidOut(f, t, n - 1)
    BY <1>1, <1>3
  <2>2. LaidOut(f, t, n)
    BY <2>1, LaidOutNext
  <2> QED BY <1>1, <2>1, <2>2
<1>4. \A n \in 0 .. N : n \in S
  <2> HIDE DEF S, N
  <2> QED BY <1>1, <1>2, <1>3, UpTo
<1> QED BY <1>1, <1>4

\* The map of any table: each cell has the block of its spans from its first column on, of which
\* later cells may take positions, but not the first one; the cells of a row come in their order.
THEOREM CreateTableMapLays ==
    ASSUME NEW t \in Tables
    PROVE  Laid(CreateTableMap(t), t)
<1> DEFINE P == Places(t)
           N == Cardinality(P)
<1>1. PICK f : Mapping(f, t)
  BY MappingExists
<1> DEFINE map == f[N]
           p(k) == NthCell(t, k)
           c(k) == NthColumn(f, t, k)
           B(k) == NthBlock(f, t, k)
<1>2. CreateTableMap(t) = map
  BY <1>1, MapIsLast
<1>3. N \in Nat
  BY NthCellIs
<1>4. IsMap(map, P)
  BY <1>1, <1>3, MapsAre DEF Mapping
<1>5. /\ \A k \in 1 .. N : B(k) \subseteq DOMAIN map
      /\ \A x \in DOMAIN map : \E k \in 1 .. N : map[x] = p(k) /\ x \in B(k)
      /\ \A k \in 1 .. N : map[<<p(k)[1], c(k)>>] = p(k)
      /\ \A j, k \in 1 .. N : j < k /\ p(j)[1] = p(k)[1] => c(j) < c(k)
  BY <1>1, LaidOutLast DEF LaidOut
<1>6. \A k \in 1 .. N : p(k) \in P /\ p(k) = <<p(k)[1], p(k)[2]>> /\ p(k)[1] \in Nat \ {0} /\ p(k)[2] \in Nat \ {0}
  BY NthCellIs
<1>7. /\ \A q \in P : \E k \in 1 .. N : p(k) = q
      /\ \A j, k \in 1 .. N : p(j) = p(k) => j = k
      /\ \A j, k \in 1 .. N : Precedes(p(j), p(k)) => j < k
  BY NthCellIs
<1>8. ASSUME NEW k \in 1 .. N
      PROVE  /\ c(k) \in Nat \ {0}
             /\ <<p(k)[1], c(k)>> \in B(k)
             /\ \A x \in B(k) : Within(x, p(k)[1], c(k), CellAt(t, p(k)).rowSpan, CellAt(t, p(k)).colSpan)
             /\ B(k) = Block(p(k)[1], c(k), CellAt(t, p(k)).rowSpan, CellAt(t, p(k)).colSpan)
  BY <1>1, StepIs DEF NthBlock
<1> HIDE DEF P, N, map, p, c, B
<1>9. ASSUME NEW k \in 1 .. N PROVE CellColumn(map, p(k)) = c(k)
  <2> DEFINE C == {x[2] : x \in {y \in Positions(map, {p(k)}) : y[1] = p(k)[1]}}
  <2>1. ASSUME NEW x \in Positions(map, {p(k)}) PROVE x[2] \in Nat /\ c(k) <= x[2]
    <3>1. x \in DOMAIN map /\ map[x] = p(k)
      BY DEF Positions
    <3>2. PICK j \in 1 .. N : map[x] = p(j) /\ x \in B(j)
      BY <1>5, <3>1
    <3>3. j = k
      BY <1>7, <3>1, <3>2
    <3>4. Within(x, p(k)[1], c(k), CellAt(t, p(k)).rowSpan, CellAt(t, p(k)).colSpan)
      BY <1>8, <3>2, <3>3
    <3> QED BY <3>4 DEF Within
  <2>2. c(k) \in C
    <3>1. <<p(k)[1], c(k)>> \in DOMAIN map /\ map[<<p(k)[1], c(k)>>] = p(k)
      BY <1>5, <1>8
    <3>2. <<p(k)[1], c(k)>> \in Positions(map, {p(k)})
      BY <3>1 DEF Positions
    <3> QED BY <3>2
  <2>3. C \in SUBSET Nat /\ \A d \in C : c(k) <= d
    BY <2>1
  <2>4. Min(C) \in C /\ \A d \in C : Min(C) <= d
    <3> HIDE DEF C
    <3> QED BY <2>2, <2>3, MinOf
  <2>5. Min(C) = c(k)
    <3> HIDE DEF C
    <3>1. Min(C) <= c(k) /\ c(k) <= Min(C) /\ Min(C) \in Nat /\ c(k) \in Nat
      BY <2>2, <2>3, <2>4
    <3> QED BY <3>1
  <2> QED BY <2>5 DEF CellColumn
<1>10. ASSUME NEW k \in 1 .. N PROVE CellBlock(map, t, p(k)) = B(k)
  BY <1>8, <1>9 DEF CellBlock
<1>11. ASSUME NEW q \in P
       PROVE  /\ CellColumn(map, q) \in Nat \ {0}
              /\ <<q[1], CellColumn(map, q)>> \in DOMAIN map
              /\ map[<<q[1], CellColumn(map, q)>>] = q
              /\ CellBlock(map, t, q) \subseteq DOMAIN map
  <2>1. PICK k \in 1 .. N : p(k) = q
    BY <1>7
  <2> QED BY <1>5, <1>8, <1>9, <1>10, <2>1
<1>12. ASSUME NEW x \in DOMAIN map PROVE x \in CellBlock(map, t, map[x])
  <2>1. PICK k \in 1 .. N : map[x] = p(k) /\ x \in B(k)
    BY <1>5
  <2> QED BY <1>10, <2>1
<1>13. ASSUME NEW q \in P, NEW r \in P, q[1] = r[1], q[2] < r[2]
       PROVE  CellColumn(map, q) < CellColumn(map, r)
  <2>1. PICK j \in 1 .. N : p(j) = q
    BY <1>7
  <2>2. PICK k \in 1 .. N : p(k) = r
    BY <1>7
  <2>3. Precedes(p(j), p(k))
    BY <1>13, <2>1, <2>2 DEF Precedes
  <2>4. j < k
    BY <1>7, <2>3
  <2> QED BY <1>5, <1>9, <1>13, <2>1, <2>2, <2>4
<1>14. Laid(map, t)
  BY <1>4, <1>11, <1>12, <1>13 DEF Laid, P
<1> QED BY <1>2, <1>14

----------------------------------------------------------------------------
(* Tables whose cells neither overlap nor leave holes before them          *)

Rect(t, col, p) == Block(p[1], col[p], CellAt(t, p).rowSpan, CellAt(t, p).colSpan)

\* col says in which columns the cells can stand.
Tiling(t, col) ==
    /\ col \in [Places(t) -> Nat \ {0}]
    /\ \A p, q \in Places(t) : p # q => Rect(t, col, p) \cap Rect(t, col, q) = {}
    /\ \A p \in Places(t) : \A d \in 1 .. col[p] - 1 :
          \E q \in Places(t) : <<p[1], d>> \in Rect(t, col, q)
    /\ \A p, q \in Places(t) : p[1] = q[1] /\ p[2] < q[2] => col[p] < col[q]

\* The positions of a cell by its column and its spans.
LEMMA RectIs ==
    ASSUME NEW t \in Tables, NEW col \in [Places(t) -> Nat \ {0}], NEW p \in Places(t)
    PROVE  /\ \A x : x \in Rect(t, col, p) <=>
                        Within(x, p[1], col[p], CellAt(t, p).rowSpan, CellAt(t, p).colSpan)
           /\ <<p[1], col[p]>> \in Rect(t, col, p)
           /\ IsFiniteSet(Rect(t, col, p))
           /\ Rect(t, col, p) \in SUBSET Position
           /\ Cardinality(Rect(t, col, p)) = CellAt(t, p).colSpan * CellAt(t, p).rowSpan
<1> DEFINE r == p[1]
           c == col[p]
           h == CellAt(t, p).rowSpan
           w == CellAt(t, p).colSpan
<1>1. r \in Nat \ {0} /\ c \in Nat \ {0} /\ h \in Nat \ {0} /\ w \in Nat \ {0}
  <2>1. p \in Position /\ CellAt(t, p) \in Cell
    BY PlacesOf
  <2> QED BY <2>1 DEF Cell, Position
<1>2. Rect(t, col, p) = Block(r, c, h, w)
  BY DEF Rect
<1> HIDE DEF r, c, h, w
<1>3. /\ Block(r, c, h, w) \in SUBSET Position
      /\ IsFiniteSet(Block(r, c, h, w))
      /\ Cardinality(Block(r, c, h, w)) = w * h
      /\ \A x : x \in Block(r, c, h, w) <=> Within(x, r, c, h, w)
  <2>1. h \in Nat /\ w \in Nat
    BY <1>1
  <2> QED BY <1>1, <2>1, BlockIs
<1>4. Within(<<r, c>>, r, c, h, w)
  BY <1>1 DEF Within
<1> QED BY <1>2, <1>3, <1>4 DEF r, c, h, w

\* Then CreateTableMap puts them there.
LEMMA TilingColumns ==
    ASSUME NEW t \in Tables, NEW col, Tiling(t, col), NEW f, Mapping(f, t),
           NEW n \in 1 .. Cardinality(Places(t)),
           \A k \in 1 .. n - 1 : NthColumn(f, t, k) = col[NthCell(t, k)],
           LaidOut(f, t, n - 1)
    PROVE  NthColumn(f, t, n) = col[NthCell(t, n)]
<1> DEFINE P == Places(t)
           N == Cardinality(P)
           p(k) == NthCell(t, k)
           c == NthColumn(f, t, n)
           e == col[p(n)]
           r == p(n)[1]
           R(q) == Rect(t, col, q)
<1>1. N \in Nat /\ n \in Nat \ {0} /\ n <= N
  BY NthCellIs
<1>2. c \in Nat \ {0} /\ <<r, c>> \notin DOMAIN f[n - 1] /\ \A d \in 1 .. c - 1 : <<r, d>> \in DOMAIN f[n - 1]
  BY StepIs
<1>3. /\ p(n) \in P /\ r \in Nat \ {0} /\ p(n)[2] \in Nat \ {0} /\ p(n) = <<p(n)[1], p(n)[2]>>
      /\ \A q \in P : \E k \in 1 .. N : p(k) = q
      /\ \A k \in 1 .. N : p(k) \in P
      /\ \A k \in 1 .. N : p(k) = p(n) => k = n
      /\ \A k \in 1 .. N : Precedes(p(k), p(n)) => k < n
  BY NthCellIs
<1>4. e \in Nat \ {0}
  BY <1>3 DEF Tiling
<1>5. \A k \in 1 .. n - 1 : NthBlock(f, t, k) = R(p(k))
  BY DEF NthBlock, Rect
<1>6. \A x : x \in DOMAIN f[n - 1] <=> \E k \in 1 .. n - 1 : x \in R(p(k))
  BY <1>5 DEF LaidOut
<1>7. /\ \A q \in P : \A x \in R(q) : Within(x, q[1], col[q], CellAt(t, q).rowSpan, CellAt(t, q).colSpan)
      /\ \A q \in P : <<q[1], col[q]>> \in R(q)
  BY RectIs DEF Tiling
<1>8. /\ \A q, s \in P : q # s => R(q) \cap R(s) = {}
      /\ \A d \in 1 .. e - 1 : \E q \in P : <<r, d>> \in R(q)
      /\ \A q, s \in P : q[1] = s[1] /\ q[2] < s[2] => col[q] < col[s]
      /\ \A q \in P : col[q] \in Nat
  BY <1>3 DEF Tiling
<1>9. \A q \in P : q = <<q[1], q[2]>> /\ q[1] \in Nat /\ q[2] \in Nat
  <2>1. P \in SUBSET Position
    BY PlacesOf
  <2> QED BY <2>1 DEF Position
<1> HIDE DEF P, N, p, c, e, r, R
<1>10. ASSUME c < e PROVE FALSE
  <2>1. c \in 1 .. e - 1
    BY <1>2, <1>4, <1>10
  <2>2. PICK q \in P : <<r, c>> \in R(q)
    BY <1>8, <2>1
  <2>3. q[1] <= r /\ col[q] <= c
    <3>1. Within(<<r, c>>, q[1], col[q], CellAt(t, q).rowSpan, CellAt(t, q).colSpan)
      BY <1>7, <2>2
    <3> QED BY <3>1 DEF Within
  <2>4. PICK k \in 1 .. N : p(k) = q
    BY <1>3
  <2>5. Precedes(p(k), p(n))
    <3>1. CASE q[1] < r
      BY <2>4, <3>1 DEF Precedes, r
    <3>2. CASE q[1] = r
      <4>1. ~ (p(n)[2] < q[2])
        <5>1. p(n)[1] = q[1]
          BY <3>2 DEF r
        <5>2. ~ (e < col[q])
          BY <1>2, <1>4, <1>8, <1>10, <2>3
        <5> QED BY <1>3, <1>8, <5>1, <5>2 DEF e
      <4>2. q[2] # p(n)[2]
        <5> SUFFICES ASSUME q[2] = p(n)[2] PROVE FALSE
          OBVIOUS
        <5>1. q = p(n)
          BY <1>3, <1>9, <3>2 DEF r
        <5>2. col[q] = e
          BY <5>1 DEF e
        <5> QED BY <1>2, <1>4, <1>10, <2>3, <5>2
      <4>3. q[2] < p(n)[2]
        BY <1>3, <1>9, <4>1, <4>2
      <4> QED BY <2>4, <3>2, <4>3 DEF Precedes, r
    <3>3. q[1] \in Nat /\ r \in Nat
      BY <1>3, <1>9
    <3> QED BY <2>3, <3>1, <3>2, <3>3
  <2>6. k < n
    BY <1>3, <2>5
  <2>7. k \in 1 .. n - 1
    BY <1>1, <2>6
  <2>8. <<r, c>> \in DOMAIN f[n - 1]
    BY <1>6, <2>2, <2>4, <2>7
  <2> QED BY <1>2, <2>8
<1>11. ASSUME e < c PROVE FALSE
  <2>1. e \in 1 .. c - 1
    BY <1>2, <1>4, <1>11
  <2>2. <<r, e>> \in DOMAIN f[n - 1]
    BY <1>2, <2>1
  <2>3. PICK k \in 1 .. n - 1 : <<r, e>> \in R(p(k))
    BY <1>6, <2>2
  <2>4. k \in 1 .. N /\ k # n
    BY <1>1
  <2>5. p(k) \in P /\ p(k) # p(n)
    BY <1>3, <2>4
  <2>6. <<r, e>> \in R(p(n))
    BY <1>3, <1>7 DEF r, e
  <2> QED BY <1>3, <1>8, <2>3, <2>5, <2>6
<1>12. c = e
  BY <1>2, <1>4, <1>10, <1>11
<1> QED BY <1>12 DEF c, e, p

\* _CreateTableMap finds the columns of any tiling.
LEMMA TilingIsMapped ==
    ASSUME NEW t \in Tables, NEW col, Tiling(t, col)
    PROVE  /\ \A p \in Places(t) : \A x \in Rect(t, col, p) :
                 x \in DOMAIN CreateTableMap(t) /\ CreateTableMap(t)[x] = p
           /\ \A x \in DOMAIN CreateTableMap(t) : x \in Rect(t, col, CreateTableMap(t)[x])
           /\ \A p \in Places(t) : CellColumn(CreateTableMap(t), p) = col[p]
<1> DEFINE P == Places(t)
           N == Cardinality(P)
           p(k) == NthCell(t, k)
           R(q) == Rect(t, col, q)
<1>1. PICK f : Mapping(f, t)
  BY MappingExists
<1>2. N \in Nat
  BY NthCellIs
<1>3. \A n \in 0 .. N : LaidOut(f, t, n)
  <2> DEFINE S == {n \in 0 .. N : LaidOut(f, t, n)}
  <2>1. 0 \in S
    <3>1. DOMAIN f[0] = {}
      BY <1>1 DEF Mapping
    <3>2. LaidOut(f, t, 0)
      BY <3>1 DEF LaidOut
    <3> QED BY <1>2, <3>2
  <2>2. ASSUME NEW n \in 0 + 1 .. N, n - 1 \in S PROVE n \in S
    <3>1. n \in 1 .. N /\ LaidOut(f, t, n - 1)
      BY <1>2, <2>2
    <3>2. LaidOut(f, t, n)
      BY <1>1, <3>1, LaidOutNext
    <3> QED BY <1>2, <3>1, <3>2
  <2>3. \A n \in 0 .. N : n \in S
    <3> HIDE DEF S, N
    <3> QED BY <1>2, <2>1, <2>2, UpTo
  <2> QED BY <2>3
<1>4. \A n \in 0 .. N : \A k \in 1 .. n : NthColumn(f, t, k) = col[p(k)]
  <2> DEFINE S == {n \in 0 .. N : \A k \in 1 .. n : NthColumn(f, t, k) = col[p(k)]}
  <2>1. 0 \in S
    BY <1>2
  <2>2. ASSUME NEW n \in 0 + 1 .. N, n - 1 \in S PROVE n \in S
    <3>1. n \in 1 .. N /\ n - 1 \in 0 .. N /\ \A k \in 1 .. n - 1 : NthColumn(f, t, k) = col[p(k)]
      BY <1>2, <2>2
    <3>2. NthColumn(f, t, n) = col[p(n)]
      BY <1>1, <1>3, <3>1, TilingColumns
    <3>3. \A k \in 1 .. n : k = n \/ k \in 1 .. n - 1
      BY <3>1
    <3>4. \A k \in 1 .. n : NthColumn(f, t, k) = col[p(k)]
      BY <3>1, <3>2, <3>3
    <3> QED BY <1>2, <3>1, <3>4
  <2>3. \A n \in 0 .. N : n \in S
    <3> HIDE DEF S, N
    <3> QED BY <1>2, <2>1, <2>2, UpTo
  <2> QED BY <2>3
<1>5. \A k \in 1 .. N : NthBlock(f, t, k) = R(p(k))
  BY <1>2, <1>4 DEF NthBlock, Rect
<1>6. CreateTableMap(t) = f[N]
  BY <1>1, MapIsLast
<1> DEFINE map == f[N]
<1>7. /\ \A k \in 1 .. N : R(p(k)) \subseteq DOMAIN map
      /\ \A x \in DOMAIN map : \E k \in 1 .. N : map[x] = p(k) /\ x \in R(p(k))
  BY <1>2, <1>3, <1>5 DEF LaidOut
<1>8. /\ \A q \in P : \E k \in 1 .. N : p(k) = q
      /\ \A k \in 1 .. N : p(k) \in P
  BY NthCellIs
<1>9. \A q, s \in P : q # s => R(q) \cap R(s) = {}
  BY DEF Tiling
<1> HIDE DEF map, P, N, p, R
<1>10. \A x \in DOMAIN map : x \in R(map[x]) /\ map[x] \in P
  BY <1>7, <1>8
<1>11. ASSUME NEW q \in P, NEW x \in R(q) PROVE x \in DOMAIN map /\ map[x] = q
  <2>1. x \in DOMAIN map
    BY <1>7, <1>8
  <2> QED BY <1>9, <1>10, <2>1
<1>12. ASSUME NEW q \in P PROVE CellColumn(map, q) = col[q]
  <2>1. <<q[1], col[q]>> \in R(q)
    BY RectIs DEF Tiling, P, R
  <2>2. Laid(map, t)
    BY <1>6, CreateTableMapLays DEF map, N, P
  <2>3. /\ CellColumn(map, q) \in Nat
        /\ <<q[1], CellColumn(map, q)>> \in DOMAIN map
        /\ map[<<q[1], CellColumn(map, q)>>] = q
    BY <2>2 DEF Laid, P
  <2>4. <<q[1], CellColumn(map, q)>> \in R(q)
    BY <1>10, <2>3
  <2>5. col[q] <= CellColumn(map, q)
    <3>1. Within(<<q[1], CellColumn(map, q)>>, q[1], col[q], CellAt(t, q).rowSpan, CellAt(t, q).colSpan)
      BY <2>4, RectIs DEF Tiling, P, R
    <3> QED BY <3>1 DEF Within
  <2>6. <<q[1], col[q]>> \in DOMAIN map /\ map[<<q[1], col[q]>>] = q
    BY <1>11, <2>1
  <2>7. <<q[1], col[q]>> \in CellBlock(map, t, q)
    BY <2>2, <2>6 DEF Laid
  <2>8. CellColumn(map, q) <= col[q]
    <3> DEFINE e == [s \in P |-> CellColumn(map, s)]
    <3>1. e \in [Places(t) -> Nat \ {0}]
      BY <2>2 DEF Laid, P
    <3>2. <<q[1], col[q]>> \in Rect(t, e, q)
      BY <2>7 DEF CellBlock, Rect, P
    <3> HIDE DEF e
    <3>3. Within(<<q[1], col[q]>>, q[1], e[q], CellAt(t, q).rowSpan, CellAt(t, q).colSpan)
      BY <3>1, <3>2, RectIs DEF P
    <3>4. e[q] <= col[q]
      BY <3>3 DEF Within
    <3> QED BY <3>4 DEF e
  <2>9. col[q] \in Nat
    BY DEF Tiling, P
  <2> QED BY <2>3, <2>5, <2>8, <2>9
<1> QED BY <1>6, <1>10, <1>11, <1>12 DEF map, P, N, R

----------------------------------------------------------------------------
(* Runs of positions                                                       *)

At(x, l, dr, dc) == <<x[1] + l * dr, x[2] + l * dc>>
Directions == {<<0, 1>>, <<0, -1>>, <<1, 0>>, <<-1, 0>>}

\* A run goes up to the first position that is not marked.
RunOf(n, M, x, dr, dc) ==
    /\ n \in Nat
    /\ \A l \in 0 .. n - 1 : At(x, l, dr, dc) \in M
    /\ At(x, n, dr, dc) \notin M

\* The positions of a run differ.
LEMMA AtIsInjective ==
    ASSUME NEW x \in Int \X Int, NEW dr, NEW dc, <<dr, dc>> \in Directions,
           NEW l \in Nat, NEW m \in Nat, At(x, l, dr, dc) = At(x, m, dr, dc)
    PROVE  l = m
<1>1. x[1] \in Int /\ x[2] \in Int
  OBVIOUS
<1>2. \/ dr = 0 /\ dc = 1
      \/ dr = 0 /\ dc = -1
      \/ dr = 1 /\ dc = 0
      \/ dr = -1 /\ dc = 0
  BY DEF Directions
<1>3. x[1] + l * dr = x[1] + m * dr /\ x[2] + l * dc = x[2] + m * dc
  BY DEF At
<1> QED BY <1>1, <1>2, <1>3

\* RunLength counts a run up to its end.
LEMMA RunLengthIs ==
    ASSUME NEW M, IsFiniteSet(M), NEW x \in Int \X Int, NEW dr, NEW dc, <<dr, dc>> \in Directions
    PROVE  RunOf(RunLength(M, x, dr, dc), M, x, dr, dc)
<1> DEFINE N == Cardinality(M)
           A(l) == At(x, l, dr, dc)
           F == {n \in 0 .. N : A(n) \notin M}
<1>1. N \in Nat
  BY FS_CardinalityType
<1>2. F # {}
  <2> SUFFICES ASSUME F = {} PROVE FALSE
    OBVIOUS
  <2> DEFINE f == [n \in 0 .. N |-> A(n)]
  <2>1. \A l, m \in 0 .. N : A(l) = A(m) => l = m
    <3> HIDE DEF N
    <3> QED BY <1>1, AtIsInjective
  <2>2. f \in Injection(0 .. N, M)
    <3> HIDE DEF A
    <3> QED BY <2>1 DEF Injection, IsInjective
  <2>3. IsFiniteSet(0 .. N) /\ Cardinality(0 .. N) = N + 1
    <3>1. 0 \in Int /\ N \in Int
      BY <1>1
    <3> HIDE DEF N
    <3> QED BY <1>1, <3>1, FS_Interval
  <2>4. Cardinality(0 .. N) <= N
    <3> HIDE DEF f
    <3> QED BY <2>2, FS_Injection
  <2> QED BY <1>1, <2>3, <2>4
<1>3. PICK n \in F : \A m \in F : n <= m
  <2>1. F \in SUBSET Nat
    BY <1>1
  <2> HIDE DEF F
  <2> QED BY <1>2, <2>1, LeastNumber
<1>4. n \in 0 .. N /\ A(n) \notin M /\ \A l \in 0 .. n - 1 : A(l) \in M
  BY <1>1, <1>3
<1> HIDE DEF A
<1>5. {k \in 1 .. N : \A l \in 0 .. k - 1 : A(l) \in M} = 1 .. n
  <2> HIDE DEF N, F
  <2>1. ASSUME NEW k \in 1 .. N, \A l \in 0 .. k - 1 : A(l) \in M PROVE k \in 1 .. n
    <3> SUFFICES ASSUME n < k PROVE FALSE
      BY <1>1, <1>4
    <3>1. n \in 0 .. k - 1
      BY <1>1, <1>4
    <3> QED BY <1>4, <2>1, <3>1
  <2>2. ASSUME NEW k \in 1 .. n PROVE k \in 1 .. N /\ \A l \in 0 .. k - 1 : A(l) \in M
    <3>1. k \in 1 .. N
      BY <1>1, <1>4
    <3>2. \A l \in 0 .. k - 1 : l \in 0 .. n - 1
      BY <1>1, <1>4
    <3> QED BY <1>4, <3>1, <3>2
  <2> QED BY <2>1, <2>2
<1>6. Cardinality(1 .. n) = n
  <2>1. 1 \in Int /\ n \in Int /\ n \in Nat
    BY <1>1, <1>4
  <2> QED BY <2>1, FS_Interval
<1>7. RunLength(M, x, dr, dc) = n
  BY <1>5, <1>6 DEF RunLength, A, At
<1> QED BY <1>1, <1>4, <1>7 DEF RunOf, A

\* What counts a run up to its end is RunLength.
LEMMA RunIsUnique ==
    ASSUME NEW M, IsFiniteSet(M), NEW x \in Int \X Int, NEW dr, NEW dc, <<dr, dc>> \in Directions,
           NEW n, RunOf(n, M, x, dr, dc)
    PROVE  RunLength(M, x, dr, dc) = n
<1> DEFINE m == RunLength(M, x, dr, dc)
<1>1. RunOf(m, M, x, dr, dc)
  BY RunLengthIs
<1> HIDE DEF m
<1>2. m \in Nat /\ n \in Nat
  BY <1>1 DEF RunOf
<1>3. ~ (m < n)
  <2>1. m < n => m \in 0 .. n - 1
    BY <1>2
  <2> QED BY <1>1, <2>1 DEF RunOf
<1>4. ~ (n < m)
  <2>1. n < m => n \in 0 .. m - 1
    BY <1>2
  <2> QED BY <1>1, <2>1 DEF RunOf
<1>5. m = n
  BY <1>2, <1>3, <1>4
<1> QED BY <1>5 DEF m

\* A run that begins with a marked position is not empty.
LEMMA RunIsPositive ==
    ASSUME NEW M, IsFiniteSet(M), NEW x \in M, x \in Int \X Int,
           NEW dr, NEW dc, <<dr, dc>> \in Directions
    PROVE  RunLength(M, x, dr, dc) \in Nat \ {0}
<1> DEFINE m == RunLength(M, x, dr, dc)
<1>1. RunOf(m, M, x, dr, dc)
  BY RunLengthIs
<1> HIDE DEF m
<1>2. dr \in Int /\ dc \in Int
  BY DEF Directions
<1>3. At(x, 0, dr, dc) = x
  BY <1>2 DEF At
<1>4. m \in Nat \ {0}
  BY <1>1, <1>3 DEF RunOf
<1> QED BY <1>4 DEF m

\* The columns that a loop comes to.
LoopColumns(C, last, width) ==
    /\ C \in SUBSET (Nat \ {0})
    /\ 1 \in C
    /\ \A c \in C : c <= last => c + width[c] \in C
    /\ \A c \in C : c # 1 => \E d \in C : d <= last /\ c = d + width[d]

\* The columns at which the scan of a row stops, each behind the cell at the one before.
LEMMA ColumnsAre ==
    ASSUME NEW last \in Nat, NEW width \in [1 .. last -> Nat \ {0}]
    PROVE  LoopColumns(Columns(last, width), last, width)
<1> DEFINE D == SUBSET Nat
           Next1(c, S) == S \cup (IF c \in S THEN {c + width[c]} ELSE {})
           step == [c \in 1 .. last |-> [S \in D |-> Next1(c, S)]]
           Recursive(f) == f = [c \in 0 .. last |-> IF c = 0 THEN {1}
                                    ELSE f[c - 1] \cup (IF c \in f[c - 1] THEN {c + width[c]} ELSE {})]
<1>1. ASSUME NEW c \in 1 .. last, NEW S \in D PROVE Next1(c, S) \in D
  <2>1. c + width[c] \in Nat
    OBVIOUS
  <2> QED BY <2>1
<1>2. {1} \in D
  OBVIOUS
<1>3. PICK f : Solves(f, last, D, {1}, step)
  <2> HIDE DEF Next1, D
  <2>1. step \in [1 .. last -> [D -> D]]
    BY <1>1
  <2> HIDE DEF step
  <2> QED BY <1>2, <2>1, RecursionHasSolution
<1>4. f[0] = {1} /\ f \in [0 .. last -> D]
  BY <1>3 DEF Solves
<1>5. ASSUME NEW c \in 1 .. last
      PROVE  f[c] = f[c - 1] \cup (IF c \in f[c - 1] THEN {c + width[c]} ELSE {})
  <2>1. c - 1 \in 0 .. last
    OBVIOUS
  <2>2. f[c - 1] \in D /\ f[c] = step[c][f[c - 1]]
    BY <1>3, <2>1 DEF Solves
  <2> HIDE DEF D
  <2> QED BY <2>2
<1> HIDE DEF D, step
<1>6. Recursive(f)
  BY <1>4, <1>5
<1>7. ASSUME NEW g, Recursive(g) PROVE g = f
  <2> DEFINE S == {c \in 0 .. last : g[c] = f[c]}
  <2>1. 0 \in S
    BY <1>4, <1>7
  <2>2. ASSUME NEW c \in 0 + 1 .. last, c - 1 \in S PROVE c \in S
    <3>1. c \in 1 .. last /\ c \in 0 .. last /\ c # 0
      OBVIOUS
    <3>2. g[c] = g[c - 1] \cup (IF c \in g[c - 1] THEN {c + width[c]} ELSE {})
      BY <1>7, <3>1
    <3> QED BY <1>5, <2>2, <3>1, <3>2
  <2>3. \A c \in 0 .. last : c \in S
    <3> HIDE DEF S
    <3> QED BY <2>1, <2>2, UpTo
  <2>4. \A c \in 0 .. last : g[c] = f[c]
    BY <2>3
  <2> QED BY <1>4, <1>7, <2>4
<1>8. Columns(last, width) = (CHOOSE g : Recursive(g))[last]
  BY DEF Columns
<1>9. Columns(last, width) = f[last]
  <2> HIDE DEF Recursive
  <2>1. Recursive(CHOOSE g : Recursive(g))
    BY <1>6
  <2> QED BY <1>7, <1>8, <2>1
<1> DEFINE S == {n \in 0 .. last : LoopColumns(f[n], n, width)}
<1>10. 0 \in S
  BY <1>4 DEF LoopColumns
<1>11. ASSUME NEW n \in 0 + 1 .. last, n - 1 \in S PROVE n \in S
  <2>1. n \in 1 .. last /\ n \in Nat \ {0} /\ LoopColumns(f[n - 1], n - 1, width)
    BY <1>11
  <2> DEFINE B == f[n - 1]
  <2>2. /\ B \in SUBSET (Nat \ {0}) /\ 1 \in B
        /\ \A c \in B : c <= n - 1 => c + width[c] \in B
        /\ \A c \in B : c # 1 => \E d \in B : d <= n - 1 /\ c = d + width[d]
    BY <2>1 DEF LoopColumns
  <2>3. f[n] = B \cup (IF n \in B THEN {n + width[n]} ELSE {})
    BY <1>5, <2>1
  <2>4. width[n] \in Nat \ {0}
    BY <2>1
  <2> HIDE DEF B
  <2>5. CASE n \in B
    <3> DEFINE e == n + width[n]
    <3>1. e \in Nat \ {0} /\ n < e
      BY <2>1, <2>4
    <3>2. f[n] = B \cup {e}
      BY <2>3, <2>5
    <3>3. ASSUME NEW c \in f[n], c <= n PROVE c + width[c] \in f[n]
      <4>1. c \in B
        BY <2>1, <3>1, <3>2, <3>3
      <4>2. CASE c = n
        BY <3>2, <4>2
      <4>3. CASE c <= n - 1
        BY <2>2, <3>2, <4>1, <4>3
      <4> QED BY <2>1, <2>2, <3>3, <4>1, <4>2, <4>3
    <3>4. ASSUME NEW c \in f[n], c # 1 PROVE \E d \in f[n] : d <= n /\ c = d + width[d]
      <4>1. CASE c = e
        <5>1. n \in f[n] /\ n <= n /\ c = n + width[n]
          BY <2>1, <2>5, <3>2, <4>1
        <5> QED BY <5>1
      <4>2. CASE c \in B
        <5>1. PICK d \in B : d <= n - 1 /\ c = d + width[d]
          BY <2>2, <3>4, <4>2
        <5>2. d <= n
          BY <2>1, <2>2, <5>1
        <5> QED BY <3>2, <5>1, <5>2
      <4> QED BY <3>2, <4>1, <4>2
    <3>5. f[n] \in SUBSET (Nat \ {0}) /\ 1 \in f[n]
      BY <2>2, <3>1, <3>2
    <3>6. LoopColumns(f[n], n, width)
      BY <3>3, <3>4, <3>5 DEF LoopColumns
    <3> QED BY <2>1, <3>6
  <2>6. CASE n \notin B
    <3>1. f[n] = B
      BY <2>3, <2>6
    <3>2. ASSUME NEW c \in B, c <= n PROVE c <= n - 1
      BY <2>1, <2>2, <2>6, <3>2
    <3>3. ASSUME NEW d \in B, d <= n - 1 PROVE d <= n
      BY <2>1, <2>2, <3>3
    <3>4. LoopColumns(B, n, width)
      BY <2>2, <3>2, <3>3 DEF LoopColumns
    <3> QED BY <2>1, <3>1, <3>4
  <2> QED BY <2>5, <2>6
<1>12. \A n \in 0 .. last : n \in S
  <2> HIDE DEF S
  <2> QED BY <1>10, <1>11, UpTo
<1> QED BY <1>9, <1>12

----------------------------------------------------------------------------
(* What InstallTableMap makes                                              *)

\* The last column of a row, if it has one; without holes all before it are there.
LEMMA RowEndIs ==
    ASSUME NEW P, NEW map, IsMap(map, P), NEW r
    PROVE  /\ RowEnd(map, r) \in Nat
           /\ \A c : <<r, c>> \in DOMAIN map => c \in 1 .. RowEnd(map, r)
           /\ RowEnd(map, r) # 0 => <<r, RowEnd(map, r)>> \in DOMAIN map
           /\ ~HasHole(map) => \A c \in 1 .. RowEnd(map, r) : <<r, c>> \in DOMAIN map
<1> DEFINE Y == {y \in DOMAIN map : y[1] = r}
           C == {x[2] : x \in Y}
           E == {0} \cup C
<1>1. IsFiniteSet(Y)
  BY FS_Subset DEF IsMap
<1>2. \A y \in Y : y = <<r, y[2]>> /\ y[2] \in Nat \ {0}
  BY DEF IsMap, Position
<1>3. IsFiniteSet(C)
  <2> DEFINE f == [y \in Y |-> y[2]]
  <2>1. C = {f[y] : y \in Y}
    OBVIOUS
  <2> HIDE DEF f, C, Y
  <2> QED BY <1>1, <2>1, FiniteImage
<1>4. E \in SUBSET Nat /\ E # {}
  BY <1>2
<1>5. IsFiniteSet(E)
  <2>1. E = C \cup {0}
    OBVIOUS
  <2> HIDE DEF C, E
  <2> QED BY <1>3, <2>1, FS_AddElement
<1>6. Max(E) \in E /\ \A c \in E : c <= Max(E)
  <2> HIDE DEF E
  <2> QED BY <1>4, <1>5, MaxOf
<1>7. RowEnd(map, r) = Max(E)
  BY DEF RowEnd
<1>8. ASSUME NEW c, <<r, c>> \in DOMAIN map PROVE c \in 1 .. Max(E)
  <2>1. <<r, c>> \in Y /\ <<r, c>>[2] = c
    BY <1>8
  <2>2. c \in C /\ c \in Nat \ {0}
    BY <1>2, <2>1
  <2>3. c <= Max(E) /\ Max(E) \in Nat
    BY <1>4, <1>6, <2>2
  <2> QED BY <2>2, <2>3
<1>9. ASSUME Max(E) # 0 PROVE <<r, Max(E)>> \in DOMAIN map
  <2>1. PICK y \in Y : Max(E) = y[2]
    BY <1>6, <1>9
  <2> QED BY <1>2, <2>1
<1> DEFINE e == Max(E)
<1>10. e \in Nat
  BY <1>4, <1>6
<1> HIDE DEF e
<1>11. ASSUME ~HasHole(map), NEW c \in 1 .. e PROVE <<r, c>> \in DOMAIN map
  <2>1. <<r, e>> \in DOMAIN map
    BY <1>9, <1>10 DEF e
  <2> QED BY <1>11, <2>1 DEF HasHole
<1> QED BY <1>7, <1>8, <1>9, <1>10, <1>11 DEF e

\* The positions of some cells.
LEMMA PositionsAre ==
    ASSUME NEW P, NEW map, IsMap(map, P), NEW S
    PROVE  /\ IsFiniteSet(Positions(map, S))
           /\ Positions(map, S) \in SUBSET Position
           /\ \A x : x \in Positions(map, S) <=> x \in DOMAIN map /\ map[x] \in S
BY FS_Subset DEF Positions, IsMap

\* The cells of a map have spans.
LEMMA SpansAre ==
    ASSUME NEW P, NEW map, IsMap(map, P), NEW p, NEW y \in DOMAIN map, map[y] = p
    PROVE  ColSpan(map, p) \in Nat \ {0} /\ RowSpan(map, p) \in Nat \ {0}
<1> DEFINE M == Positions(map, {p})
<1>1. IsFiniteSet(M) /\ M \in SUBSET Position /\ y \in M
  BY PositionsAre
<1>2. \A x \in M : x = <<x[1], x[2]>> /\ x[1] \in Nat /\ x[2] \in Nat /\ x \in Int \X Int
  BY <1>1 DEF Position
<1> HIDE DEF M
<1>3. ColSpan(map, p) \in Nat \ {0}
  <2> DEFINE R == {x[1] : x \in M}
             r == Min(R)
             Y == {x \in M : x[1] = r}
             C == {x[2] : x \in Y}
             c == Min(C)
  <2>1. R \in SUBSET Nat /\ R # {}
    BY <1>1, <1>2
  <2>2. r \in R
    <3> HIDE DEF R
    <3> QED BY <2>1, MinOf
  <2> HIDE DEF r
  <2>3. C \in SUBSET Nat /\ C # {}
    BY <1>2, <2>2
  <2>4. c \in C
    <3> HIDE DEF C
    <3> QED BY <2>3, MinOf
  <2> HIDE DEF c
  <2>5. <<r, c>> \in M
    BY <1>2, <2>4
  <2>6. RunLength(M, <<r, c>>, 0, 1) \in Nat \ {0}
    <3>1. <<0, 1>> \in Directions
      BY DEF Directions
    <3>2. <<r, c>> \in Int \X Int
      BY <1>2, <2>5
    <3> QED BY <1>1, <2>5, <3>1, <3>2, RunIsPositive
  <2> QED BY <2>6 DEF ColSpan, M, r, c
<1>4. RowSpan(map, p) \in Nat \ {0}
  <2> DEFINE C == {x[2] : x \in M}
             c == Min(C)
             Y == {x \in M : x[2] = c}
             R == {x[1] : x \in Y}
             r == Min(R)
  <2>1. C \in SUBSET Nat /\ C # {}
    BY <1>1, <1>2
  <2>2. c \in C
    <3> HIDE DEF C
    <3> QED BY <2>1, MinOf
  <2> HIDE DEF c
  <2>3. R \in SUBSET Nat /\ R # {}
    BY <1>2, <2>2
  <2>4. r \in R
    <3> HIDE DEF R
    <3> QED BY <2>3, MinOf
  <2> HIDE DEF r
  <2>5. <<r, c>> \in M
    BY <1>2, <2>4
  <2>6. RunLength(M, <<r, c>>, 1, 0) \in Nat \ {0}
    <3>1. <<1, 0>> \in Directions
      BY DEF Directions
    <3>2. <<r, c>> \in Int \X Int
      BY <1>2, <2>5
    <3> QED BY <1>1, <2>5, <3>1, <3>2, RunIsPositive
  <2> QED BY <2>6 DEF RowSpan, M, r, c
<1> QED BY <1>3, <1>4

WidthsIn(map, r) == [c \in 1 .. RowEnd(map, r) |-> ColSpan(map, map[<<r, c>>])]
VisitedIn(map, r) == Columns(RowEnd(map, r), WidthsIn(map, r))

\* Cells are appended in columns that the loop comes to, if they are not in the row above.
LEMMA AppendedAre ==
    ASSUME NEW P, NEW map, IsMap(map, P), ~HasHole(map), NEW r
    PROVE  /\ RowEnd(map, r) \in Nat
           /\ \A c \in 1 .. RowEnd(map, r) : <<r, c>> \in DOMAIN map
           /\ LoopColumns(VisitedIn(map, r), RowEnd(map, r), WidthsIn(map, r))
           /\ \A c : c \in AppendedColumns(map, r) <=>
                /\ c \in VisitedIn(map, r)
                /\ c \in 1 .. RowEnd(map, r)
                /\ ~ (<<r - 1, c>> \in DOMAIN map /\ map[<<r - 1, c>>] = map[<<r, c>>])
<1>1. RowEnd(map, r) \in Nat /\ \A c \in 1 .. RowEnd(map, r) : <<r, c>> \in DOMAIN map
  BY RowEndIs
<1> DEFINE e == RowEnd(map, r)
<1>2. WidthsIn(map, r) \in [1 .. e -> Nat \ {0}]
  <2>1. \A c \in 1 .. e : ColSpan(map, map[<<r, c>>]) \in Nat \ {0}
    BY <1>1, SpansAre
  <2> QED BY <2>1 DEF WidthsIn
<1>3. LoopColumns(VisitedIn(map, r), e, WidthsIn(map, r))
  <2> HIDE DEF e
  <2> QED BY <1>1, <1>2, ColumnsAre DEF VisitedIn, e
<1>4. VisitedIn(map, r) \in SUBSET (Nat \ {0})
  BY <1>3 DEF LoopColumns
<1>5. AppendedColumns(map, r) = {c \in VisitedIn(map, r) :
            /\ c <= e
            /\ ~ (<<r - 1, c>> \in DOMAIN map /\ map[<<r - 1, c>>] = map[<<r, c>>])}
  BY DEF AppendedColumns, VisitedIn, WidthsIn
<1>6. ASSUME NEW c \in VisitedIn(map, r) PROVE c <= e <=> c \in 1 .. e
  BY <1>1, <1>4
<1> QED BY <1>1, <1>3, <1>5, <1>6

\* Where a cell is appended, and where it stays.
AppendedAt(map, n) == UNION {{r} \X AppendedColumns(map, r) : r \in 1 .. n}
Stays(map, n) ==
    {x \in AppendedAt(map, n) : \A y \in AppendedAt(map, n) : Precedes(x, y) => map[x] # map[y]}

\* The positions at which _InstallTableMap appends a cell are of the map, and finitely many.
LEMMA AppendedPositions ==
    ASSUME NEW P, NEW map, IsMap(map, P), ~HasHole(map), NEW n \in Nat
    PROVE  /\ AppendedAt(map, n) \in SUBSET DOMAIN map
           /\ IsFiniteSet(AppendedAt(map, n))
           /\ \A x : x \in AppendedAt(map, n) <=> /\ x = <<x[1], x[2]>>
                                                  /\ x[1] \in 1 .. n
                                                  /\ x[2] \in AppendedColumns(map, x[1])
<1>1. \A x : x \in AppendedAt(map, n) <=> /\ x = <<x[1], x[2]>>
                                          /\ x[1] \in 1 .. n
                                          /\ x[2] \in AppendedColumns(map, x[1])
  BY DEF AppendedAt
<1>2. ASSUME NEW x \in AppendedAt(map, n) PROVE x \in DOMAIN map
  <2>1. x = <<x[1], x[2]>> /\ x[2] \in AppendedColumns(map, x[1])
    BY <1>1
  <2>2. x[2] \in 1 .. RowEnd(map, x[1])
    BY <2>1, AppendedAre
  <2>3. <<x[1], x[2]>> \in DOMAIN map
    BY <2>2, AppendedAre
  <2> QED BY <2>1, <2>3
<1>3. AppendedAt(map, n) \in SUBSET DOMAIN map
  BY <1>2
<1>4. IsFiniteSet(AppendedAt(map, n))
  BY <1>3, FS_Subset DEF IsMap
<1> QED BY <1>1, <1>3, <1>4

\* A cell that is appended stays at the last of the positions, and only there.
LEMMA StaysOnce ==
    ASSUME NEW P, NEW map, IsMap(map, P), ~HasHole(map), NEW n \in Nat
    PROVE  /\ \A x \in AppendedAt(map, n) : \E y \in Stays(map, n) : map[y] = map[x]
           /\ \A x, y \in Stays(map, n) : map[x] = map[y] => x = y
           /\ Stays(map, n) \in SUBSET AppendedAt(map, n)
<1> DEFINE A == AppendedAt(map, n)
<1>1. A \in SUBSET (Int \X Int) /\ IsFiniteSet(A)
  BY AppendedPositions DEF IsMap, Position
<1>2. Stays(map, n) = {x \in A : \A y \in A : Precedes(x, y) => map[x] # map[y]}
  BY DEF Stays
<1> HIDE DEF A
<1>3. ASSUME NEW x \in A PROVE \E y \in Stays(map, n) : map[y] = map[x]
  <2> DEFINE S == {y \in A : map[y] = map[x]}
             N == Cardinality(S)
             s == InOrder(S)
  <2>1. S \in SUBSET (Int \X Int) /\ IsFiniteSet(S) /\ x \in S
    BY <1>1, FS_Subset
  <2>2. N \in Nat /\ Lists(s, S)
    <3> HIDE DEF S
    <3> QED BY <2>1, InOrderLists
  <2> HIDE DEF s, N
  <2>3. /\ \A k \in 1 .. N : s[k] \in S
        /\ \A y \in S : \E k \in 1 .. N : s[k] = y
        /\ \A i, j \in 1 .. N : i < j => Precedes(s[i], s[j])
    BY <2>2 DEF Lists, N
  <2>4. N \in 1 .. N
    BY <2>1, <2>2, <2>3
  <2>5. s[N] \in A /\ map[s[N]] = map[x]
    BY <2>3, <2>4
  <2>6. ASSUME NEW y \in A, Precedes(s[N], y), map[s[N]] = map[y] PROVE FALSE
    <3>1. y \in S
      BY <2>5, <2>6
    <3>2. PICK k \in 1 .. N : s[k] = y
      BY <2>3, <3>1
    <3>3. k = N \/ k < N
      BY <2>2
    <3>4. y = s[N] \/ Precedes(y, s[N])
      BY <2>3, <2>4, <3>2, <3>3
    <3> QED BY <1>1, <2>5, <2>6, <3>4, PrecedesOrders
  <2>7. s[N] \in Stays(map, n)
    BY <1>2, <2>5, <2>6
  <2> QED BY <2>5, <2>7
<1>4. ASSUME NEW x \in Stays(map, n), NEW y \in Stays(map, n), map[x] = map[y] PROVE x = y
  <2>1. x \in A /\ y \in A /\ ~ Precedes(x, y) /\ ~ Precedes(y, x)
    BY <1>2, <1>4
  <2> QED BY <1>1, <2>1, PrecedesOrders
<1> QED BY <1>2, <1>3, <1>4 DEF A

InstalledCell(map, text, p) == TableCell(ColSpan(map, p), RowSpan(map, p), text[p])

\* T is the table that is installed, and at says which position each of its cells is from.
Installed(T, map, n, text, at) ==
    /\ T \in Tables
    /\ Len(T) = n
    /\ at \in [Places(T) -> Stays(map, n)]
    /\ \A p \in Places(T) : at[p][1] = p[1] /\ CellAt(T, p) = InstalledCell(map, text, map[at[p]])
    /\ \A x \in Stays(map, n) : \E p \in Places(T) : at[p] = x
    /\ \A p, q \in Places(T) : at[p] = at[q] => p = q
    /\ \A p, q \in Places(T) : p[1] = q[1] /\ p[2] < q[2] => at[p][2] < at[q][2]

\* _InstallTableMap makes a table of any map without holes: one cell for each position where the
\* scan of a row stops and the cell was not met before.
LEMMA InstallIs ==
    ASSUME NEW P, NEW map, IsMap(map, P), ~HasHole(map), NEW n \in Nat,
           NEW text, \A x \in DOMAIN map : text[map[x]] \in SUBSET Place
    PROVE  \E at : Installed(InstallTableMap(map, n, text), map, n, text, at)
<1> DEFINE T == InstallTableMap(map, n, text)
           Z == Stays(map, n)
           In(r) == {x \in Z : x[1] = r}
           s(r) == InOrder(In(r))
           C(x) == InstalledCell(map, text, map[x])
<1>1. Z \in SUBSET DOMAIN map /\ IsFiniteSet(Z)
  <2>1. Z \in SUBSET AppendedAt(map, n)
    BY DEF Stays
  <2> HIDE DEF Z
  <2> QED BY <2>1, AppendedPositions, FS_Subset
<1>2. \A x \in Z : x = <<x[1], x[2]>> /\ x[1] \in 1 .. n /\ x[2] \in Nat
  <2>1. \A x \in Z : x[1] \in 1 .. n
    BY AppendedPositions DEF Stays
  <2>2. \A x \in Z : x \in Position
    BY <1>1 DEF IsMap
  <2> HIDE DEF Z
  <2> QED BY <2>1, <2>2 DEF Position
<1>3. ASSUME NEW x \in Z PROVE C(x) \in Cell
  <2>1. x \in DOMAIN map
    BY <1>1
  <2>2. ColSpan(map, map[x]) \in Nat \ {0} /\ RowSpan(map, map[x]) \in Nat \ {0}
    BY <2>1, SpansAre
  <2>3. text[map[x]] \in SUBSET Place
    BY <2>1
  <2> QED BY <2>2, <2>3 DEF InstalledCell, TableCell, Cell
<1>4. T = [r \in 1 .. n |-> [k \in DOMAIN s(r) |-> C(s(r)[k])]]
  BY DEF InstallTableMap, Stays, AppendedAt, InstalledCell
<1> HIDE DEF T, Z, C
<1>5. ASSUME NEW r \in 1 .. n
      PROVE  /\ Cardinality(In(r)) \in Nat
             /\ DOMAIN s(r) = 1 .. Cardinality(In(r))
             /\ Lists(s(r), In(r))
  <2> DEFINE S == In(r)
  <2>1. S \in SUBSET (Int \X Int) /\ IsFiniteSet(S)
    BY <1>1, <1>2, FS_Subset
  <2> HIDE DEF S
  <2>2. Cardinality(S) \in Nat /\ Lists(InOrder(S), S)
    BY <2>1, InOrderLists
  <2>3. DOMAIN InOrder(S) = 1 .. Cardinality(S)
    BY <2>2 DEF Lists
  <2> QED BY <2>2, <2>3 DEF S
<1> HIDE DEF s
<1>6. \A r \in 1 .. n : \A k \in DOMAIN s(r) : s(r)[k] \in Z /\ s(r)[k][1] = r
  <2> SUFFICES ASSUME NEW r \in 1 .. n, NEW k \in DOMAIN s(r) PROVE s(r)[k] \in In(r)
    OBVIOUS
  <2> HIDE DEF In
  <2> QED BY <1>5 DEF Lists
<1>7. ASSUME NEW r \in 1 .. n
      PROVE  /\ T[r] \in Seq(Cell)
             /\ DOMAIN T[r] = DOMAIN s(r)
             /\ \A k \in DOMAIN s(r) : T[r][k] = C(s(r)[k])
  <2> DEFINE m == Cardinality(In(r))
  <2>1. m \in Nat /\ DOMAIN s(r) = 1 .. m
    BY <1>5
  <2>2. T[r] = [k \in 1 .. m |-> C(s(r)[k])]
    BY <1>4, <2>1
  <2>3. \A k \in 1 .. m : C(s(r)[k]) \in Cell
    BY <1>3, <1>6, <2>1
  <2> HIDE DEF m
  <2>4. T[r] \in [1 .. m -> Cell]
    BY <2>2, <2>3
  <2> QED BY <2>1, <2>2, <2>4, ListIsSeq
<1>8. T \in Tables /\ Len(T) = n
  <2>1. T \in [1 .. n -> Seq(Cell)]
    BY <1>4, <1>7
  <2> QED BY <2>1, ListIsSeq DEF Tables
<1>9. \A p : p \in Places(T) <=> p = <<p[1], p[2]>> /\ p[1] \in 1 .. n /\ p[2] \in DOMAIN s(p[1])
  <2>1. DOMAIN T = 1 .. n
    BY <1>4
  <2> QED BY <1>7, <2>1 DEF Places
<1> DEFINE at == [p \in Places(T) |-> s(p[1])[p[2]]]
<1>10. at \in [Places(T) -> Z]
  BY <1>6, <1>9
<1>11. ASSUME NEW p \in Places(T) PROVE at[p][1] = p[1] /\ CellAt(T, p) = C(at[p])
  BY <1>6, <1>7, <1>9 DEF CellAt
<1>12. ASSUME NEW x \in Z PROVE \E p \in Places(T) : at[p] = x
  <2> DEFINE r == x[1]
  <2>1. r \in 1 .. n /\ x \in In(r)
    BY <1>2
  <2>2. PICK k \in DOMAIN s(r) : s(r)[k] = x
    <3> HIDE DEF In
    <3> QED BY <1>5, <2>1 DEF Lists
  <2>3. <<r, k>> \in Places(T)
    BY <1>9, <2>1, <2>2
  <2>4. at[<<r, k>>] = x
    BY <2>2, <2>3
  <2> QED BY <2>3, <2>4
<1>13. ASSUME NEW p \in Places(T), NEW q \in Places(T), p[1] = q[1], p[2] < q[2]
       PROVE  at[p][2] < at[q][2]
  <2> DEFINE r == p[1]
  <2>1. r \in 1 .. n /\ p[2] \in DOMAIN s(r) /\ q[2] \in DOMAIN s(r) /\ at[p] = s(r)[p[2]] /\ at[q] = s(r)[q[2]]
    BY <1>9, <1>13
  <2>2. Precedes(at[p], at[q])
    BY <1>5, <1>13, <2>1 DEF Lists
  <2>3. at[p][1] = at[q][1]
    BY <1>11, <1>13
  <2>4. at[p][1] \in Int
    BY <1>2, <1>10
  <2> HIDE DEF at
  <2> QED BY <2>2, <2>3, <2>4 DEF Precedes
<1>14. ASSUME NEW p \in Places(T), NEW q \in Places(T), at[p] = at[q] PROVE p = q
  <2>1. p[1] = q[1]
    BY <1>11, <1>14
  <2>2. p[2] \in Nat /\ q[2] \in Nat
    <3>1. p[1] \in 1 .. n /\ p[2] \in DOMAIN s(p[1]) /\ q[1] \in 1 .. n /\ q[2] \in DOMAIN s(q[1])
      BY <1>9
    <3>2. \A r \in 1 .. n : \A k \in DOMAIN s(r) : k \in Nat
      <4> HIDE DEF In
      <4> QED BY <1>5
    <3> QED BY <3>1, <3>2
  <2>3. at[p][2] \in Nat
    BY <1>2, <1>10
  <2>4. ~ (p[2] < q[2]) /\ ~ (q[2] < p[2])
    <3> HIDE DEF at
    <3>1. ~ (at[p][2] < at[q][2]) /\ ~ (at[q][2] < at[p][2])
      BY <1>14, <2>3
    <3> QED BY <1>13, <2>1, <3>1
  <2>5. p[2] = q[2]
    BY <2>2, <2>4
  <2> QED BY <1>9, <2>1, <2>5
<1>15. Installed(T, map, n, text, at)
  <2> HIDE DEF at
  <2> QED BY <1>8, <1>10, <1>11, <1>12, <1>13, <1>14 DEF Installed, Z, C
<1> QED BY <1>15 DEF T

----------------------------------------------------------------------------
(* Text that moves with the cells                                          *)

\* No text is in two cells.
Separate(t) ==
    \A p, q \in Places(t) : p # q => CellAt(t, p).text \cap CellAt(t, q).text = {}

\* The cells of T have the text of different cells of t, or none.
TextFrom(T, t, o) ==
    /\ T \in Tables
    /\ \A p \in Places(T) :
          CellAt(T, p).text = IF o[p] \in Places(t) THEN CellAt(t, o[p]).text ELSE {}
    /\ \A p, q \in Places(T) : o[p] \in Places(t) /\ o[p] = o[q] => p = q

Inherits(T, t) ==
    /\ T \in Tables
    /\ Separate(t) => Separate(T)
    /\ AllText(T) \subseteq AllText(t)
Keeps(T, t) == Inherits(T, t) /\ AllText(T) = AllText(t)

\* The text of a table is that of its cells.
LEMMA AllTextIs ==
    ASSUME NEW t, NEW x
    PROVE  x \in AllText(t) <=> \E p \in Places(t) : x \in CellAt(t, p).text
BY DEF AllText

\* If each cell has the text of another cell of the old table, no text is doubled; if all cells
\* are taken, none is lost.
LEMMA TextInherited ==
    ASSUME NEW t, NEW T, NEW o, TextFrom(T, t, o)
    PROVE  /\ Inherits(T, t)
           /\ (\A q \in Places(t) : \E p \in Places(T) : o[p] = q) => Keeps(T, t)
<1>1. ASSUME Separate(t) PROVE Separate(T)
  <2> SUFFICES ASSUME NEW p \in Places(T), NEW q \in Places(T), p # q
               PROVE  CellAt(T, p).text \cap CellAt(T, q).text = {}
    BY DEF Separate
  <2>1. CASE o[p] \in Places(t) /\ o[q] \in Places(t)
    <3>1. o[p] # o[q]
      BY <2>1 DEF TextFrom
    <3> QED BY <1>1, <2>1, <3>1 DEF Separate, TextFrom
  <2>2. CASE ~ (o[p] \in Places(t) /\ o[q] \in Places(t))
    BY <2>2 DEF TextFrom
  <2> QED BY <2>1, <2>2
<1>2. AllText(T) \subseteq AllText(t)
  <2> SUFFICES ASSUME NEW x \in AllText(T) PROVE x \in AllText(t)
    OBVIOUS
  <2>1. PICK p \in Places(T) : x \in CellAt(T, p).text
    BY AllTextIs
  <2>2. o[p] \in Places(t) /\ x \in CellAt(t, o[p]).text
    BY <2>1 DEF TextFrom
  <2> QED BY <2>2, AllTextIs
<1>3. ASSUME \A q \in Places(t) : \E p \in Places(T) : o[p] = q PROVE AllText(t) \subseteq AllText(T)
  <2> SUFFICES ASSUME NEW x \in AllText(t) PROVE x \in AllText(T)
    OBVIOUS
  <2>1. PICK q \in Places(t) : x \in CellAt(t, q).text
    BY AllTextIs
  <2>2. PICK p \in Places(T) : o[p] = q
    BY <1>3
  <2>3. x \in CellAt(T, p).text
    BY <2>1, <2>2 DEF TextFrom
  <2> QED BY <2>3, AllTextIs
<1>4. T \in Tables
  BY DEF TextFrom
<1> QED BY <1>1, <1>2, <1>3, <1>4 DEF Inherits, Keeps

\* What two steps after each other do not double.
LEMMA InheritsChain ==
    ASSUME NEW a, NEW b, NEW c, Inherits(b, a), Inherits(c, b)
    PROVE  Inherits(c, a)
BY DEF Inherits

\* A list with one more element.
LEMMA InsertAtIs ==
    ASSUME NEW S, NEW s \in Seq(S), NEW i \in 1 .. Len(s) + 1, NEW e \in S
    PROVE  /\ InsertAt(s, i, e) \in Seq(S)
           /\ Len(s) \in Nat
           /\ Len(InsertAt(s, i, e)) = Len(s) + 1
           /\ DOMAIN InsertAt(s, i, e) = 1 .. Len(s) + 1
           /\ \A j \in 1 .. Len(s) + 1 :
                InsertAt(s, i, e)[j] = IF j < i THEN s[j] ELSE IF j = i THEN e ELSE s[j - 1]
<1> DEFINE a == SubSeq(s, 1, i - 1)
           b == SubSeq(s, i, Len(s))
           c == a \o <<e>>
           n == Len(s)
<1>1. n \in Nat /\ i \in Nat \ {0} /\ i <= n + 1 /\ \A j \in 1 .. n : s[j] \in S
  BY LenProperties
<1>2. /\ a \in Seq(S)
      /\ Len(a) = i - 1
      /\ \A j \in 1 .. i - 1 : a[j] = s[j]
  <2>1. 1 \in Int /\ i - 1 \in Int /\ \A j \in 1 .. i - 1 : s[j] \in S
    BY <1>1
  <2>2. /\ a \in Seq(S) /\ Len(a) = (IF 1 <= i - 1 THEN i - 1 - 1 + 1 ELSE 0)
        /\ \A j \in 1 .. i - 1 - 1 + 1 : a[j] = s[1 + j - 1]
    BY <2>1, SubSeqProperties
  <2> HIDE DEF a
  <2> QED BY <1>1, <2>2
<1>3. /\ b \in Seq(S)
      /\ Len(b) = n - i + 1
      /\ \A j \in 1 .. n - i + 1 : b[j] = s[i + j - 1]
  <2>1. i \in Int /\ n \in Int /\ \A j \in i .. n : s[j] \in S
    BY <1>1
  <2>2. /\ b \in Seq(S) /\ Len(b) = (IF i <= n THEN n - i + 1 ELSE 0)
        /\ \A j \in 1 .. n - i + 1 : b[j] = s[i + j - 1]
    <3> HIDE DEF n
    <3>1. /\ SubSeq(s, i, n) \in Seq(S) /\ Len(SubSeq(s, i, n)) = (IF i <= n THEN n - i + 1 ELSE 0)
          /\ \A j \in 1 .. n - i + 1 : SubSeq(s, i, n)[j] = s[i + j - 1]
      BY <2>1, SubSeqProperties
    <3> QED BY <3>1 DEF n
  <2> HIDE DEF b, n
  <2> QED BY <1>1, <2>2
<1>4. <<e>> \in Seq(S) /\ Len(<<e>>) = 1 /\ <<e>>[1] = e
  OBVIOUS
<1> HIDE DEF a, b, n
<1>5. /\ c \in Seq(S) /\ Len(c) = i
      /\ \A j \in 1 .. i : c[j] = IF j <= i - 1 THEN s[j] ELSE e
  <2>1. Len(a) \in Int /\ Len(a) = i - 1 /\ Len(<<e>>) = 1 /\ Len(a) + Len(<<e>>) = i
    BY <1>1, <1>2, <1>4
  <2>2. /\ c \in Seq(S) /\ Len(c) = Len(a) + Len(<<e>>)
        /\ \A j \in 1 .. Len(a) + Len(<<e>>) : c[j] = IF j <= Len(a) THEN a[j] ELSE <<e>>[j - Len(a)]
    BY <1>2, <1>4, ConcatProperties
  <2> DEFINE d == <<e>>
  <2>3. d[1] = e
    OBVIOUS
  <2> HIDE DEF c, d
  <2>4. ASSUME NEW j \in 1 .. i PROVE c[j] = IF j <= i - 1 THEN s[j] ELSE e
    <3>1. c[j] = IF j <= i - 1 THEN a[j] ELSE d[j - (i - 1)]
      BY <2>1, <2>2 DEF d
    <3>2. CASE j <= i - 1
      <4>1. j \in 1 .. i - 1
        BY <1>1, <3>2
      <4> QED BY <1>2, <3>1, <3>2, <4>1
    <3>3. CASE j = i
      <4>1. j - (i - 1) = 1 /\ ~ (j <= i - 1)
        BY <1>1, <3>3
      <4> QED BY <2>3, <3>1, <4>1
    <3> QED BY <1>1, <3>2, <3>3
  <2> QED BY <2>1, <2>2, <2>4
<1> HIDE DEF c
<1>6. /\ c \o b \in Seq(S) /\ Len(c \o b) = n + 1
      /\ \A j \in 1 .. n + 1 : (c \o b)[j] = IF j <= i THEN c[j] ELSE b[j - i]
  <2>1. /\ c \o b \in Seq(S) /\ Len(c \o b) = Len(c) + Len(b)
        /\ \A j \in 1 .. Len(c) + Len(b) : (c \o b)[j] = IF j <= Len(c) THEN c[j] ELSE b[j - Len(c)]
    BY <1>3, <1>5, ConcatProperties
  <2>2. Len(c) + Len(b) = n + 1
    BY <1>1, <1>3, <1>5
  <2> QED BY <1>5, <2>1, <2>2
<1>7. ASSUME NEW j \in 1 .. n + 1
      PROVE  (c \o b)[j] = IF j < i THEN s[j] ELSE IF j = i THEN e ELSE s[j - 1]
  <2>1. CASE j < i
    BY <1>1, <1>5, <1>6, <2>1
  <2>2. CASE j = i
    BY <1>1, <1>5, <1>6, <2>2
  <2>3. CASE j > i
    <3>1. j - i \in 1 .. n - i + 1 /\ i + (j - i) - 1 = j - 1 /\ ~ (j <= i)
      BY <1>1, <2>3
    <3>2. b[j - i] = s[i + (j - i) - 1]
      BY <1>3, <3>1
    <3> QED BY <1>1, <1>6, <2>3, <3>1, <3>2
  <2>4. j < i \/ j = i \/ j > i
    BY <1>1
  <2> HIDE DEF c
  <2>5. j < i => ~ (j = i)
    BY <1>1
  <2>6. j > i => ~ (j = i) /\ ~ (j < i)
    BY <1>1
  <2> QED BY <2>1, <2>2, <2>3, <2>4, <2>5, <2>6
<1>8. InsertAt(s, i, e) = c \o b
  BY DEF InsertAt, a, b, c
<1>9. DOMAIN (c \o b) = 1 .. n + 1
  BY <1>6, LenProperties
<1> QED BY <1>1, <1>6, <1>7, <1>8, <1>9 DEF n

\* A cell of a table is its place's.
LEMMA CellIs ==
    ASSUME NEW t \in Tables, NEW p \in Places(t)
    PROVE  /\ CellAt(t, p).colSpan \in Nat \ {0}
           /\ CellAt(t, p).rowSpan \in Nat \ {0}
           /\ CellAt(t, p).text \in SUBSET Place
           /\ CellAt(t, p) = TableCell(CellAt(t, p).colSpan, CellAt(t, p).rowSpan, CellAt(t, p).text)
BY PlacesOf DEF Cell, TableCell

\* What a table of rows consists of.
LEMMA TableIs ==
    ASSUME NEW t
    PROVE  t \in Tables <=> /\ t \in Seq(Seq(Cell))
                            /\ Len(t) \in Nat
                            /\ DOMAIN t = 1 .. Len(t)
                            /\ \A i \in 1 .. Len(t) : t[i] \in Seq(Cell)
<1>1. ASSUME t \in Seq(Seq(Cell))
      PROVE  Len(t) \in Nat /\ DOMAIN t = 1 .. Len(t) /\ \A i \in 1 .. Len(t) : t[i] \in Seq(Cell)
  <2> DEFINE Q == Seq(Cell)
  <2> HIDE DEF Q
  <2>1. t \in Seq(Q)
    BY <1>1 DEF Q
  <2>2. Len(t) \in Nat /\ DOMAIN t = 1 .. Len(t) /\ \A i \in 1 .. Len(t) : t[i] \in Q
    BY <2>1
  <2> QED BY <2>2 DEF Q
<1> QED BY <1>1 DEF Tables

\* The places of a table whose rows have these lengths.
LEMMA PlacesAre ==
    ASSUME NEW t, NEW n, DOMAIN t = 1 .. n, NEW m, \A i \in 1 .. n : DOMAIN t[i] = 1 .. m[i]
    PROVE  \A p : p \in Places(t) <=> p = <<p[1], p[2]>> /\ p[1] \in 1 .. n /\ p[2] \in 1 .. m[p[1]]
<1>1. \A p : p \in Places(t) <=> p = <<p[1], p[2]>> /\ p[1] \in DOMAIN t /\ p[2] \in DOMAIN t[p[1]]
  BY DEF Places
<1> QED BY <1>1

\* A table of the same shape, with the same text or less.
SameShape(T, t) ==
    /\ DOMAIN T = DOMAIN t
    /\ \A i \in DOMAIN t : DOMAIN T[i] = DOMAIN t[i]
    /\ \A i \in DOMAIN t : \A j \in DOMAIN t[i] : T[i][j] \in Cell

\* A table of the same shape has the same places.
LEMMA SameShapeIs ==
    ASSUME NEW t \in Tables, NEW T, SameShape(T, t), \A i \in DOMAIN T : T[i] = [j \in DOMAIN T[i] |-> T[i][j]],
           T = [i \in DOMAIN T |-> T[i]]
    PROVE  T \in Tables /\ Places(T) = Places(t) /\ Len(T) = Len(t)
<1>1. Len(t) \in Nat /\ DOMAIN t = 1 .. Len(t) /\ \A i \in 1 .. Len(t) : t[i] \in Seq(Cell)
  BY TableIs
<1>2. ASSUME NEW i \in 1 .. Len(t) PROVE T[i] \in Seq(Cell)
  <2>1. Len(t[i]) \in Nat /\ DOMAIN t[i] = 1 .. Len(t[i])
    BY <1>1
  <2>2. T[i] \in [1 .. Len(t[i]) -> Cell]
    BY <1>1, <2>1 DEF SameShape
  <2> QED BY <2>1, <2>2, ListIsSeq
<1>3. T \in [1 .. Len(t) -> Seq(Cell)]
  BY <1>1, <1>2 DEF SameShape
<1>4. T \in Tables /\ Len(T) = Len(t)
  BY <1>1, <1>3, ListIsSeq DEF Tables
<1>5. Places(T) = Places(t)
  BY DEF Places, SameShape
<1> QED BY <1>4, <1>5

\* Cells that keep their text or lose it.
LEMMA SameText ==
    ASSUME NEW t \in Tables, NEW T \in Tables, Places(T) = Places(t),
           \A p \in Places(t) : CellAt(T, p).text \in {CellAt(t, p).text, {}}
    PROVE  /\ Inherits(T, t)
           /\ (\A p \in Places(t) : CellAt(T, p).text = CellAt(t, p).text) => Keeps(T, t)
<1>1. Separate(t) => Separate(T)
  BY DEF Separate
<1>2. AllText(T) \subseteq AllText(t)
  <2> SUFFICES ASSUME NEW x \in AllText(T) PROVE x \in AllText(t)
    OBVIOUS
  <2> QED BY AllTextIs
<1>3. ASSUME \A p \in Places(t) : CellAt(T, p).text = CellAt(t, p).text PROVE AllText(T) = AllText(t)
  <2> SUFFICES ASSUME NEW x PROVE x \in AllText(T) <=> x \in AllText(t)
    OBVIOUS
  <2> QED BY <1>3, AllTextIs
<1> QED BY <1>1, <1>2, <1>3 DEF Inherits, Keeps


\* Rows in which a cell without text is inserted.
Inserted(t, R, at, e) == [i \in DOMAIN t |-> IF i \in R THEN InsertAt(t[i], at[i], e[i]) ELSE t[i]]

\* Inserting cells without text keeps all text.
LEMMA CellsInserted ==
    ASSUME NEW t \in Tables, NEW R, NEW at, NEW e,
           \A i \in R \cap DOMAIN t : at[i] \in 1 .. Len(t[i]) + 1 /\ e[i] \in Cell /\ e[i].text = {}
    PROVE  Keeps(Inserted(t, R, at, e), t)
<1> DEFINE T == [i \in DOMAIN t |-> IF i \in R THEN InsertAt(t[i], at[i], e[i]) ELSE t[i]]
           m == [i \in DOMAIN t |-> IF i \in R THEN Len(t[i]) + 1 ELSE Len(t[i])]
<1>1. Len(t) \in Nat /\ DOMAIN t = 1 .. Len(t) /\ \A i \in 1 .. Len(t) : t[i] \in Seq(Cell)
  BY TableIs
<1>2. ASSUME NEW i \in 1 .. Len(t)
      PROVE  Len(t[i]) \in Nat /\ DOMAIN t[i] = 1 .. Len(t[i])
  BY <1>1
<1>3. ASSUME NEW i \in 1 .. Len(t), i \in R
      PROVE  /\ T[i] \in Seq(Cell)
             /\ DOMAIN T[i] = 1 .. Len(t[i]) + 1
             /\ \A j \in 1 .. Len(t[i]) + 1 :
                    T[i][j] = IF j < at[i] THEN t[i][j] ELSE IF j = at[i] THEN e[i] ELSE t[i][j - 1]
  <2> DEFINE s == t[i]
             a == at[i]
             b == e[i]
             u == InsertAt(s, a, b)
  <2>1. T[i] = u
    BY <1>1, <1>3
  <2>2. s \in Seq(Cell) /\ a \in 1 .. Len(s) + 1 /\ b \in Cell
    BY <1>1, <1>3
  <2> HIDE DEF s, a, b, T
  <2>3. /\ u \in Seq(Cell)
        /\ DOMAIN u = 1 .. Len(s) + 1
        /\ \A j \in 1 .. Len(s) + 1 : u[j] = IF j < a THEN s[j] ELSE IF j = a THEN b ELSE s[j - 1]
    BY <2>2, InsertAtIs
  <2> HIDE DEF u
  <2> QED BY <2>1, <2>3 DEF s, a, b
<1>4. ASSUME NEW i \in 1 .. Len(t), i \notin R
      PROVE  T[i] = t[i]
  BY <1>1, <1>4
<1>5. T \in Tables /\ DOMAIN T = 1 .. Len(t)
  <2>1. T \in [1 .. Len(t) -> Seq(Cell)]
    <3>1. \A i \in 1 .. Len(t) : T[i] \in Seq(Cell)
      BY <1>1, <1>3, <1>4
    <3>2. T = [i \in 1 .. Len(t) |-> T[i]]
      BY <1>1
    <3> HIDE DEF T
    <3> QED BY <3>1, <3>2
  <2> HIDE DEF T
  <2> QED BY <1>1, <2>1, ListIsSeq DEF Tables
<1>6. \A i \in 1 .. Len(t) : DOMAIN T[i] = 1 .. m[i] /\ m[i] \in Nat
  BY <1>1, <1>2, <1>3, <1>4
<1> HIDE DEF T
<1>7. \A p : p \in Places(T) <=> p = <<p[1], p[2]>> /\ p[1] \in 1 .. Len(t) /\ p[2] \in 1 .. m[p[1]]
  <2> HIDE DEF m
  <2> QED BY <1>5, <1>6, PlacesAre
<1>8. \A p : p \in Places(t) <=> p = <<p[1], p[2]>> /\ p[1] \in 1 .. Len(t) /\ p[2] \in 1 .. Len(t[p[1]])
  <2> DEFINE k == [i \in 1 .. Len(t) |-> Len(t[i])]
  <2>1. \A i \in 1 .. Len(t) : DOMAIN t[i] = 1 .. k[i]
    BY <1>2
  <2>2. \A p : p \in Places(t) <=> p = <<p[1], p[2]>> /\ p[1] \in 1 .. Len(t) /\ p[2] \in 1 .. k[p[1]]
    <3> HIDE DEF k
    <3> QED BY <1>1, <2>1, PlacesAre
  <2> QED BY <2>2
<1> DEFINE o == [p \in Places(T) |->
                    IF p[1] \notin R \/ p[2] < at[p[1]] THEN p
                    ELSE IF p[2] = at[p[1]] THEN <<0, 0>> ELSE <<p[1], p[2] - 1>>]
<1>9. <<0, 0>> \notin Places(t)
  BY <1>8
<1>10. ASSUME NEW p \in Places(T)
       PROVE  /\ p[1] \notin R \/ p[2] < at[p[1]] => p \in Places(t) /\ CellAt(T, p) = CellAt(t, p)
              /\ p[1] \in R /\ p[2] = at[p[1]] => CellAt(T, p).text = {}
              /\ p[1] \in R /\ p[2] > at[p[1]] => /\ <<p[1], p[2] - 1>> \in Places(t)
                                                  /\ CellAt(T, p) = CellAt(t, <<p[1], p[2] - 1>>)
              /\ p[1] \in R => at[p[1]] \in Nat
              /\ p[2] \in Nat /\ p = <<p[1], p[2]>>
  <2>1. p = <<p[1], p[2]>> /\ p[1] \in 1 .. Len(t) /\ p[2] \in 1 .. m[p[1]]
    BY <1>7
  <2> DEFINE i == p[1]
             j == p[2]
             n == Len(t[i])
  <2>2. n \in Nat
    BY <1>2, <2>1
  <2>3. CASE i \notin R
    <3>1. m[i] = n /\ T[i] = t[i]
      BY <1>1, <1>4, <2>1, <2>3
    <3>2. p \in Places(t)
      BY <1>8, <2>1, <3>1
    <3> QED BY <2>1, <2>2, <2>3, <3>1, <3>2 DEF CellAt
  <2>4. CASE i \in R
    <3>1. m[i] = n + 1 /\ at[i] \in 1 .. n + 1 /\ e[i].text = {}
      BY <1>1, <2>1, <2>4
    <3>2. j \in 1 .. n + 1
      BY <2>1, <3>1
    <3>3. T[i][j] = IF j < at[i] THEN t[i][j] ELSE IF j = at[i] THEN e[i] ELSE t[i][j - 1]
      BY <1>3, <2>1, <2>4, <3>2
    <3>4. j < at[i] => p \in Places(t)
      BY <1>8, <2>1, <2>2, <3>1, <3>2
    <3>5. j > at[i] => <<i, j - 1>> \in Places(t)
      BY <1>8, <2>1, <2>2, <3>1, <3>2
    <3>6. j \in Nat /\ at[i] \in Nat
      BY <2>2, <3>1, <3>2
    <3> HIDE DEF n, m
    <3> QED BY <2>1, <2>4, <3>1, <3>3, <3>4, <3>5, <3>6 DEF CellAt
  <2> QED BY <2>3, <2>4
<1>11. TextFrom(T, t, o)
  <2> DEFINE Before(p) == p[1] \notin R \/ p[2] < at[p[1]]
             After(p) == p[1] \in R /\ p[2] > at[p[1]]
  <2>0. ASSUME NEW p \in Places(T)
        PROVE  /\ Before(p) \/ After(p) \/ (p[1] \in R /\ p[2] = at[p[1]])
               /\ After(p) => ~ Before(p) /\ p[2] # at[p[1]]
    <3>1. p[2] \in Nat /\ (p[1] \in R => at[p[1]] \in Nat)
      BY <1>10
    <3> QED BY <3>1
  <2>1. ASSUME NEW p \in Places(T)
        PROVE  CellAt(T, p).text = IF o[p] \in Places(t) THEN CellAt(t, o[p]).text ELSE {}
    <3>1. CASE Before(p)
      BY <1>10, <3>1
    <3>2. CASE p[1] \in R /\ p[2] = at[p[1]] /\ ~ Before(p)
      BY <1>9, <1>10, <3>2
    <3>3. CASE After(p)
      <4>1. o[p] = <<p[1], p[2] - 1>>
        BY <2>0, <3>3
      <4> HIDE DEF o
      <4> QED BY <1>10, <3>3, <4>1
    <3> QED BY <2>0, <3>1, <3>2, <3>3
  <2>2. ASSUME NEW p \in Places(T), NEW q \in Places(T), o[p] \in Places(t), o[p] = o[q] PROVE p = q
    <3>1. \A u \in Places(T) : \/ o[u] = u /\ Before(u)
                               \/ o[u] = <<0, 0>>
                               \/ o[u] = <<u[1], u[2] - 1>> /\ After(u)
      BY <2>0
    <3> HIDE DEF o
    <3>2. o[p] # <<0, 0>>
      BY <1>9, <2>2
    <3>3. /\ p = <<p[1], p[2]>> /\ q = <<q[1], q[2]>> /\ p[2] \in Nat /\ q[2] \in Nat
          /\ p[1] \in R => at[p[1]] \in Nat
      BY <1>10
    <3>4. CASE o[p] = p /\ Before(p) /\ o[q] = <<q[1], q[2] - 1>> /\ After(q)
      <4>1. p = <<q[1], q[2] - 1>>
        BY <2>2, <3>4
      <4>2. p[1] = q[1] /\ p[2] = q[2] - 1
        BY <4>1
      <4>3. p[1] \in R /\ p[2] < at[p[1]] /\ q[2] > at[p[1]]
        BY <3>4, <4>2
      <4> QED BY <3>3, <4>2, <4>3
    <3>5. CASE o[q] = q /\ Before(q) /\ o[p] = <<p[1], p[2] - 1>> /\ After(p)
      <4>1. q = <<p[1], p[2] - 1>>
        BY <2>2, <3>5
      <4>2. q[1] = p[1] /\ q[2] = p[2] - 1
        BY <4>1
      <4>3. p[1] \in R /\ q[2] < at[p[1]] /\ p[2] > at[p[1]]
        BY <3>5, <4>2
      <4> QED BY <3>3, <4>2, <4>3
    <3>6. CASE o[p] = <<p[1], p[2] - 1>> /\ o[q] = <<q[1], q[2] - 1>>
      <4>0. <<p[1], p[2] - 1>> = <<q[1], q[2] - 1>>
        BY <2>2, <3>6, Zenon
      <4>1. p[1] = q[1] /\ p[2] - 1 = q[2] - 1
        BY <4>0
      <4> QED BY <3>3, <4>1
    <3> QED BY <2>2, <3>1, <3>2, <3>4, <3>5, <3>6
  <2> QED BY <1>5, <2>1, <2>2 DEF TextFrom
<1>12. ASSUME NEW q \in Places(t) PROVE \E p \in Places(T) : o[p] = q
  <2>1. q = <<q[1], q[2]>> /\ q[1] \in 1 .. Len(t) /\ q[2] \in 1 .. Len(t[q[1]])
    BY <1>8
  <2>2. Len(t[q[1]]) \in Nat /\ (q[1] \in R => m[q[1]] = Len(t[q[1]]) + 1 /\ at[q[1]] \in Nat)
                             /\ (q[1] \notin R => m[q[1]] = Len(t[q[1]]))
    BY <1>1, <1>2, <2>1
  <2> HIDE DEF m
  <2>3. CASE q[1] \notin R \/ q[2] < at[q[1]]
    <3>1. q[2] \in 1 .. m[q[1]]
      BY <2>1, <2>2
    <3>2. q \in Places(T)
      BY <1>7, <2>1, <3>1
    <3> QED BY <2>3, <3>2
  <2>4. CASE q[1] \in R /\ q[2] >= at[q[1]]
    <3> DEFINE p == <<q[1], q[2] + 1>>
    <3>1. q[2] + 1 \in 1 .. m[q[1]] /\ q[2] + 1 > at[q[1]] /\ ~ (q[2] + 1 < at[q[1]]) /\ q[2] + 1 # at[q[1]]
          /\ q[2] + 1 - 1 = q[2]
      BY <2>1, <2>2, <2>4
    <3>2. p \in Places(T)
      BY <1>7, <2>1, <3>1
    <3>3. o[p] = q
      BY <2>1, <2>4, <3>1, <3>2
    <3> QED BY <3>2, <3>3
  <2> QED BY <2>1, <2>2, <2>3, <2>4
<1> HIDE DEF o
<1> QED BY <1>11, <1>12, TextInherited DEF T, Inserted

\* A row without text is inserted.
LEMMA RowInserted ==
    ASSUME NEW t \in Tables, NEW i \in 1 .. Len(t) + 1, NEW row \in Seq(Cell),
           \A j \in 1 .. Len(row) : row[j].text = {}
    PROVE  Keeps(InsertAt(t, i, row), t)
<1> DEFINE T == InsertAt(t, i, row)
           n == Len(t)
<1>1. n \in Nat /\ DOMAIN t = 1 .. n /\ \A k \in 1 .. n : t[k] \in Seq(Cell)
  BY TableIs
<1>2. /\ T \in Tables
      /\ DOMAIN T = 1 .. n + 1
      /\ \A k \in 1 .. n + 1 : T[k] = IF k < i THEN t[k] ELSE IF k = i THEN row ELSE t[k - 1]
  <2> DEFINE Q == Seq(Cell)
  <2>1. t \in Seq(Q) /\ row \in Q
    BY DEF Tables
  <2> HIDE DEF Q
  <2>2. /\ T \in Seq(Q)
        /\ DOMAIN T = 1 .. n + 1
        /\ \A k \in 1 .. n + 1 : T[k] = IF k < i THEN t[k] ELSE IF k = i THEN row ELSE t[k - 1]
    <3> HIDE DEF T
    <3>1. /\ InsertAt(t, i, row) \in Seq(Q)
          /\ DOMAIN InsertAt(t, i, row) = 1 .. Len(t) + 1
          /\ \A k \in 1 .. Len(t) + 1 :
                InsertAt(t, i, row)[k] = IF k < i THEN t[k] ELSE IF k = i THEN row ELSE t[k - 1]
      BY <2>1, InsertAtIs
    <3> QED BY <3>1 DEF T
  <2> QED BY <2>2 DEF Tables, Q
<1>3. i \in Nat \ {0} /\ i <= n + 1
  BY <1>1
<1> HIDE DEF T, n
<1>4. \A p : p \in Places(t) <=> p = <<p[1], p[2]>> /\ p[1] \in 1 .. n /\ p[2] \in DOMAIN t[p[1]]
  BY <1>1 DEF Places
<1>5. \A p : p \in Places(T) <=> p = <<p[1], p[2]>> /\ p[1] \in 1 .. n + 1 /\ p[2] \in DOMAIN T[p[1]]
  BY <1>2 DEF Places
<1> DEFINE o == [p \in Places(T) |->
                    IF p[1] < i THEN p ELSE IF p[1] = i THEN <<0, 0>> ELSE <<p[1] - 1, p[2]>>]
<1>6. <<0, 0>> \notin Places(t)
  BY <1>4
<1>7. ASSUME NEW p \in Places(T)
      PROVE  /\ p = <<p[1], p[2]>> /\ p[1] \in Nat
             /\ p[1] < i => p \in Places(t) /\ CellAt(T, p) = CellAt(t, p)
             /\ p[1] = i => CellAt(T, p).text = {}
             /\ p[1] > i => <<p[1] - 1, p[2]>> \in Places(t) /\ CellAt(T, p) = CellAt(t, <<p[1] - 1, p[2]>>)
  <2>1. p = <<p[1], p[2]>> /\ p[1] \in 1 .. n + 1 /\ p[2] \in DOMAIN T[p[1]]
    BY <1>5
  <2>2. p[1] < i => p[1] \in 1 .. n /\ T[p[1]] = t[p[1]]
    BY <1>1, <1>2, <1>3, <2>1
  <2>3. p[1] < i => p \in Places(t) /\ CellAt(T, p) = CellAt(t, p)
    BY <1>4, <2>1, <2>2 DEF CellAt
  <2>4. p[1] = i => CellAt(T, p).text = {}
    <3> SUFFICES ASSUME p[1] = i PROVE CellAt(T, p).text = {}
      OBVIOUS
    <3>1. T[p[1]] = row
      BY <1>2, <1>3, <2>1
    <3>2. p[2] \in 1 .. Len(row)
      BY <2>1, <3>1
    <3> QED BY <3>1, <3>2 DEF CellAt
  <2>5. p[1] > i => p[1] - 1 \in 1 .. n /\ T[p[1]] = t[p[1] - 1]
    BY <1>1, <1>2, <1>3, <2>1
  <2>6. p[1] > i => <<p[1] - 1, p[2]>> \in Places(t) /\ CellAt(T, p) = CellAt(t, <<p[1] - 1, p[2]>>)
    BY <1>4, <2>1, <2>5 DEF CellAt
  <2> QED BY <2>1, <2>3, <2>4, <2>6
<1>8. TextFrom(T, t, o)
  <2>1. ASSUME NEW p \in Places(T)
        PROVE  /\ p[1] < i => o[p] = p
               /\ p[1] = i => o[p] = <<0, 0>>
               /\ p[1] > i => o[p] = <<p[1] - 1, p[2]>>
               /\ p[1] < i \/ p[1] = i \/ p[1] > i
    <3>1. p[1] \in Nat
      BY <1>7
    <3> QED BY <1>3, <3>1
  <2> HIDE DEF o
  <2>2. ASSUME NEW p \in Places(T)
        PROVE  CellAt(T, p).text = IF o[p] \in Places(t) THEN CellAt(t, o[p]).text ELSE {}
    BY <1>6, <1>7, <2>1
  <2>3. ASSUME NEW p \in Places(T), NEW q \in Places(T), o[p] \in Places(t), o[p] = o[q] PROVE p = q
    <3>1. p = <<p[1], p[2]>> /\ q = <<q[1], q[2]>> /\ p[1] \in Nat /\ q[1] \in Nat
      BY <1>7
    <3>2. o[p] # <<0, 0>>
      BY <1>6, <2>3
    <3>3. CASE p[1] < i /\ q[1] < i
      BY <2>1, <2>3, <3>3
    <3>4. CASE p[1] < i /\ q[1] > i
      <4>1. p = <<q[1] - 1, q[2]>>
        BY <2>1, <2>3, <3>4
      <4>2. p[1] = q[1] - 1
        BY <4>1
      <4> QED BY <1>3, <3>1, <3>4, <4>2
    <3>5. CASE p[1] > i /\ q[1] < i
      <4>1. q = <<p[1] - 1, p[2]>>
        BY <2>1, <2>3, <3>5
      <4>2. q[1] = p[1] - 1
        BY <4>1
      <4> QED BY <1>3, <3>1, <3>5, <4>2
    <3>6. CASE p[1] > i /\ q[1] > i
      <4>1. <<p[1] - 1, p[2]>> = <<q[1] - 1, q[2]>>
        BY <2>1, <2>3, <3>6, Zenon
      <4>2. p[1] - 1 = q[1] - 1 /\ p[2] = q[2]
        BY <4>1
      <4> QED BY <3>1, <4>2
    <3> QED BY <2>1, <2>3, <3>2, <3>3, <3>4, <3>5, <3>6
  <2> QED BY <1>2, <2>2, <2>3 DEF TextFrom
<1>9. ASSUME NEW q \in Places(t) PROVE \E p \in Places(T) : o[p] = q
  <2>1. q = <<q[1], q[2]>> /\ q[1] \in 1 .. n /\ q[2] \in DOMAIN t[q[1]]
    BY <1>4
  <2>2. CASE q[1] < i
    <3>1. q[1] \in 1 .. n + 1 /\ T[q[1]] = t[q[1]]
      BY <1>1, <1>2, <2>1, <2>2
    <3>2. q \in Places(T)
      BY <1>5, <2>1, <3>1
    <3> QED BY <2>2, <3>2
  <2>3. CASE q[1] >= i
    <3> DEFINE p == <<q[1] + 1, q[2]>>
    <3>1. q[1] + 1 \in 1 .. n + 1 /\ ~ (q[1] + 1 < i) /\ q[1] + 1 # i /\ (q[1] + 1) - 1 = q[1]
      BY <1>1, <1>3, <2>1, <2>3
    <3>2. T[q[1] + 1] = t[q[1]]
      BY <1>2, <3>1
    <3>3. p \in Places(T)
      BY <1>5, <2>1, <3>1, <3>2
    <3>4. o[p] = q
      BY <2>1, <3>1, <3>3
    <3> QED BY <3>3, <3>4
  <2> QED BY <1>3, <2>1, <2>2, <2>3
<1> HIDE DEF o
<1> QED BY <1>8, <1>9, TextInherited DEF T

\* The cells of a row that are not in S.
LeftIn(t, S, i) == {p \in Places(t) : p[1] = i /\ p \notin S}

\* Cells are taken out of their rows.
LEMMA WithoutIs ==
    ASSUME NEW t \in Tables, NEW S
    PROVE  /\ Inherits(Without(t, S), t)
           /\ Len(Without(t, S)) = Len(t)
           /\ DOMAIN Without(t, S) = DOMAIN t
           /\ \A i \in 1 .. Len(t) :
                /\ Len(Without(t, S)[i]) = Cardinality(LeftIn(t, S, i))
                /\ \A j \in 1 .. Len(Without(t, S)[i]) :
                      \E k \in 1 .. Len(t[i]) : Without(t, S)[i][j] = t[i][k]
<1> DEFINE T == Without(t, S)
           Left(i) == {p \in Places(t) : p[1] = i /\ p \notin S}
           keep(i) == InOrder(Left(i))
           m == [i \in DOMAIN t |-> Cardinality(Left(i))]
           n == Len(t)
<1>1. n \in Nat /\ DOMAIN t = 1 .. n
  BY TableIs
<1>2. ASSUME NEW i \in 1 .. n
      PROVE  /\ m[i] \in Nat
             /\ Lists(keep(i), Left(i))
             /\ DOMAIN keep(i) = 1 .. m[i]
             /\ \A k \in 1 .. m[i] : keep(i)[k] \in Places(t) /\ keep(i)[k][1] = i
             /\ \A k, l \in 1 .. m[i] : k < l => keep(i)[k] # keep(i)[l]
  <2> DEFINE L == Left(i)
  <2>1. L \in SUBSET (Int \X Int) /\ IsFiniteSet(L)
    BY PlacesOf, FS_Subset DEF Position
  <2>2. \A x \in L : x \in Places(t) /\ x[1] = i
    OBVIOUS
  <2>3. m[i] = Cardinality(L)
    BY <1>1
  <2> HIDE DEF L
  <2>4. Cardinality(L) \in Nat /\ Lists(InOrder(L), L)
    BY <2>1, InOrderLists
  <2>5. DOMAIN InOrder(L) = 1 .. Cardinality(L) /\ \A k \in 1 .. Cardinality(L) : InOrder(L)[k] \in L
    BY <2>4 DEF Lists
  <2>6. \A k, l \in 1 .. Cardinality(L) : k < l => InOrder(L)[k] # InOrder(L)[l]
    BY <2>1, <2>4, PrecedesOrders DEF Lists
  <2> HIDE DEF m
  <2> QED BY <2>2, <2>3, <2>4, <2>5, <2>6 DEF L
<1>3. T = [i \in DOMAIN t |-> [k \in DOMAIN keep(i) |-> CellAt(t, keep(i)[k])]]
  BY DEF Without
<1> HIDE DEF T, keep, m
<1>4. ASSUME NEW i \in 1 .. n
      PROVE  T[i] \in Seq(Cell) /\ DOMAIN T[i] = 1 .. m[i] /\ \A k \in 1 .. m[i] : T[i][k] = CellAt(t, keep(i)[k])
  <2>1. T[i] = [k \in 1 .. m[i] |-> CellAt(t, keep(i)[k])]
    BY <1>1, <1>2, <1>3
  <2>2. \A k \in 1 .. m[i] : CellAt(t, keep(i)[k]) \in Cell
    BY <1>2, PlacesOf
  <2>3. T[i] \in [1 .. m[i] -> Cell]
    BY <2>1, <2>2
  <2> QED BY <1>2, <2>1, <2>3, ListIsSeq
<1>5. T \in Tables /\ Len(T) = n /\ DOMAIN T = 1 .. n
  <2>1. T \in [1 .. n -> Seq(Cell)]
    BY <1>1, <1>3, <1>4
  <2> HIDE DEF n
  <2> QED BY <1>1, <2>1, ListIsSeq DEF Tables
<1>6. \A p : p \in Places(T) <=> p = <<p[1], p[2]>> /\ p[1] \in 1 .. n /\ p[2] \in 1 .. m[p[1]]
  <2>1. \A i \in 1 .. n : DOMAIN T[i] = 1 .. m[i]
    BY <1>4
  <2> HIDE DEF n
  <2> QED BY <1>5, <2>1, PlacesAre
<1> DEFINE o == [p \in Places(T) |-> keep(p[1])[p[2]]]
<1>7. TextFrom(T, t, o)
  <2>1. ASSUME NEW p \in Places(T)
        PROVE  o[p] \in Places(t) /\ o[p][1] = p[1] /\ CellAt(T, p) = CellAt(t, o[p])
    <3>1. p[1] \in 1 .. n /\ p[2] \in 1 .. m[p[1]]
      BY <1>6
    <3>2. o[p] = keep(p[1])[p[2]]
      OBVIOUS
    <3>3. o[p] \in Places(t) /\ o[p][1] = p[1]
      BY <1>2, <3>1, <3>2
    <3>4. CellAt(T, p) = T[p[1]][p[2]]
      BY DEF CellAt
    <3>5. T[p[1]][p[2]] = CellAt(t, keep(p[1])[p[2]])
      BY <1>4, <3>1
    <3> QED BY <3>2, <3>3, <3>4, <3>5
  <2>2. ASSUME NEW p \in Places(T), NEW q \in Places(T), o[p] = o[q] PROVE p = q
    <3>1. p = <<p[1], p[2]>> /\ p[1] \in 1 .. n /\ p[2] \in 1 .. m[p[1]]
      BY <1>6
    <3>2. q = <<q[1], q[2]>> /\ q[1] \in 1 .. n /\ q[2] \in 1 .. m[q[1]]
      BY <1>6
    <3>3. p[1] = q[1]
      <4> HIDE DEF o
      <4> QED BY <2>1, <2>2
    <3>4. keep(p[1])[p[2]] = keep(p[1])[q[2]]
      BY <2>2, <3>3
    <3> DEFINE i == p[1]
               k == keep(i)
    <3>5. ~ (p[2] < q[2]) /\ ~ (q[2] < p[2])
      <4>1. i \in 1 .. n /\ p[2] \in 1 .. m[i] /\ q[2] \in 1 .. m[i] /\ k[p[2]] = k[q[2]]
        BY <3>1, <3>2, <3>3, <3>4
      <4>2. \A a, b \in 1 .. m[i] : a < b => k[a] # k[b]
        BY <1>2, <4>1
      <4> HIDE DEF i, k
      <4> QED BY <4>1, <4>2
    <3>6. p[2] = q[2]
      BY <1>2, <3>1, <3>2, <3>3, <3>5
    <3> QED BY <3>1, <3>2, <3>3, <3>6
  <2> HIDE DEF o
  <2> QED BY <1>5, <2>1, <2>2 DEF TextFrom
<1> HIDE DEF o
<1>8. ASSUME NEW i \in 1 .. Len(t)
      PROVE  /\ Len(T[i]) = Cardinality(Left(i))
             /\ \A j \in 1 .. Len(T[i]) : \E k \in 1 .. Len(t[i]) : T[i][j] = t[i][k]
  <2>0. i \in 1 .. n
    BY DEF n
  <2>1. Len(T[i]) = m[i]
    <3>1. m[i] \in Nat /\ T[i] \in Seq(Cell) /\ DOMAIN T[i] = 1 .. m[i]
      BY <1>2, <1>4, <2>0
    <3>2. T[i] \in [1 .. m[i] -> Cell]
      BY <3>1, LenProperties
    <3> QED BY <3>1, <3>2, ListIsSeq
  <2>2. m[i] = Cardinality(Left(i))
    BY <1>1, <2>0 DEF m
  <2>3. ASSUME NEW j \in 1 .. Len(T[i]) PROVE \E k \in 1 .. Len(t[i]) : T[i][j] = t[i][k]
    <3>1. T[i][j] = CellAt(t, keep(i)[j]) /\ keep(i)[j] \in Places(t) /\ keep(i)[j][1] = i
      BY <1>2, <1>4, <2>0, <2>1, <2>3
    <3>2. keep(i)[j][2] \in 1 .. Len(t[i])
      BY <3>1, PlacesOf
    <3> QED BY <3>1, <3>2 DEF CellAt
  <2> QED BY <2>1, <2>2, <2>3
<1>9. Inherits(T, t)
  BY <1>7, TextInherited
<1>10. \A i : Left(i) = LeftIn(t, S, i)
  BY DEF LeftIn
<1> QED BY <1>1, <1>5, <1>8, <1>9, <1>10 DEF T, n

\* Rows are taken out.
LEMMA WithoutRowsIs ==
    ASSUME NEW t \in Tables, NEW rows
    PROVE  /\ Inherits(WithoutRows(t, rows), t)
           /\ \A k \in 1 .. Len(WithoutRows(t, rows)) :
                 \E i \in (1 .. Len(t)) \ rows : WithoutRows(t, rows)[k] = t[i]
<1> DEFINE T == WithoutRows(t, rows)
           L == (DOMAIN t \ rows) \X {0}
           keep == InOrder(L)
           n == Cardinality(L)
<1>1. Len(t) \in Nat /\ DOMAIN t = 1 .. Len(t) /\ \A i \in 1 .. Len(t) : t[i] \in Seq(Cell)
  BY TableIs
<1>2. L \in SUBSET (Int \X Int) /\ IsFiniteSet(L)
  <2>1. 1 \in Int /\ Len(t) \in Int
    BY <1>1
  <2>2. IsFiniteSet(1 .. Len(t))
    BY <2>1, FS_Interval
  <2> DEFINE R == DOMAIN t \ rows
             Z == {0}
  <2>3. IsFiniteSet(R)
    BY <1>1, <2>2, FS_Subset
  <2>4. IsFiniteSet(Z)
    BY FS_Singleton
  <2>5. IsFiniteSet(R \X Z)
    <3> HIDE DEF R, Z
    <3> QED BY <2>3, <2>4, FS_Product
  <2> QED BY <1>1, <2>5
<1>3. \A x \in L : x = <<x[1], 0>> /\ x[1] \in 1 .. Len(t)
  BY <1>1
<1> HIDE DEF L
<1>4. n \in Nat /\ Lists(keep, L)
  BY <1>2, InOrderLists
<1>5. DOMAIN keep = 1 .. n /\ \A k \in 1 .. n : keep[k] \in L
  BY <1>4 DEF Lists
<1>6. \A k, l \in 1 .. n : k < l => keep[k] # keep[l]
  BY <1>2, <1>4, PrecedesOrders DEF Lists
<1>7. T = [k \in DOMAIN keep |-> t[keep[k][1]]]
  BY DEF WithoutRows, L
<1> HIDE DEF T, keep, n
<1>8. T \in Tables /\ DOMAIN T = 1 .. n /\ \A k \in 1 .. n : T[k] = t[keep[k][1]]
  <2>1. T \in [1 .. n -> Seq(Cell)]
    BY <1>1, <1>3, <1>5, <1>7
  <2> QED BY <1>4, <1>5, <1>7, <2>1, ListIsSeq DEF Tables
<1> DEFINE o == [p \in Places(T) |-> <<keep[p[1]][1], p[2]>>]
<1>9. TextFrom(T, t, o)
  <2>1. \A p : p \in Places(T) <=> p = <<p[1], p[2]>> /\ p[1] \in 1 .. n /\ p[2] \in DOMAIN T[p[1]]
    BY <1>8 DEF Places
  <2>2. \A p : p \in Places(t) <=> p = <<p[1], p[2]>> /\ p[1] \in 1 .. Len(t) /\ p[2] \in DOMAIN t[p[1]]
    BY <1>1 DEF Places
  <2>3. ASSUME NEW p \in Places(T)
        PROVE  o[p] \in Places(t) /\ CellAt(T, p) = CellAt(t, o[p])
    <3>1. p[1] \in 1 .. n /\ p[2] \in DOMAIN T[p[1]] /\ T[p[1]] = t[keep[p[1]][1]] /\ keep[p[1]][1] \in 1 .. Len(t)
      BY <1>3, <1>5, <1>8, <2>1
    <3>2. o[p] = <<keep[p[1]][1], p[2]>>
      OBVIOUS
    <3> HIDE DEF o
    <3> QED BY <2>2, <3>1, <3>2 DEF CellAt
  <2>4. ASSUME NEW p \in Places(T), NEW q \in Places(T), o[p] = o[q] PROVE p = q
    <3>1. p = <<p[1], p[2]>> /\ p[1] \in 1 .. n /\ q = <<q[1], q[2]>> /\ q[1] \in 1 .. n
      BY <2>1
    <3>2. keep[p[1]][1] = keep[q[1]][1] /\ p[2] = q[2]
      BY <2>4
    <3>3. keep[p[1]] = keep[q[1]]
      BY <1>3, <1>5, <3>1, <3>2
    <3>4. ~ (p[1] < q[1]) /\ ~ (q[1] < p[1])
      BY <1>6, <3>1, <3>3
    <3>5. p[1] = q[1]
      BY <1>4, <3>1, <3>4
    <3> QED BY <3>1, <3>2, <3>5
  <2> HIDE DEF o
  <2> QED BY <1>8, <2>3, <2>4 DEF TextFrom
<1> HIDE DEF o
<1>10. ASSUME NEW k \in 1 .. Len(T) PROVE \E i \in (1 .. Len(t)) \ rows : T[k] = t[i]
  <2>1. k \in 1 .. n
    BY <1>4, <1>8, ListIsSeq, TableIs
  <2>2. keep[k] \in L /\ T[k] = t[keep[k][1]]
    BY <1>5, <1>8, <2>1
  <2>3. keep[k][1] \in (1 .. Len(t)) \ rows
    BY <1>1, <2>2 DEF L
  <2> QED BY <2>2, <2>3
<1>11. Inherits(T, t)
  BY <1>9, TextInherited
<1> QED BY <1>10, <1>11 DEF T

----------------------------------------------------------------------------
(* The commands that do not use the map                                    *)

\* What two steps after each other keep.
LEMMA KeepsChain ==
    ASSUME NEW a, NEW b, NEW c, Keeps(b, a), Keeps(c, b)
    PROVE  Keeps(c, a)
BY DEF Keeps, Inherits

\* Deleting rows moves no text.
LEMMA DeleteRowsIs ==
    ASSUME NEW t \in Tables, NEW S
    PROVE  Inherits(DeleteRows(t, S), t)
BY WithoutRowsIs DEF DeleteRows

\* Deleting cells moves no text.
LEMMA DeleteCellsIs ==
    ASSUME NEW t \in Tables, NEW S
    PROVE  Inherits(DeleteCells(t, S), t)
<1> DEFINE u == Without(t, S)
           emptied == {i \in DOMAIN t : t[i] # <<>> /\ u[i] = <<>>}
<1>1. Inherits(u, t) /\ u \in Tables
  BY WithoutIs DEF Inherits
<1>2. DeleteCells(t, S) = WithoutRows(u, emptied)
  BY DEF DeleteCells
<1> HIDE DEF u, emptied
<1> QED BY <1>1, <1>2, WithoutRowsIs, InheritsChain

\* Deleting columns moves no text.
LEMMA DeleteColumnsIs ==
    ASSUME NEW t \in Tables, NEW S
    PROVE  Inherits(DeleteColumns(t, S), t)
<1>1. \A X : Inherits(DeleteCells(t, X), t)
  BY DeleteCellsIs
<1> QED BY <1>1 DEF DeleteColumns

\* A cell without its text is a cell of the same spans.
LEMMA TextCleared ==
    ASSUME NEW x \in Cell
    PROVE  /\ [x EXCEPT !.text = {}] \in Cell
           /\ [x EXCEPT !.text = {}] = TableCell(x.colSpan, x.rowSpan, {})
           /\ [x EXCEPT !.text = {}].text = {}
<1>1. x = [colSpan |-> x.colSpan, rowSpan |-> x.rowSpan, text |-> x.text]
      /\ x.colSpan \in Nat \ {0} /\ x.rowSpan \in Nat \ {0}
  BY DEF Cell
<1>2. [x EXCEPT !.text = {}] = [colSpan |-> x.colSpan, rowSpan |-> x.rowSpan, text |-> {}]
  BY <1>1
<1> QED BY <1>1, <1>2 DEF Cell, TableCell

\* A row without its text has the same cells.
LEMMA ClearedIs ==
    ASSUME NEW row \in Seq(Cell)
    PROVE  /\ Cleared(row) \in Seq(Cell)
           /\ Len(Cleared(row)) = Len(row)
           /\ \A j \in 1 .. Len(row) :
                 Cleared(row)[j] = TableCell(row[j].colSpan, row[j].rowSpan, {})
<1>1. Len(row) \in Nat /\ DOMAIN row = 1 .. Len(row) /\ \A j \in 1 .. Len(row) : row[j] \in Cell
  OBVIOUS
<1>2. \A x \in Cell : [x EXCEPT !.text = {}] \in Cell /\ [x EXCEPT !.text = {}] = TableCell(x.colSpan, x.rowSpan, {})
  BY TextCleared
<1>3. Cleared(row) \in [1 .. Len(row) -> Cell]
  BY <1>1, <1>2 DEF Cleared
<1> QED BY <1>1, <1>2, <1>3, ListIsSeq DEF Cleared

\* A new row is a copy without text.
LEMMA InsertRowIs ==
    ASSUME NEW t \in Tables, NEW r \in 1 .. Len(t), NEW before \in BOOLEAN
    PROVE  /\ Keeps(InsertRow(t, r, before), t)
           /\ InsertRow(t, r, before) = InsertAt(t, IF before THEN r ELSE r + 1, Cleared(t[r]))
<1> DEFINE n == Len(t)
           i == IF before THEN r ELSE r + 1
           row == Cleared(t[r])
           a == InsertAt(t, r, t[r])
           b == InsertAt(t, i, row)
           Q == Seq(Cell)
<1>1. n \in Nat /\ DOMAIN t = 1 .. n /\ t[r] \in Seq(Cell) /\ t \in Seq(Q)
  BY TableIs
<1>2. row \in Q /\ \A j \in 1 .. Len(row) : row[j].text = {}
  <2> DEFINE s == t[r]
  <2> HIDE DEF s
  <2>1. s \in Seq(Cell)
    BY <1>1 DEF s
  <2>2. /\ Cleared(s) \in Seq(Cell) /\ Len(Cleared(s)) = Len(s)
        /\ \A j \in 1 .. Len(s) : Cleared(s)[j] = TableCell(s[j].colSpan, s[j].rowSpan, {})
    BY <2>1, ClearedIs
  <2>3. \A x, y : TableCell(x, y, {}).text = {}
    BY DEF TableCell
  <2> QED BY <2>2, <2>3 DEF s, row, Q
<1>3. i \in 1 .. n + 1 /\ r \in 1 .. n + 1
  BY <1>1
<1> HIDE DEF i, row, Q
<1>4. /\ a \in Seq(Q) /\ Len(a) = n + 1 /\ DOMAIN a = 1 .. n + 1
      /\ \A k \in 1 .. n + 1 : a[k] = IF k < r THEN t[k] ELSE IF k = r THEN t[r] ELSE t[k - 1]
  <2>1. t[r] \in Q
    BY <1>1 DEF Q
  <2>2. /\ InsertAt(t, r, t[r]) \in Seq(Q) /\ Len(InsertAt(t, r, t[r])) = Len(t) + 1
        /\ DOMAIN InsertAt(t, r, t[r]) = 1 .. Len(t) + 1
        /\ \A k \in 1 .. Len(t) + 1 :
              InsertAt(t, r, t[r])[k] = IF k < r THEN t[k] ELSE IF k = r THEN t[r] ELSE t[k - 1]
    <3> DEFINE e == t[r]
    <3>1. t \in Seq(Q) /\ r \in 1 .. Len(t) + 1 /\ e \in Q
      BY <1>1, <1>3, <2>1
    <3> HIDE DEF e, a, n
    <3>2. /\ InsertAt(t, r, e) \in Seq(Q) /\ Len(InsertAt(t, r, e)) = Len(t) + 1
          /\ DOMAIN InsertAt(t, r, e) = 1 .. Len(t) + 1
          /\ \A k \in 1 .. Len(t) + 1 :
                InsertAt(t, r, e)[k] = IF k < r THEN t[k] ELSE IF k = r THEN e ELSE t[k - 1]
      BY <3>1, InsertAtIs
    <3> QED BY <3>2 DEF e
  <2> HIDE DEF a
  <2> QED BY <2>2 DEF a
<1>5. /\ b \in Seq(Q) /\ Len(b) = n + 1 /\ DOMAIN b = 1 .. n + 1
      /\ \A k \in 1 .. n + 1 : b[k] = IF k < i THEN t[k] ELSE IF k = i THEN row ELSE t[k - 1]
  <2>1. t \in Seq(Q) /\ i \in 1 .. Len(t) + 1 /\ row \in Q
    BY <1>1, <1>2, <1>3
  <2> HIDE DEF a, b, n
  <2>2. /\ InsertAt(t, i, row) \in Seq(Q) /\ Len(InsertAt(t, i, row)) = Len(t) + 1
        /\ DOMAIN InsertAt(t, i, row) = 1 .. Len(t) + 1
        /\ \A k \in 1 .. Len(t) + 1 :
              InsertAt(t, i, row)[k] = IF k < i THEN t[k] ELSE IF k = i THEN row ELSE t[k - 1]
    BY <2>1, InsertAtIs
  <2> QED BY <2>2 DEF b, n
<1> HIDE DEF a, b
<1>6. a[i] = t[r]
  BY <1>1, <1>3, <1>4 DEF i
<1>7. InsertRow(t, r, before) = [a EXCEPT ![i] = row]
  <2>1. InsertRow(t, r, before) = [a EXCEPT ![i] = Cleared(@)]
    BY DEF InsertRow, a, i
  <2> QED BY <1>6, <2>1 DEF row
<1>8. [a EXCEPT ![i] = row] = b
  <2> DEFINE c == [a EXCEPT ![i] = row]
  <2>1. a \in [1 .. n + 1 -> Q] /\ b \in [1 .. n + 1 -> Q]
    BY <1>4, <1>5, LenProperties
  <2>2. c \in [1 .. n + 1 -> Q]
    BY <1>2, <2>1
  <2>3. \A k \in 1 .. n + 1 : c[k] = b[k]
    BY <1>1, <1>3, <1>4, <1>5 DEF i
  <2> DEFINE D == 1 .. n + 1
  <2>4. b \in [D -> Q] /\ c \in [D -> Q] /\ \A k \in D : c[k] = b[k]
    BY <2>1, <2>2, <2>3
  <2> HIDE DEF c, D
  <2>5. c = b
    BY <2>4
  <2> QED BY <2>5 DEF c
<1>9. Keeps(b, t)
  <2> HIDE DEF n
  <2>1. i \in 1 .. Len(t) + 1 /\ row \in Seq(Cell)
    BY <1>2, <1>3 DEF n, Q
  <2> QED BY <1>2, <2>1, RowInserted DEF b
<1> QED BY <1>7, <1>8, <1>9 DEF b, i, row

\* New cells are copies without text.
LEMMA InsertColumnIs ==
    ASSUME NEW t \in Tables, NEW p \in Places(t), NEW before \in BOOLEAN
    PROVE  Keeps(InsertColumn(t, p, before), t)
<1> DEFINE R == {i \in DOMAIN t : ~ (Len(t[i]) < p[2])}
           at == [i \in R |-> IF before THEN p[2] ELSE p[2] + 1]
           e == [i \in R |-> [t[i][p[2]] EXCEPT !.text = {}]]
           T == Inserted(t, R, at, e)
<1>1. DOMAIN t = 1 .. Len(t) /\ \A i \in 1 .. Len(t) : t[i] \in Seq(Cell)
  BY TableIs
<1>2. p[2] \in Nat \ {0}
  BY PlacesOf DEF Position
<1>3. ASSUME NEW i \in R PROVE at[i] \in 1 .. Len(t[i]) + 1 /\ e[i] \in Cell /\ e[i].text = {}
  <2>1. t[i] \in Seq(Cell) /\ p[2] <= Len(t[i]) /\ Len(t[i]) \in Nat
    BY <1>1, <1>2
  <2>2. t[i][p[2]] \in Cell
    BY <1>2, <2>1
  <2> QED BY <1>2, <2>1, <2>2, TextCleared
<1>4. InsertColumn(t, p, before) = T
  BY DEF InsertColumn, Inserted
<1>5. Keeps(T, t)
  <2> HIDE DEF at, e, R
  <2>1. \A i \in R \cap DOMAIN t : at[i] \in 1 .. Len(t[i]) + 1 /\ e[i] \in Cell /\ e[i].text = {}
    BY <1>3
  <2> QED BY <2>1, CellsInserted
<1> QED BY <1>4, <1>5

\* Inserting a cell keeps all text.
LEMMA InsertCellIs ==
    ASSUME NEW t \in Tables, NEW p \in Places(t), NEW before \in BOOLEAN
    PROVE  Keeps(InsertCell(t, p, before), t)
<1> DEFINE R == {p[1]}
           at == [i \in R |-> IF before THEN p[2] ELSE p[2] + 1]
           e == [i \in R |-> EmptyCell]
           T == Inserted(t, R, at, e)
<1>1. DOMAIN t = 1 .. Len(t) /\ \A i \in 1 .. Len(t) : t[i] \in Seq(Cell)
  BY TableIs
<1>2. p[2] \in 1 .. Len(t[p[1]]) /\ p[1] \in 1 .. Len(t) /\ p[2] \in Nat
  BY PlacesOf
<1>3. ASSUME NEW i \in R PROVE at[i] \in 1 .. Len(t[i]) + 1 /\ e[i] \in Cell /\ e[i].text = {}
  <2>1. Len(t[i]) \in Nat
    BY <1>1, <1>2
  <2> QED BY <1>2, <2>1 DEF Cell, EmptyCell, TableCell
<1>4. InsertCell(t, p, before) = T
  BY <1>1, <1>2 DEF InsertCell, Inserted
<1>5. Keeps(T, t)
  <2> HIDE DEF at, e, R
  <2>1. \A i \in R \cap DOMAIN t : at[i] \in 1 .. Len(t[i]) + 1 /\ e[i] \in Cell /\ e[i].text = {}
    BY <1>3
  <2> QED BY <2>1, CellsInserted
<1> QED BY <1>4, <1>5

\* A cell with another height.
LEMMA HeightChanged ==
    ASSUME NEW x \in Cell, NEW h \in Nat \ {0}
    PROVE  /\ [x EXCEPT !.rowSpan = h] \in Cell
           /\ [x EXCEPT !.rowSpan = h] = TableCell(x.colSpan, h, x.text)
           /\ [x EXCEPT !.rowSpan = h].text = x.text
           /\ [x EXCEPT !.rowSpan = h].colSpan = x.colSpan
           /\ [x EXCEPT !.rowSpan = h].rowSpan = h
<1>1. /\ x = [colSpan |-> x.colSpan, rowSpan |-> x.rowSpan, text |-> x.text]
      /\ x.colSpan \in Nat \ {0} /\ x.text \in SUBSET Place
  BY DEF Cell
<1>2. [x EXCEPT !.rowSpan = h] = [colSpan |-> x.colSpan, rowSpan |-> h, text |-> x.text]
  BY <1>1
<1> QED BY <1>1, <1>2 DEF Cell, TableCell

\* A table whose cells have other heights.
Heights(t, h) == [i \in DOMAIN t |-> [j \in DOMAIN t[i] |-> [t[i][j] EXCEPT !.rowSpan = h[<<i, j>>]]]]

\* Other heights change nothing but the spans.
LEMMA HeightsAre ==
    ASSUME NEW t \in Tables, NEW h, \A p \in Places(t) : h[p] \in Nat \ {0}
    PROVE  /\ Keeps(Heights(t, h), t)
           /\ Places(Heights(t, h)) = Places(t)
           /\ Len(Heights(t, h)) = Len(t)
           /\ \A i \in 1 .. Len(t) : Len(Heights(t, h)[i]) = Len(t[i])
           /\ \A p \in Places(t) : /\ CellAt(Heights(t, h), p) \in Cell
                                   /\ CellAt(Heights(t, h), p).rowSpan = h[p]
                                   /\ CellAt(Heights(t, h), p).colSpan = CellAt(t, p).colSpan
                                   /\ CellAt(Heights(t, h), p).text = CellAt(t, p).text
<1> DEFINE T == Heights(t, h)
<1>1. DOMAIN t = 1 .. Len(t) /\ \A i \in 1 .. Len(t) : t[i] \in Seq(Cell) /\ DOMAIN t[i] = 1 .. Len(t[i])
  <2>1. DOMAIN t = 1 .. Len(t) /\ \A i \in 1 .. Len(t) : t[i] \in Seq(Cell)
    BY TableIs
  <2> QED BY <2>1
<1>2. \A p : p \in Places(t) <=> p = <<p[1], p[2]>> /\ p[1] \in 1 .. Len(t) /\ p[2] \in DOMAIN t[p[1]]
  BY <1>1 DEF Places
<1>3. ASSUME NEW p \in Places(t)
      PROVE  /\ T[p[1]][p[2]] = [t[p[1]][p[2]] EXCEPT !.rowSpan = h[p]]
             /\ t[p[1]][p[2]] = CellAt(t, p)
             /\ T[p[1]][p[2]] = CellAt(T, p)
             /\ t[p[1]][p[2]] \in Cell
  BY <1>1, <1>2, PlacesOf DEF Heights, CellAt
<1>4. ASSUME NEW p \in Places(t)
      PROVE  /\ CellAt(T, p) \in Cell
             /\ CellAt(T, p).rowSpan = h[p]
             /\ CellAt(T, p).colSpan = CellAt(t, p).colSpan
             /\ CellAt(T, p).text = CellAt(t, p).text
  <2> DEFINE x == CellAt(t, p)
             g == h[p]
  <2>1. CellAt(T, p) = [x EXCEPT !.rowSpan = g] /\ x \in Cell /\ g \in Nat \ {0}
    BY <1>3
  <2> HIDE DEF T, x, g
  <2>2. /\ CellAt(T, p) \in Cell /\ CellAt(T, p).rowSpan = g
        /\ CellAt(T, p).colSpan = x.colSpan /\ CellAt(T, p).text = x.text
    BY <2>1, HeightChanged
  <2> QED BY <2>2 DEF x, g
<1>5. /\ DOMAIN T = DOMAIN t /\ T = [i \in DOMAIN T |-> T[i]]
      /\ \A i \in DOMAIN t : DOMAIN T[i] = DOMAIN t[i] /\ T[i] = [j \in DOMAIN T[i] |-> T[i][j]]
  BY DEF Heights
<1> HIDE DEF T
<1>6. SameShape(T, t)
  <2> SUFFICES ASSUME NEW i \in DOMAIN t, NEW j \in DOMAIN t[i] PROVE T[i][j] \in Cell
    BY <1>5 DEF SameShape
  <2>1. <<i, j>> \in Places(t)
    BY <1>1, <1>2
  <2> QED BY <1>4, <2>1 DEF CellAt
<1>7. T \in Tables /\ Places(T) = Places(t) /\ Len(T) = Len(t)
  BY <1>5, <1>6, SameShapeIs
<1>8. Keeps(T, t)
  BY <1>4, <1>7, SameText
<1>9. ASSUME NEW i \in 1 .. Len(t) PROVE Len(T[i]) = Len(t[i])
  <2>1. T[i] \in Seq(Cell)
    BY <1>7, TableIs
  <2>2. DOMAIN T[i] = 1 .. Len(T[i]) /\ Len(T[i]) \in Nat
    BY <2>1
  <2>3. DOMAIN T[i] = 1 .. Len(t[i]) /\ Len(t[i]) \in Nat
    BY <1>1, <1>5
  <2> QED BY <2>2, <2>3
<1> QED BY <1>4, <1>7, <1>8, <1>9 DEF T

\* Where the lower half of a cell goes.
LowerRow(t, ref) == ref[1] + Half(CellAt(t, ref).rowSpan)
LaterCells(t, map, ref) ==
    {c \in CellColumn(map, ref) + 1 .. RowEnd(map, LowerRow(t, ref)) :
        <<LowerRow(t, ref), c>> \in DOMAIN map => map[<<LowerRow(t, ref), c>>][1] = LowerRow(t, ref)}
LowerIndex(t, map, ref) ==
    IF LaterCells(t, map, ref) = {} THEN Len(t[LowerRow(t, ref)]) + 1
    ELSE map[<<LowerRow(t, ref), Min(LaterCells(t, map, ref))>>][2]
LowerCell(t, ref) ==
    TableCell(1, CellAt(t, ref).rowSpan - Half(CellAt(t, ref).rowSpan), {})
Shortened(t, ref) ==
    Heights(t, [p \in Places(t) |-> IF p = ref THEN Half(CellAt(t, ref).rowSpan) ELSE CellAt(t, p).rowSpan])
SplitRowsThrows(t, map, ref) ==
    \/ LowerRow(t, ref) > Len(t)
    \/ LaterCells(t, map, ref) # {} /\ <<LowerRow(t, ref), Min(LaterCells(t, map, ref))>> \notin DOMAIN map

\* Both halves of a span are positive.
LEMMA HalfIs ==
    ASSUME NEW n \in Nat, n > 1
    PROVE  Half(n) \in Nat \ {0} /\ n - Half(n) \in Nat \ {0}
BY DEF Half

\* Splitting a cell of several rows keeps all text, also where it throws.
LEMMA SplitRowsIs ==
    ASSUME NEW t \in Tables, NEW map, Laid(map, t), NEW ref \in Places(t), CellAt(t, ref).rowSpan > 1
    PROVE  /\ Keeps(SplitRows(t, map, ref), t)
           /\ SplitRowsThrows(t, map, ref) => SplitRows(t, map, ref) = Shortened(t, ref)
           /\ ~ SplitRowsThrows(t, map, ref) =>
                /\ LowerRow(t, ref) \in 1 .. Len(t)
                /\ LowerIndex(t, map, ref) \in 1 .. Len(t[LowerRow(t, ref)]) + 1
                /\ SplitRows(t, map, ref) =
                    Inserted(Shortened(t, ref), {LowerRow(t, ref)},
                             [i \in {LowerRow(t, ref)} |-> LowerIndex(t, map, ref)],
                             [i \in {LowerRow(t, ref)} |-> LowerCell(t, ref)])
<1> DEFINE span == CellAt(t, ref).rowSpan
           row == LowerRow(t, ref)
           s == [t EXCEPT ![ref[1]][ref[2]].rowSpan = Half(span)]
           u == Shortened(t, ref)
           later == LaterCells(t, map, ref)
           at == [i \in {row} |-> LowerIndex(t, map, ref)]
           e == [i \in {row} |-> LowerCell(t, ref)]
           hs == [p \in Places(t) |-> IF p = ref THEN Half(span) ELSE CellAt(t, p).rowSpan]
<1>1. span \in Nat \ {0} /\ Half(span) \in Nat \ {0} /\ span - Half(span) \in Nat \ {0}
  <2>1. span \in Nat
    BY CellIs
  <2> HIDE DEF span
  <2> QED BY <2>1, HalfIs DEF span
<1>2. DOMAIN t = 1 .. Len(t) /\ Len(t) \in Nat /\ \A i \in 1 .. Len(t) : t[i] \in Seq(Cell) /\ DOMAIN t[i] = 1 .. Len(t[i])
  <2>1. DOMAIN t = 1 .. Len(t) /\ Len(t) \in Nat /\ \A i \in 1 .. Len(t) : t[i] \in Seq(Cell)
    BY TableIs
  <2> QED BY <2>1
<1>3. ref = <<ref[1], ref[2]>> /\ ref[1] \in 1 .. Len(t) /\ ref[2] \in 1 .. Len(t[ref[1]])
  BY PlacesOf
<1>4. \A p : p \in Places(t) <=> p = <<p[1], p[2]>> /\ p[1] \in 1 .. Len(t) /\ p[2] \in DOMAIN t[p[1]]
  BY <1>2 DEF Places
<1>5. s = u
  <2>1. DOMAIN s = 1 .. Len(t) /\ DOMAIN u = 1 .. Len(t)
    BY <1>2 DEF Shortened, Heights
  <2>2. ASSUME NEW i \in 1 .. Len(t) PROVE s[i] = u[i]
    <3>1. u[i] = [j \in DOMAIN t[i] |-> [t[i][j] EXCEPT !.rowSpan = hs[<<i, j>>]]]
      BY <1>2 DEF Shortened, Heights
    <3>2. CASE i = ref[1]
      <4>1. s[i] = [t[i] EXCEPT ![ref[2]] = [@ EXCEPT !.rowSpan = Half(span)]]
        BY <1>2, <3>2
      <4>2. t[i] = [j \in DOMAIN t[i] |-> t[i][j]]
        BY <1>2
      <4>3. DOMAIN s[i] = DOMAIN t[i] /\ DOMAIN u[i] = DOMAIN t[i]
        BY <3>1, <4>1
      <4>4. ASSUME NEW j \in DOMAIN t[i] PROVE s[i][j] = u[i][j]
        <5>1. <<i, j>> \in Places(t) /\ CellAt(t, <<i, j>>) = t[i][j]
          BY <1>4 DEF CellAt
        <5>2. CASE j = ref[2]
          BY <1>3, <3>1, <3>2, <4>1, <5>1, <5>2
        <5>3. CASE j # ref[2]
          <6>1. s[i][j] = t[i][j]
            BY <4>1, <5>3
          <6>2. hs[<<i, j>>] = t[i][j].rowSpan
            BY <3>2, <5>1, <5>3
          <6>3. u[i][j] = [t[i][j] EXCEPT !.rowSpan = t[i][j].rowSpan]
            BY <3>1, <6>2
          <6>4. t[i][j] \in Cell
            BY <1>2
          <6>5. [t[i][j] EXCEPT !.rowSpan = t[i][j].rowSpan] = t[i][j]
            BY <6>4 DEF Cell
          <6> QED BY <6>1, <6>3, <6>5
        <5> QED BY <5>2, <5>3
      <4>5. s[i] = [j \in DOMAIN t[i] |-> s[i][j]]
        BY <4>1, <4>2
      <4>6. u[i] = [j \in DOMAIN t[i] |-> u[i][j]]
        BY <3>1
      <4> HIDE DEF s, u
      <4> QED BY <4>4, <4>5, <4>6
    <3>3. CASE i # ref[1]
      <4>1. s[i] = t[i]
        BY <1>2, <3>3
      <4>2. ASSUME NEW j \in DOMAIN t[i] PROVE u[i][j] = t[i][j]
        <5>1. <<i, j>> \in Places(t) /\ CellAt(t, <<i, j>>) = t[i][j] /\ t[i][j] \in Cell
          BY <1>2, <1>4 DEF CellAt
        <5>2. <<i, j>> # ref
          BY <3>3
        <5>3. hs[<<i, j>>] = t[i][j].rowSpan
          BY <5>1, <5>2
        <5>4. [t[i][j] EXCEPT !.rowSpan = t[i][j].rowSpan] = t[i][j]
          BY <5>1 DEF Cell
        <5> QED BY <3>1, <5>3, <5>4
      <4>3. t[i] = [j \in DOMAIN t[i] |-> t[i][j]]
        BY <1>2
      <4> QED BY <3>1, <4>1, <4>2, <4>3
    <3> QED BY <3>2, <3>3
  <2>3. s = [i \in 1 .. Len(t) |-> s[i]] /\ u = [i \in 1 .. Len(t) |-> u[i]]
    BY <1>2 DEF Shortened, Heights
  <2> HIDE DEF s, u
  <2> QED BY <2>1, <2>2, <2>3
<1>6. \A p \in Places(t) : hs[p] \in Nat \ {0}
  <2> HIDE DEF span
  <2> QED BY <1>1, CellIs
<1>7. Keeps(u, t) /\ u \in Tables /\ Len(u) = Len(t) /\ \A i \in 1 .. Len(t) : Len(u[i]) = Len(t[i])
  <2>1. u = Heights(t, hs)
    BY DEF Shortened
  <2> HIDE DEF u, hs
  <2> QED BY <1>6, <2>1, HeightsAre DEF Keeps, Inherits
<1> DEFINE place == IF later = {} THEN Len(t[row]) + 1 ELSE map[<<row, Min(later)>>][2]
           throws == row > Len(t) \/ (later # {} /\ <<row, Min(later)>> \notin DOMAIN map)
           f == TableCell(1, span - Half(span), {})
<1>8. SplitRows(t, map, ref) =
        IF throws THEN s
        ELSE [s EXCEPT ![row] = InsertAt(@, IF later = {} THEN Len(@) + 1 ELSE map[<<row, Min(later)>>][2], f)]
  BY DEF SplitRows, LowerRow, LaterCells
<1>9. throws <=> SplitRowsThrows(t, map, ref)
  BY DEF SplitRowsThrows
<1>10. place = LowerIndex(t, map, ref) /\ f = LowerCell(t, ref)
  BY DEF LowerIndex, LowerCell
<1>11. f \in Cell /\ f.text = {}
  <2> HIDE DEF span
  <2> QED BY <1>1 DEF TableCell, Cell
<1>12. later \in SUBSET Nat /\ \A c \in later : <<row, c>> \in DOMAIN map => map[<<row, c>>][1] = row
  <2>1. CellColumn(map, ref) \in Nat /\ RowEnd(map, row) \in Nat
    BY RowEndIs DEF Laid
  <2> HIDE DEF row
  <2> QED BY <2>1 DEF LaterCells, row
<1> HIDE DEF s, u, span, later, f
<1>13. ASSUME ~ throws
       PROVE  row \in 1 .. Len(t) /\ place \in 1 .. Len(t[row]) + 1
  <2>1. row \in Nat \ {0}
    BY <1>1, <1>2, <1>3 DEF LowerRow, span
  <2>2. row \in 1 .. Len(t)
    BY <1>2, <1>13, <2>1
  <2>3. Len(t[row]) \in Nat
    BY <1>2, <2>2
  <2>4. CASE later = {}
    <3>1. place = Len(t[row]) + 1
      BY <2>4
    <3> HIDE DEF place, row
    <3>2. place \in 1 .. Len(t[row]) + 1
      BY <2>3, <3>1
    <3> QED BY <2>2, <3>2
  <2>5. CASE later # {}
    <3> DEFINE c == Min(later)
    <3>1. <<row, c>> \in DOMAIN map
      BY <1>13, <2>5
    <3>2. map[<<row, c>>] \in Places(t)
      BY <3>1 DEF Laid, IsMap
    <3>3. c \in later
      <4> HIDE DEF row
      <4> QED BY <1>12, <2>5, MinOf
    <3>4. map[<<row, c>>][1] = row
      BY <1>12, <3>1, <3>3
    <3> DEFINE q == map[<<row, c>>]
    <3>5. q[2] \in 1 .. Len(t[row])
      <4> HIDE DEF q
      <4>1. q[2] \in 1 .. Len(t[q[1]]) /\ q[1] = row
        BY <3>2, <3>4, PlacesOf DEF q
      <4> QED BY <4>1
    <3>6. place = q[2]
      BY <2>5
    <3> QED BY <2>2, <2>3, <3>5, <3>6
  <2> QED BY <2>2, <2>4, <2>5
<1>14. ASSUME ~ throws
       PROVE  SplitRows(t, map, ref) = Inserted(u, {row}, at, e)
  <2>1. row \in 1 .. Len(t) /\ DOMAIN u = 1 .. Len(t) /\ Len(u[row]) = Len(t[row])
    <3>1. DOMAIN u = 1 .. Len(u)
      BY <1>7, TableIs
    <3> QED BY <1>7, <1>13, <1>14, <3>1
  <2>2. SplitRows(t, map, ref) = [u EXCEPT ![row] = InsertAt(u[row], place, f)]
    BY <1>5, <1>8, <1>14, <2>1
  <2>3. at[row] = place /\ e[row] = f
    BY <1>10
  <2>4. u = [i \in 1 .. Len(t) |-> u[i]]
    BY <2>1, <1>7, TableIs
  <2> HIDE DEF at, e, place
  <2> QED BY <2>1, <2>2, <2>3, <2>4 DEF Inserted
<1>15. ASSUME ~ throws PROVE Keeps(SplitRows(t, map, ref), t)
  <2>1. Keeps(Inserted(u, {row}, at, e), u)
    <3>1. \A i \in {row} \cap DOMAIN u : at[i] \in 1 .. Len(u[i]) + 1 /\ e[i] \in Cell /\ e[i].text = {}
      <4>1. Len(u[row]) = Len(t[row])
        BY <1>7, <1>13, <1>15
      <4>2. at[row] = place /\ e[row] = f
        BY <1>10
      <4> HIDE DEF at, e, place, throws
      <4> QED BY <1>11, <1>13, <1>15, <4>1, <4>2
    <3> HIDE DEF at, e
    <3> QED BY <1>7, <3>1, CellsInserted
  <2> QED BY <1>7, <1>14, <1>15, <2>1, KeepsChain
<1>16. throws => SplitRows(t, map, ref) = u
  BY <1>5, <1>8
<1> HIDE DEF throws, place
<1> QED BY <1>7, <1>9, <1>10, <1>13, <1>14, <1>15, <1>16 DEF u

\* The table with the cells higher that cross the row.
Higher(t, map, ref) ==
    Heights(t, [p \in Places(t) |->
        IF p \in CrossingRow(t, map, ref) THEN CellAt(t, p).rowSpan + 1 ELSE CellAt(t, p).rowSpan])
SplitRowThrows(t, map, ref) ==
    Max(VisitedColumns(t, map, ref[1])) <= RowEnd(map, ref[1])

\* Splitting a cell of one row keeps all text, also where it throws.
LEMMA SplitRowIs ==
    ASSUME NEW t \in Tables, NEW map, NEW ref \in Places(t)
    PROVE  /\ Keeps(SplitRow(t, map, ref), t)
           /\ SplitRow(t, map, ref) =
                InsertAt(Higher(t, map, ref), ref[1] + 1,
                         IF SplitRowThrows(t, map, ref) THEN <<>> ELSE <<EmptyCell>>)
<1> DEFINE higher == CrossingRow(t, map, ref)
           hs == [p \in Places(t) |->
                    IF p \in higher THEN CellAt(t, p).rowSpan + 1 ELSE CellAt(t, p).rowSpan]
           u == Heights(t, hs)
           grown == [i \in DOMAIN t |-> [j \in DOMAIN t[i] |->
                       IF <<i, j>> \in higher THEN [t[i][j] EXCEPT !.rowSpan = @ + 1] ELSE t[i][j]]]
           row == IF SplitRowThrows(t, map, ref) THEN <<>> ELSE <<EmptyCell>>
<1>1. DOMAIN t = 1 .. Len(t) /\ Len(t) \in Nat /\ \A i \in 1 .. Len(t) : t[i] \in Seq(Cell) /\ DOMAIN t[i] = 1 .. Len(t[i])
  <2>1. DOMAIN t = 1 .. Len(t) /\ Len(t) \in Nat /\ \A i \in 1 .. Len(t) : t[i] \in Seq(Cell)
    BY TableIs
  <2> QED BY <2>1
<1>2. grown = u
  <2>1. ASSUME NEW i \in DOMAIN t, NEW j \in DOMAIN t[i]
        PROVE  (IF <<i, j>> \in higher THEN [t[i][j] EXCEPT !.rowSpan = @ + 1] ELSE t[i][j])
                  = [t[i][j] EXCEPT !.rowSpan = hs[<<i, j>>]]
    <3>1. <<i, j>> \in Places(t) /\ CellAt(t, <<i, j>>) = t[i][j] /\ t[i][j] \in Cell
      BY <1>1 DEF Places, CellAt
    <3>2. [t[i][j] EXCEPT !.rowSpan = t[i][j].rowSpan] = t[i][j]
      BY <3>1 DEF Cell
    <3> HIDE DEF higher
    <3> QED BY <3>1, <3>2
  <2> HIDE DEF higher, hs
  <2> QED BY <2>1 DEF Heights
<1>3. \A p \in Places(t) : hs[p] \in Nat \ {0}
  <2> HIDE DEF higher
  <2> QED BY CellIs
<1>4. Keeps(u, t) /\ u \in Tables /\ Len(u) = Len(t)
  <2> HIDE DEF hs
  <2> QED BY <1>3, HeightsAre DEF Keeps, Inherits
<1>5. SplitRow(t, map, ref) = InsertAt(grown, ref[1] + 1, row)
  BY DEF SplitRow, SplitRowThrows
<1>6. row \in Seq(Cell) /\ \A j \in 1 .. Len(row) : row[j].text = {}
  <2>1. EmptyCell \in Cell /\ EmptyCell.text = {}
    BY DEF EmptyCell, TableCell, Cell
  <2>2. <<>> \in Seq(Cell) /\ Len(<<>>) = 0
    OBVIOUS
  <2> DEFINE e == EmptyCell
  <2> HIDE DEF e
  <2>3. <<e>> \in Seq(Cell) /\ Len(<<e>>) = 1 /\ <<e>>[1] = e
    BY <2>1 DEF e
  <2>4. ASSUME NEW j \in 1 .. 1 PROVE <<e>>[j].text = {}
    <3>1. j = 1
      OBVIOUS
    <3> QED BY <2>1, <2>3, <3>1 DEF e
  <2>5. CASE SplitRowThrows(t, map, ref)
    <3>1. row = <<>>
      BY <2>5
    <3> HIDE DEF row
    <3> QED BY <2>2, <3>1
  <2>6. CASE ~ SplitRowThrows(t, map, ref)
    <3>1. row = <<e>>
      BY <2>6 DEF e
    <3> HIDE DEF row
    <3> QED BY <2>3, <2>4, <3>1
  <2> QED BY <2>5, <2>6
<1>7. ref[1] + 1 \in 1 .. Len(u) + 1
  <2>1. ref[1] \in 1 .. Len(t)
    BY PlacesOf
  <2> HIDE DEF u
  <2> QED BY <1>1, <1>4, <2>1
<1>8. Keeps(InsertAt(u, ref[1] + 1, row), u)
  <2> DEFINE i == ref[1] + 1
  <2> HIDE DEF u, row, i
  <2> QED BY <1>4, <1>6, <1>7, RowInserted DEF i
<1>9. Keeps(InsertAt(u, ref[1] + 1, row), t)
  <2> HIDE DEF u, row
  <2> QED BY <1>4, <1>8, KeepsChain
<1> QED BY <1>2, <1>5, <1>9 DEF Higher

\* Splitting a cell vertically keeps all text of any table.
LEMMA VerticalSplitCellIs ==
    ASSUME NEW t \in Tables, NEW map, Laid(map, t), NEW ref \in Places(t)
    PROVE  Keeps(VerticalSplitCell(t, map, ref), t)
BY SplitRowsIs, SplitRowIs DEF VerticalSplitCell

----------------------------------------------------------------------------
(* The commands that install a map                                         *)

\* Each text is of one cell of the map, and was in the table.
IdTexts(map, text, t) ==
    /\ \A x \in DOMAIN map : text[map[x]] \in SUBSET Place /\ text[map[x]] \subseteq AllText(t)
    /\ Separate(t) => \A x, y \in DOMAIN map : map[x] # map[y] => text[map[x]] \cap text[map[y]] = {}

\* The table that is left when _InstallTableMap throws has no text.
LEMMA EmptyTable ==
    /\ <<>> \in Tables
    /\ Places(<<>>) = {}
    /\ AllText(<<>>) = {}
    /\ \A t : Inherits(<<>>, t)
<1>1. <<>> \in Tables
  <2> DEFINE Q == Seq(Cell)
  <2> HIDE DEF Q
  <2>1. <<>> \in Seq(Q)
    OBVIOUS
  <2> QED BY <2>1 DEF Tables, Q
<1>2. Places(<<>>) = {}
  BY DEF Places
<1>3. AllText(<<>>) = {}
  BY <1>2 DEF AllText
<1> QED BY <1>1, <1>2, <1>3 DEF Inherits, Separate

\* Installing a map doubles no text.
LEMMA InstallInherits ==
    ASSUME NEW t \in Tables, NEW P, NEW map, IsMap(map, P), NEW n \in Nat,
           NEW text, IdTexts(map, text, t)
    PROVE  Inherits(InstallTableMap(map, n, text), t)
<1> DEFINE T == InstallTableMap(map, n, text)
<1>1. CASE HasHole(map)
  <2>1. T = <<>>
    BY <1>1 DEF InstallTableMap
  <2> QED BY <2>1, EmptyTable
<1>2. CASE ~HasHole(map)
  <2>1. PICK at : Installed(T, map, n, text, at)
    <3> HIDE DEF T
    <3>1. \A x \in DOMAIN map : text[map[x]] \in SUBSET Place
      BY DEF IdTexts
    <3> QED BY <1>2, <3>1, InstallIs DEF T
  <2>2. Stays(map, n) \in SUBSET DOMAIN map
    BY <1>2, StaysOnce, AppendedPositions
  <2> HIDE DEF T
  <2>3. ASSUME NEW p \in Places(T)
        PROVE  at[p] \in Stays(map, n) /\ at[p] \in DOMAIN map /\ CellAt(T, p).text = text[map[at[p]]]
    <3>1. at[p] \in Stays(map, n)
      BY <2>1 DEF Installed
    <3>2. CellAt(T, p) = TableCell(ColSpan(map, map[at[p]]), RowSpan(map, map[at[p]]), text[map[at[p]]])
      BY <2>1 DEF Installed, InstalledCell
    <3> QED BY <2>2, <3>1, <3>2 DEF TableCell
  <2>4. ASSUME Separate(t) PROVE Separate(T)
    <3> SUFFICES ASSUME NEW p \in Places(T), NEW q \in Places(T), p # q
                 PROVE  CellAt(T, p).text \cap CellAt(T, q).text = {}
      BY DEF Separate
    <3>1. at[p] # at[q]
      BY <2>1 DEF Installed
    <3>2. map[at[p]] # map[at[q]]
      BY <1>2, <2>3, <3>1, StaysOnce
    <3> QED BY <2>3, <2>4, <3>2 DEF IdTexts
  <2>5. AllText(T) \subseteq AllText(t)
    <3> SUFFICES ASSUME NEW x \in AllText(T) PROVE x \in AllText(t)
      OBVIOUS
    <3>1. PICK p \in Places(T) : x \in CellAt(T, p).text
      BY AllTextIs
    <3> QED BY <2>3, <3>1 DEF IdTexts
  <2>6. T \in Tables
    BY <2>1 DEF Installed
  <2> QED BY <2>4, <2>5, <2>6 DEF Inherits, T
<1> QED BY <1>1, <1>2

\* The map has all rows of the table, and more only where a cell spans them.
LEMMA MapRowsIs ==
    ASSUME NEW t \in Tables, NEW P, NEW map, IsMap(map, P)
    PROVE  /\ MapRows(map, t) \in Nat
           /\ Len(t) <= MapRows(map, t)
           /\ \A x \in DOMAIN map : x[1] \in 1 .. MapRows(map, t)
           /\ \/ MapRows(map, t) = Len(t)
              \/ \E x \in DOMAIN map : x[1] = MapRows(map, t)
<1> DEFINE R == {x[1] : x \in DOMAIN map}
           U == {Len(t)} \cup R
<1>1. Len(t) \in Nat
  BY TableIs
<1>2. \A x \in DOMAIN map : x[1] \in Nat \ {0}
  BY DEF IsMap, Position
<1>3. U \in SUBSET Nat /\ U # {}
  BY <1>1, <1>2
<1>4. IsFiniteSet(U)
  <2> DEFINE g == [x \in DOMAIN map |-> x[1]]
             D == DOMAIN map
  <2>1. IsFiniteSet(D)
    BY DEF IsMap
  <2>2. IsFiniteSet({g[x] : x \in D})
    <3> HIDE DEF g, D
    <3> QED BY <2>1, FiniteImage
  <2>3. {g[x] : x \in D} = R
    OBVIOUS
  <2>4. IsFiniteSet(R) /\ IsFiniteSet({Len(t)})
    BY <2>2, <2>3, FS_Singleton
  <2> HIDE DEF R
  <2> QED BY <2>4, FS_Union
<1>5. Max(U) \in U /\ \A x \in U : x <= Max(U)
  <2> HIDE DEF U
  <2> QED BY <1>3, <1>4, MaxOf
<1>6. MapRows(map, t) = Max(U)
  BY DEF MapRows
<1>7. \A x \in DOMAIN map : x[1] \in U
  OBVIOUS
<1>8. Len(t) \in U
  OBVIOUS
<1>9. \A y \in U : y = Len(t) \/ \E x \in DOMAIN map : x[1] = y
  OBVIOUS
<1> DEFINE k == Max(U)
<1> HIDE DEF U, k
<1>10. k \in Nat /\ k \in U /\ \A x \in U : x <= k
  BY <1>3, <1>5 DEF k
<1>11. \A x \in DOMAIN map : x[1] \in 1 .. k
  BY <1>2, <1>7, <1>10
<1>12. Len(t) <= k /\ (k = Len(t) \/ \E x \in DOMAIN map : x[1] = k)
  BY <1>8, <1>9, <1>10
<1> QED BY <1>6, <1>10, <1>11, <1>12 DEF k

\* The cells of S become the cell ref in the map.
Merged(map, S, ref) == Over([x \in Positions(map, S) |-> ref], map)

\* The merged map has the positions of the map.
LEMMA MergedIs ==
    ASSUME NEW P, NEW map, IsMap(map, P), NEW S, NEW ref \in P
    PROVE  /\ IsMap(Merged(map, S, ref), P)
           /\ DOMAIN Merged(map, S, ref) = DOMAIN map
           /\ \A x \in DOMAIN map : Merged(map, S, ref)[x] = IF map[x] \in S THEN ref ELSE map[x]
<1> DEFINE M == Positions(map, S)
           f == [x \in M |-> ref]
           m == Over(f, map)
<1>1. M \in SUBSET DOMAIN map /\ \A x \in DOMAIN map : x \in M <=> map[x] \in S
  BY DEF Positions
<1>2. DOMAIN f = M /\ \A x \in M : f[x] = ref
  OBVIOUS
<1> HIDE DEF f, M
<1>3. /\ DOMAIN m = DOMAIN map
      /\ \A x \in M : m[x] = ref
      /\ \A x \in DOMAIN map \ M : m[x] = map[x]
      /\ m = [x \in DOMAIN map |-> m[x]]
  <2>1. DOMAIN f \cup DOMAIN map = DOMAIN map
    BY <1>1, <1>2
  <2> HIDE DEF m
  <2>2. /\ DOMAIN m = DOMAIN f \cup DOMAIN map
        /\ \A x \in DOMAIN f : m[x] = f[x]
        /\ \A x \in DOMAIN map \ DOMAIN f : m[x] = map[x]
        /\ m = [x \in DOMAIN f \cup DOMAIN map |-> m[x]]
    BY OverIs DEF m
  <2> QED BY <1>2, <2>1, <2>2
<1> HIDE DEF m
<1>4. \A x \in DOMAIN map : m[x] = IF map[x] \in S THEN ref ELSE map[x]
  BY <1>1, <1>3
<1>5. m \in [DOMAIN map -> P]
  <2>1. \A x \in DOMAIN map : m[x] \in P
    BY <1>4 DEF IsMap
  <2> QED BY <1>3, <2>1
<1>6. IsMap(m, P)
  BY <1>3, <1>5 DEF IsMap
<1> QED BY <1>3, <1>4, <1>6 DEF m, f, M, Merged

MergedTexts(t, map, S, ref, taken, lost) ==
    [p \in Range(Merged(map, S, ref)) |->
        IF p = ref THEN MergedText(t, ref, taken) \ lost ELSE IF p \in taken THEN {} ELSE CellAt(t, p).text]

\* The text of the merged cell.
LEMMA MergedTextIs ==
    ASSUME NEW t, NEW ref, NEW taken, NEW x
    PROVE  x \in MergedText(t, ref, taken) <=> \E p \in taken : x \in CellAt(t, p).text
BY DEF MergedText, CellsText

\* After a merge each text is of one cell of the map.
LEMMA MergedTextsAre ==
    ASSUME NEW t \in Tables, NEW map, IsMap(map, Places(t)), NEW S, NEW ref \in Places(t),
           NEW taken \in SUBSET Places(t), NEW lost
    PROVE  IdTexts(Merged(map, S, ref), MergedTexts(t, map, S, ref, taken, lost), t)
<1> DEFINE m == Merged(map, S, ref)
           text == MergedTexts(t, map, S, ref, taken, lost)
<1>1. \A x \in DOMAIN m : m[x] \in Places(t)
  BY MergedIs DEF IsMap
<1>2. ASSUME NEW x \in DOMAIN m
      PROVE  text[m[x]] = IF m[x] = ref THEN MergedText(t, ref, taken) \ lost
                          ELSE IF m[x] \in taken THEN {} ELSE CellAt(t, m[x]).text
  <2>1. m[x] \in Range(m)
    BY DEF Range
  <2> HIDE DEF m
  <2> QED BY <2>1 DEF MergedTexts, m
<1> HIDE DEF m, text
<1>3. \A p \in Places(t) : CellAt(t, p).text \in SUBSET Place
  BY CellIs
<1>4. ASSUME NEW x \in DOMAIN m, NEW v \in text[m[x]]
      PROVE  v \in Place /\ v \in AllText(t)
  <2>1. PICK p \in Places(t) : v \in CellAt(t, p).text
    <3>1. CASE m[x] = ref
      BY <1>2, <1>4, <3>1, MergedTextIs
    <3>2. CASE m[x] # ref /\ m[x] \in taken
      BY <1>2, <1>4, <3>2
    <3>3. CASE m[x] # ref /\ m[x] \notin taken
      BY <1>1, <1>2, <1>4, <3>3
    <3> QED BY <3>1, <3>2, <3>3
  <2> QED BY <1>3, <2>1, AllTextIs
<1>5. ASSUME Separate(t), NEW x \in DOMAIN m, NEW y \in DOMAIN m, m[x] # m[y],
             NEW v, v \in text[m[x]], v \in text[m[y]]
      PROVE  FALSE
  <2>1. ASSUME NEW p \in Places(t), NEW q \in Places(t), v \in CellAt(t, p).text, v \in CellAt(t, q).text
        PROVE  p = q
    BY <1>5, <2>1 DEF Separate
  <2>2. ASSUME NEW z \in DOMAIN m, v \in text[m[z]], m[z] # ref
        PROVE  m[z] \notin taken /\ v \in CellAt(t, m[z]).text
    BY <1>2, <2>2
  <2>3. ASSUME NEW z \in DOMAIN m, v \in text[m[z]], m[z] = ref
        PROVE  \E p \in taken : v \in CellAt(t, p).text
    BY <1>2, <2>3, MergedTextIs
  <2>4. CASE m[x] = ref
    <3>1. PICK p \in taken : v \in CellAt(t, p).text
      BY <1>5, <2>3, <2>4
    <3>2. m[y] \notin taken /\ v \in CellAt(t, m[y]).text
      BY <1>5, <2>2, <2>4
    <3> QED BY <1>1, <2>1, <3>1, <3>2
  <2>5. CASE m[y] = ref
    <3>1. PICK p \in taken : v \in CellAt(t, p).text
      BY <1>5, <2>3, <2>5
    <3>2. m[x] \notin taken /\ v \in CellAt(t, m[x]).text
      BY <1>5, <2>2, <2>5
    <3> QED BY <1>1, <2>1, <3>1, <3>2
  <2>6. CASE m[x] # ref /\ m[y] # ref
    BY <1>1, <1>5, <2>1, <2>2, <2>6
  <2> QED BY <2>4, <2>5, <2>6
<1>6. \A x \in DOMAIN m : text[m[x]] \in SUBSET Place /\ text[m[x]] \subseteq AllText(t)
  BY <1>4
<1>7. Separate(t) => \A x, y \in DOMAIN m : m[x] # m[y] => text[m[x]] \cap text[m[y]] = {}
  <2> SUFFICES ASSUME Separate(t), NEW x \in DOMAIN m, NEW y \in DOMAIN m, m[x] # m[y]
               PROVE  text[m[x]] \cap text[m[y]] = {}
    OBVIOUS
  <2>1. \A v : ~ (v \in text[m[x]] /\ v \in text[m[y]])
    BY <1>5
  <2> QED BY <2>1
<1> QED BY <1>6, <1>7 DEF IdTexts, m, text

\* A merge doubles no text.
LEMMA MergeIntoIs ==
    ASSUME NEW t \in Tables, NEW map, IsMap(map, Places(t)), NEW S, NEW ref \in Places(t),
           NEW taken \in SUBSET Places(t), NEW lost
    PROVE  /\ Inherits(MergeInto(t, map, S, ref, taken, lost), t)
           /\ MergeInto(t, map, S, ref, taken, lost) =
                InstallTableMap(Merged(map, S, ref), MapRows(map, t), MergedTexts(t, map, S, ref, taken, lost))
<1> DEFINE n == MapRows(map, t)
           m == Merged(map, S, ref)
           text == MergedTexts(t, map, S, ref, taken, lost)
           P == Places(t)
<1>1. MergeInto(t, map, S, ref, taken, lost) = InstallTableMap(m, n, text)
  BY DEF MergeInto, MergedTexts, Merged
<1>2. n \in Nat
  BY MapRowsIs
<1>3. IsMap(m, P)
  BY MergedIs
<1>4. IdTexts(m, text, t)
  BY MergedTextsAre
<1> HIDE DEF n, m, text, P
<1>5. Inherits(InstallTableMap(m, n, text), t)
  BY <1>2, <1>3, <1>4, InstallInherits
<1> QED BY <1>1, <1>5 DEF n, m, text

\* A merge that throws doubles no text.
LEMMA EmptiedIs ==
    ASSUME NEW t \in Tables, NEW S
    PROVE  Inherits(Emptied(t, S), t)
<1> DEFINE T == Emptied(t, S)
<1>1. DOMAIN t = 1 .. Len(t) /\ \A i \in 1 .. Len(t) : t[i] \in Seq(Cell)
  BY TableIs
<1>2. ASSUME NEW i \in DOMAIN t, NEW j \in DOMAIN t[i]
      PROVE  <<i, j>> \in Places(t) /\ t[i][j] \in Cell
  BY <1>1 DEF Places
<1>3. ASSUME NEW i \in DOMAIN t, NEW j \in DOMAIN t[i]
      PROVE  T[i][j] \in Cell /\ T[i][j].text \in {t[i][j].text, {}}
  <2>1. T[i][j] = IF <<i, j>> \in S THEN [t[i][j] EXCEPT !.text = {}] ELSE t[i][j]
    BY DEF Emptied
  <2> DEFINE x == t[i][j]
  <2>2. x \in Cell
    BY <1>2
  <2> HIDE DEF T
  <2>3. T[i][j] = IF <<i, j>> \in S THEN [x EXCEPT !.text = {}] ELSE x
    BY <2>1
  <2> HIDE DEF x
  <2>4. T[i][j] \in Cell /\ T[i][j].text \in {x.text, {}}
    BY <2>2, <2>3, TextCleared
  <2> QED BY <2>4 DEF x
<1>4. /\ DOMAIN T = DOMAIN t /\ T = [i \in DOMAIN T |-> T[i]]
      /\ \A i \in DOMAIN t : DOMAIN T[i] = DOMAIN t[i] /\ T[i] = [j \in DOMAIN T[i] |-> T[i][j]]
  BY DEF Emptied
<1> HIDE DEF T
<1>5. SameShape(T, t)
  BY <1>3, <1>4 DEF SameShape
<1>6. T \in Tables /\ Places(T) = Places(t)
  BY <1>4, <1>5, SameShapeIs
<1>7. \A p \in Places(t) : p[1] \in DOMAIN t /\ p[2] \in DOMAIN t[p[1]]
  BY DEF Places
<1>8. \A p \in Places(t) : CellAt(T, p).text \in {CellAt(t, p).text, {}}
  BY <1>3, <1>7 DEF CellAt
<1> QED BY <1>6, <1>8, SameText DEF T

\* A selection has a first cell.
LEMMA FirstSelected ==
    ASSUME NEW t \in Tables, NEW S \in SUBSET Places(t), S # {}
    PROVE  /\ InOrder(S)[1] \in S
           /\ \A p \in S : p # InOrder(S)[1] => Precedes(InOrder(S)[1], p)
           /\ IsFiniteSet(S)
<1>1. S \in SUBSET (Int \X Int) /\ IsFiniteSet(S)
  BY PlacesOf, FS_Subset DEF Position
<1> DEFINE n == Cardinality(S)
           s == InOrder(S)
<1>2. n \in Nat /\ Lists(s, S)
  BY <1>1, InOrderLists
<1> HIDE DEF s
<1>3. /\ \A k \in 1 .. n : s[k] \in S
      /\ \A x \in S : \E k \in 1 .. n : s[k] = x
      /\ \A i, j \in 1 .. n : i < j => Precedes(s[i], s[j])
  BY <1>2 DEF Lists
<1> HIDE DEF n
<1>4. 1 \in 1 .. n
  BY <1>2, <1>3
<1>5. ASSUME NEW p \in S, p # s[1] PROVE Precedes(s[1], p)
  <2>1. PICK k \in 1 .. n : s[k] = p
    BY <1>3
  <2>2. k # 1
    BY <1>5, <2>1
  <2>3. 1 < k
    BY <1>2, <2>2
  <2> QED BY <1>3, <1>4, <2>1, <2>3
<1> QED BY <1>1, <1>3, <1>4, <1>5 DEF s

\* The rectangle of the map that the text comes from.
MergeArea(t, map, S) ==
    Block(SelectionStart(t, map, S)[1] - SelectionGeometry(t, map, S).y,
          SelectionStart(t, map, S)[2] - SelectionGeometry(t, map, S).x,
          SelectionGeometry(t, map, S).height, SelectionGeometry(t, map, S).width)
Reached(t, map, S) ==
    {x \in MergeArea(t, map, S) : \A y \in MergeArea(t, map, S) \ DOMAIN map : Precedes(x, y)}
Taken(t, map, S) == {map[x] : x \in Reached(t, map, S)}

\* MergeCells doubles no text, and takes its area if that is in the map.
LEMMA MergeCellsIs ==
    ASSUME NEW t \in Tables, NEW map, IsMap(map, Places(t)), NEW S \in SUBSET Places(t), S # {}
    PROVE  /\ Inherits(MergeCells(t, map, S), t)
           /\ MergeArea(t, map, S) \subseteq DOMAIN map =>
                MergeCells(t, map, S) = MergeInto(t, map, S, InOrder(S)[1], Taken(t, map, S), Enclosed)
<1> DEFINE area == MergeArea(t, map, S)
           taken == Taken(t, map, S)
           ref == InOrder(S)[1]
<1>1. MergeCells(t, map, S) =
        IF area \subseteq DOMAIN map THEN MergeInto(t, map, S, ref, taken, Enclosed) ELSE Emptied(t, taken)
  BY DEF MergeCells, MergeArea, Taken, Reached
<1>2. ref \in Places(t)
  BY FirstSelected
<1>3. ASSUME area \subseteq DOMAIN map PROVE taken \in SUBSET Places(t)
  <2>1. Reached(t, map, S) \subseteq DOMAIN map
    BY <1>3 DEF Reached
  <2> QED BY <2>1 DEF Taken, IsMap
<1> HIDE DEF area, taken, ref
<1>4. ASSUME area \subseteq DOMAIN map
      PROVE  /\ Inherits(MergeCells(t, map, S), t)
             /\ MergeCells(t, map, S) = MergeInto(t, map, S, ref, taken, Enclosed)
  <2>1. taken \in SUBSET Places(t)
    BY <1>3, <1>4
  <2>2. Inherits(MergeInto(t, map, S, ref, taken, Enclosed), t)
    BY <1>2, <2>1, MergeIntoIs
  <2>3. MergeCells(t, map, S) = MergeInto(t, map, S, ref, taken, Enclosed)
    BY <1>1, <1>4
  <2> QED BY <2>2, <2>3
<1>5. ASSUME ~ (area \subseteq DOMAIN map) PROVE Inherits(MergeCells(t, map, S), t)
  BY <1>1, <1>5, EmptiedIs
<1> QED BY <1>4, <1>5 DEF area, taken, ref

\* The cell to the right that is merged is one of the table.
LEMMA MergeRightIs ==
    ASSUME NEW t, NEW map, IsMap(map, Places(t)), NEW ref
    PROVE  MergeRightTarget(t, map, ref) \in Places(t) \cup {NoTarget}
BY DEF MergeRightTarget, IsMap

\* The cell below that is merged is one of the table.
LEMMA MergeDownIs ==
    ASSUME NEW t, NEW map, IsMap(map, Places(t)), NEW ref
    PROVE  MergeDownTarget(t, map, ref) \in Places(t) \cup {NoTarget}
BY DEF MergeDownTarget, IsMap

\* The maps that a horizontal split installs.
NewIds == {NewId(k) : k \in Nat}
NewBlock(t, map, ref) ==
    Block(ref[1], CellColumn(map, ref) + Half(CellAt(t, ref).colSpan),
          CellAt(t, ref).rowSpan, CellAt(t, ref).colSpan - Half(CellAt(t, ref).colSpan))
Wider(t, map, ref) == Over([x \in NewBlock(t, map, ref) |-> NewId(0)], map)
LeftPart(map, col) == {y \in DOMAIN map : y[2] <= col}
RightPart(map, col) == {<<y[1], y[2] + 1>> : y \in {z \in DOMAIN map : z[2] >= col}}
MovedTo(map, ref, col, x) ==
    IF x[2] = col + 1 /\ map[<<x[1], col>>] = ref THEN NewId(x[1]) ELSE map[<<x[1], x[2] - 1>>]
Longer(t, map, ref) ==
    Over([x \in LeftPart(map, CellColumn(map, ref)) |-> map[x]],
         [x \in RightPart(map, CellColumn(map, ref)) |-> MovedTo(map, ref, CellColumn(map, ref), x)])
SplitMap(t, map, ref) ==
    IF CellAt(t, ref).colSpan > 1 THEN Wider(t, map, ref) ELSE Longer(t, map, ref)
SplitTexts(t, map, ref) ==
    [p \in Range(SplitMap(t, map, ref)) |-> IF p[1] = 0 THEN {} ELSE CellAt(t, p).text]

\* A cell of several columns is split within its own positions.
LEMMA WiderIs ==
    ASSUME NEW t \in Tables, NEW map, Laid(map, t), NEW ref \in Places(t), CellAt(t, ref).colSpan > 1
    PROVE  /\ IsMap(Wider(t, map, ref), Places(t) \cup NewIds)
           /\ DOMAIN Wider(t, map, ref) = DOMAIN map
           /\ NewBlock(t, map, ref) \subseteq DOMAIN map
           /\ \A x \in DOMAIN map :
                 Wider(t, map, ref)[x] = IF x \in NewBlock(t, map, ref) THEN NewId(0) ELSE map[x]
<1> DEFINE w == CellAt(t, ref).colSpan
           h == CellAt(t, ref).rowSpan
           c == CellColumn(map, ref)
           G == NewBlock(t, map, ref)
           f == [x \in G |-> NewId(0)]
           m == Over(f, map)
<1>1. w \in Nat \ {0} /\ h \in Nat \ {0} /\ Half(w) \in Nat \ {0} /\ w - Half(w) \in Nat \ {0}
  <2>1. w \in Nat \ {0} /\ h \in Nat \ {0}
    BY CellIs
  <2> HIDE DEF w, h
  <2> QED BY <2>1, HalfIs DEF w
<1>2. c \in Nat \ {0} /\ ref[1] \in Nat \ {0} /\ CellBlock(map, t, ref) \subseteq DOMAIN map
  BY PlacesOf DEF Laid, Position
<1>3. G \in SUBSET DOMAIN map
  <2> DEFINE r == ref[1]
             d == c + Half(w)
             v == w - Half(w)
  <2>1. d \in Nat \ {0} /\ r \in Nat \ {0} /\ v \in Nat /\ d + v = c + w /\ c <= d
    BY <1>1, <1>2
  <2>2. G = Block(r, d, h, v) /\ CellBlock(map, t, ref) = Block(r, c, h, w)
    BY DEF NewBlock, CellBlock
  <2> HIDE DEF G, r, d, v, w, h, c
  <2>3. \A x : x \in Block(r, d, h, v) <=> Within(x, r, d, h, v)
    BY <1>1, <2>1, BlockIs
  <2>4. \A x : x \in Block(r, c, h, w) <=> Within(x, r, c, h, w)
    BY <1>1, <1>2, <2>1, BlockIs
  <2>5. ASSUME NEW x, Within(x, r, d, h, v) PROVE Within(x, r, c, h, w)
    BY <1>1, <1>2, <2>1, <2>5 DEF Within
  <2> QED BY <1>2, <2>2, <2>3, <2>4, <2>5
<1>4. DOMAIN f = G /\ \A x \in G : f[x] = NewId(0)
  OBVIOUS
<1> HIDE DEF f, G
<1>5. /\ DOMAIN m = DOMAIN f \cup DOMAIN map
      /\ \A x \in DOMAIN f : m[x] = f[x]
      /\ \A x \in DOMAIN map \ DOMAIN f : m[x] = map[x]
      /\ m = [x \in DOMAIN f \cup DOMAIN map |-> m[x]]
  BY OverIs
<1> HIDE DEF m
<1>6. DOMAIN f \cup DOMAIN map = DOMAIN map
  BY <1>3, <1>4
<1>7. \A x \in DOMAIN map : m[x] = IF x \in G THEN NewId(0) ELSE map[x]
  BY <1>3, <1>4, <1>5
<1>8. m \in [DOMAIN map -> Places(t) \cup NewIds]
  <2>1. NewId(0) \in NewIds
    BY DEF NewIds
  <2>2. \A x \in DOMAIN map : map[x] \in Places(t)
    BY DEF Laid, IsMap
  <2>3. \A x \in DOMAIN map : m[x] \in Places(t) \cup NewIds
    BY <1>7, <2>1, <2>2
  <2> QED BY <1>5, <1>6, <2>3
<1>9. IsMap(m, Places(t) \cup NewIds) /\ DOMAIN m = DOMAIN map
  BY <1>5, <1>6, <1>8 DEF IsMap, Laid
<1> QED BY <1>3, <1>7, <1>9 DEF m, f, G, Wider

\* The cell at a position of the longer map.
LongerCell(map, ref, c, x) ==
    IF x[2] <= c THEN map[x]
    ELSE IF x[2] = c + 1 /\ map[<<x[1], c>>] = ref THEN NewId(x[1]) ELSE map[<<x[1], x[2] - 1>>]

\* The map with one more column: the positions behind the cell move to the right.
LEMMA LongerIs ==
    ASSUME NEW t \in Tables, NEW map, Laid(map, t), NEW ref \in Places(t)
    PROVE  /\ IsMap(Longer(t, map, ref), Places(t) \cup NewIds)
           /\ \A x : x \in DOMAIN Longer(t, map, ref) <=>
                \/ x \in DOMAIN map /\ x[2] <= CellColumn(map, ref)
                \/ /\ x = <<x[1], x[2]>>
                   /\ <<x[1], x[2] - 1>> \in DOMAIN map
                   /\ x[2] \in Nat
                   /\ x[2] - 1 >= CellColumn(map, ref)
           /\ \A x \in DOMAIN Longer(t, map, ref) :
                Longer(t, map, ref)[x] = LongerCell(map, ref, CellColumn(map, ref), x)
<1> DEFINE c == CellColumn(map, ref)
           A == LeftPart(map, c)
           B == RightPart(map, c)
           f == [x \in A |-> map[x]]
           g == [x \in B |-> MovedTo(map, ref, c, x)]
           m == Over(f, g)
           P == Places(t) \cup NewIds
           D == DOMAIN map
<1>1. c \in Nat \ {0} /\ D \in SUBSET Position /\ IsFiniteSet(D) /\ \A x \in D : map[x] \in Places(t)
  BY DEF Laid, IsMap
<1>2. \A x \in D : x = <<x[1], x[2]>> /\ x[1] \in Nat \ {0} /\ x[2] \in Nat \ {0}
  <2> HIDE DEF D
  <2> QED BY <1>1 DEF Position
<1>3. \A x : x \in A <=> x \in D /\ x[2] <= c
  BY DEF LeftPart
<1>4. \A x : x \in B <=> \E y \in D : y[2] >= c /\ x = <<y[1], y[2] + 1>>
  BY DEF RightPart
<1>5. IsFiniteSet(A) /\ IsFiniteSet(B)
  <2> DEFINE E == {z \in D : z[2] >= c}
             k == [y \in E |-> <<y[1], y[2] + 1>>]
  <2>1. IsFiniteSet(E)
    <3> HIDE DEF D
    <3> QED BY <1>1, FS_Subset
  <2>2. IsFiniteSet({k[y] : y \in E})
    <3> HIDE DEF E, k
    <3> QED BY <2>1, FiniteImage
  <2>3. {k[y] : y \in E} = B
    BY DEF RightPart
  <2>4. A \in SUBSET D
    BY DEF LeftPart
  <2>5. IsFiniteSet(A)
    <3> HIDE DEF A, D
    <3> QED BY <1>1, <2>4, FS_Subset
  <2> QED BY <2>2, <2>3, <2>5
<1> HIDE DEF A, B, D
<1>6. \A x : x \in B <=> /\ x = <<x[1], x[2]>>
                         /\ <<x[1], x[2] - 1>> \in D
                         /\ x[2] \in Nat
                         /\ x[2] - 1 >= c
  <2>1. ASSUME NEW x \in B
        PROVE  x = <<x[1], x[2]>> /\ <<x[1], x[2] - 1>> \in D /\ x[2] \in Nat /\ x[2] - 1 >= c
    <3>1. PICK y \in D : y[2] >= c /\ x = <<y[1], y[2] + 1>>
      BY <1>4
    <3>2. y = <<y[1], y[2]>> /\ y[2] \in Nat
      BY <1>2
    <3>3. x[1] = y[1] /\ x[2] = y[2] + 1 /\ x = <<x[1], x[2]>>
      BY <3>1
    <3>4. x[2] - 1 = y[2] /\ x[2] \in Nat
      BY <3>2, <3>3
    <3> QED BY <3>1, <3>2, <3>3, <3>4
  <2>2. ASSUME NEW x, x = <<x[1], x[2]>>, <<x[1], x[2] - 1>> \in D, x[2] \in Nat, x[2] - 1 >= c
        PROVE  x \in B
    <3> DEFINE y == <<x[1], x[2] - 1>>
    <3>1. y[1] = x[1] /\ y[2] = x[2] - 1 /\ y[2] + 1 = x[2]
      BY <2>2
    <3>2. x = <<y[1], y[2] + 1>>
      BY <2>2, <3>1
    <3>3. y \in D /\ y[2] >= c
      BY <2>2, <3>1
    <3> HIDE DEF y
    <3> QED BY <1>4, <3>2, <3>3
  <2> QED BY <2>1, <2>2
<1>7. ASSUME NEW x \in B
      PROVE  x \in Position /\ ~ (x[2] <= c) /\ MovedTo(map, ref, c, x) \in P
  <2>1. x = <<x[1], x[2]>> /\ <<x[1], x[2] - 1>> \in D /\ x[2] \in Nat /\ x[2] - 1 >= c
    BY <1>6
  <2> DEFINE y == <<x[1], x[2] - 1>>
  <2>2. y[1] \in Nat \ {0} /\ y[1] = x[1]
    BY <1>2, <2>1
  <2>3. x \in Position /\ ~ (x[2] <= c)
    BY <1>1, <2>1, <2>2 DEF Position
  <2>4. NewId(x[1]) \in NewIds
    BY <2>2 DEF NewIds
  <2>5. map[y] \in Places(t)
    BY <1>1, <2>1
  <2> QED BY <2>3, <2>4, <2>5 DEF MovedTo
<1>8. DOMAIN f = A /\ DOMAIN g = B /\ (\A x \in A : f[x] = map[x]) /\ \A x \in B : g[x] = MovedTo(map, ref, c, x)
  OBVIOUS
<1> HIDE DEF f, g
<1>9. /\ DOMAIN m = DOMAIN f \cup DOMAIN g
      /\ \A x \in DOMAIN f : m[x] = f[x]
      /\ \A x \in DOMAIN g \ DOMAIN f : m[x] = g[x]
      /\ m = [x \in DOMAIN f \cup DOMAIN g |-> m[x]]
  BY OverIs
<1> HIDE DEF m
<1>10. DOMAIN m = A \cup B /\ m = [x \in DOMAIN m |-> m[x]]
  BY <1>8, <1>9
<1>11. \A x \in A : x \in D /\ x[2] <= c /\ m[x] = map[x]
  BY <1>3, <1>8, <1>9
<1>12. \A x \in B : ~ (x[2] <= c) /\ m[x] = MovedTo(map, ref, c, x)
  BY <1>3, <1>7, <1>8, <1>9
<1>13. IsMap(m, P)
  <2>1. A \cup B \in SUBSET Position /\ IsFiniteSet(A \cup B)
    BY <1>1, <1>3, <1>5, <1>7, FS_Union
  <2>2. \A x \in DOMAIN m : m[x] \in P
    BY <1>1, <1>7, <1>10, <1>11, <1>12
  <2>3. m \in [DOMAIN m -> P]
    BY <1>10, <2>2
  <2> QED BY <1>10, <2>1, <2>3 DEF IsMap
<1>14. \A x : x \in DOMAIN m <=> \/ x \in DOMAIN map /\ x[2] <= c
                                 \/ /\ x = <<x[1], x[2]>>
                                    /\ <<x[1], x[2] - 1>> \in DOMAIN map
                                    /\ x[2] \in Nat
                                    /\ x[2] - 1 >= c
  BY <1>3, <1>6, <1>10 DEF D
<1>15. \A x \in DOMAIN m : m[x] = LongerCell(map, ref, c, x)
  BY <1>10, <1>11, <1>12 DEF MovedTo, LongerCell
<1> HIDE DEF c
<1>16. m = Longer(t, map, ref)
  BY DEF m, f, g, A, B, c, Longer
<1> QED BY <1>13, <1>14, <1>15, <1>16 DEF P, c

\* After a split each text is of one cell of the map.
LEMMA SplitTextsAre ==
    ASSUME NEW t \in Tables, NEW map, Laid(map, t), NEW ref \in Places(t)
    PROVE  /\ IsMap(SplitMap(t, map, ref), Places(t) \cup NewIds)
           /\ IdTexts(SplitMap(t, map, ref), SplitTexts(t, map, ref), t)
<1> DEFINE m == SplitMap(t, map, ref)
           text == SplitTexts(t, map, ref)
<1>1. IsMap(m, Places(t) \cup NewIds)
  BY WiderIs, LongerIs DEF SplitMap
<1>2. ASSUME NEW x \in DOMAIN m
      PROVE  /\ m[x] \in Places(t) \/ m[x][1] = 0
             /\ m[x] \in Places(t) => m[x][1] # 0
             /\ text[m[x]] = IF m[x][1] = 0 THEN {} ELSE CellAt(t, m[x]).text
  <2>1. m[x] \in Places(t) \cup NewIds
    BY <1>1 DEF IsMap
  <2>2. m[x] \in NewIds => m[x][1] = 0
    BY DEF NewIds, NewId
  <2>3. \A p \in Places(t) : p[1] # 0
    BY PlacesOf DEF Position
  <2>4. m[x] \in Range(m)
    BY DEF Range
  <2> HIDE DEF m
  <2>5. text[m[x]] = IF m[x][1] = 0 THEN {} ELSE CellAt(t, m[x]).text
    BY <2>4 DEF SplitTexts, m
  <2> QED BY <2>1, <2>2, <2>3, <2>5
<1> HIDE DEF m, text
<1>3. ASSUME NEW x \in DOMAIN m
      PROVE  \/ text[m[x]] = {}
             \/ m[x] \in Places(t) /\ text[m[x]] = CellAt(t, m[x]).text
  BY <1>2
<1>4. \A x \in DOMAIN m : text[m[x]] \in SUBSET Place /\ text[m[x]] \subseteq AllText(t)
  <2>1. \A p \in Places(t) : CellAt(t, p).text \in SUBSET Place /\ CellAt(t, p).text \subseteq AllText(t)
    BY CellIs, AllTextIs
  <2> QED BY <1>3, <2>1
<1>5. Separate(t) => \A x, y \in DOMAIN m : m[x] # m[y] => text[m[x]] \cap text[m[y]] = {}
  BY <1>3 DEF Separate
<1> QED BY <1>1, <1>4, <1>5 DEF IdTexts, m, text

\* Splitting a cell horizontally doubles no text.
LEMMA HorizontalSplitCellIs ==
    ASSUME NEW t \in Tables, NEW map, Laid(map, t), NEW ref \in Places(t)
    PROVE  /\ Inherits(HorizontalSplitCell(t, map, ref), t)
           /\ HorizontalSplitCell(t, map, ref) =
                InstallTableMap(SplitMap(t, map, ref), MapRows(map, t), SplitTexts(t, map, ref))
<1> DEFINE n == MapRows(map, t)
           m == SplitMap(t, map, ref)
           text == SplitTexts(t, map, ref)
           P == Places(t) \cup NewIds
<1>1. HorizontalSplitCell(t, map, ref) = InstallTableMap(m, n, text)
  BY DEF HorizontalSplitCell, SplitMap, SplitTexts, Wider, Longer, NewBlock, LeftPart, RightPart, MovedTo
<1>2. n \in Nat
  BY MapRowsIs DEF Laid
<1>3. IsMap(m, P) /\ IdTexts(m, text, t)
  BY SplitTextsAre
<1> HIDE DEF n, m, text, P
<1>4. Inherits(InstallTableMap(m, n, text), t)
  BY <1>2, <1>3, InstallInherits
<1> QED BY <1>1, <1>4 DEF n, m, text

----------------------------------------------------------------------------
(* Maps whose cells are rectangles                                         *)

\* b says where the rectangle of a cell begins, and how high and wide it is.
Bricks(map, b) ==
    \A x \in DOMAIN map :
        /\ b[map[x]].r \in Nat \ {0} /\ b[map[x]].c \in Nat \ {0}
        /\ b[map[x]].h \in Nat \ {0} /\ b[map[x]].w \in Nat \ {0}
        /\ \A y : y \in DOMAIN map /\ map[y] = map[x] <=>
                  Within(y, b[map[x]].r, b[map[x]].c, b[map[x]].h, b[map[x]].w)

Corner(b, p) == <<b[p].r, b[p].c>>

\* The brick of a position holds it, and all its positions are of the same cell.
LEMMA BrickIs ==
    ASSUME NEW P, NEW map, IsMap(map, P), NEW b, Bricks(map, b), NEW x \in DOMAIN map
    PROVE  /\ b[map[x]].r \in Nat \ {0} /\ b[map[x]].c \in Nat \ {0}
           /\ b[map[x]].h \in Nat \ {0} /\ b[map[x]].w \in Nat \ {0}
           /\ x = <<x[1], x[2]>> /\ x[1] \in Nat \ {0} /\ x[2] \in Nat \ {0}
           /\ b[map[x]].r <= x[1] /\ x[1] < b[map[x]].r + b[map[x]].h
           /\ b[map[x]].c <= x[2] /\ x[2] < b[map[x]].c + b[map[x]].w
           /\ \A i, j \in Nat :
                /\ b[map[x]].r <= i /\ i < b[map[x]].r + b[map[x]].h
                /\ b[map[x]].c <= j /\ j < b[map[x]].c + b[map[x]].w
                => <<i, j>> \in DOMAIN map /\ map[<<i, j>>] = map[x]
           /\ Corner(b, map[x]) \in DOMAIN map /\ map[Corner(b, map[x])] = map[x]
<1> DEFINE p == map[x]
           r == b[p].r
           c == b[p].c
           h == b[p].h
           w == b[p].w
<1>1. r \in Nat \ {0} /\ c \in Nat \ {0} /\ h \in Nat \ {0} /\ w \in Nat \ {0}
  BY DEF Bricks
<1>2. \A y : y \in DOMAIN map /\ map[y] = p <=> Within(y, r, c, h, w)
  BY DEF Bricks
<1>3. x = <<x[1], x[2]>> /\ x[1] \in Nat \ {0} /\ x[2] \in Nat \ {0}
  <2>1. x \in Position
    BY DEF IsMap
  <2> QED BY <2>1 DEF Position
<1> HIDE DEF r, c, h, w, p
<1>4. Within(x, r, c, h, w)
  BY <1>2 DEF p
<1>5. ASSUME NEW i \in Nat, NEW j \in Nat, r <= i, i < r + h, c <= j, j < c + w
      PROVE  <<i, j>> \in DOMAIN map /\ map[<<i, j>>] = p
  <2>1. Within(<<i, j>>, r, c, h, w)
    BY <1>5 DEF Within
  <2> QED BY <1>2, <2>1
<1>6. <<r, c>> \in DOMAIN map /\ map[<<r, c>>] = p
  <2>1. r <= r /\ r < r + h /\ c <= c /\ c < c + w
    BY <1>1
  <2> QED BY <1>1, <1>5, <2>1
<1> QED BY <1>1, <1>3, <1>4, <1>5, <1>6 DEF Within, r, c, h, w, p, Corner

\* Their spans are the height and the width.
LEMMA BrickSpans ==
    ASSUME NEW P, NEW map, IsMap(map, P), NEW b, Bricks(map, b), NEW x \in DOMAIN map
    PROVE  ColSpan(map, map[x]) = b[map[x]].w /\ RowSpan(map, map[x]) = b[map[x]].h
<1> DEFINE p == map[x]
           M == Positions(map, {p})
           r == b[p].r
           c == b[p].c
           h == b[p].h
           w == b[p].w
<1>1. r \in Nat \ {0} /\ c \in Nat \ {0} /\ h \in Nat \ {0} /\ w \in Nat \ {0}
  BY DEF Bricks
<1>2. \A y : y \in M <=> Within(y, r, c, h, w)
  <2>1. \A y : y \in DOMAIN map /\ map[y] = p <=> Within(y, r, c, h, w)
    BY DEF Bricks
  <2> QED BY <2>1 DEF Positions
<1>3. IsFiniteSet(M) /\ M \in SUBSET Position
  BY PositionsAre
<1> HIDE DEF M, p, r, c, h, w
<1>4. ASSUME NEW i \in Nat, NEW j \in Nat
      PROVE  <<i, j>> \in M <=> r <= i /\ i < r + h /\ c <= j /\ j < c + w
  BY <1>2 DEF Within
<1>5. <<r, c>> \in M
  BY <1>1, <1>4
<1>6. \A y \in M : y = <<y[1], y[2]>> /\ y[1] \in Nat /\ y[2] \in Nat /\ r <= y[1] /\ c <= y[2]
  BY <1>2 DEF Within
<1> DEFINE R == {y[1] : y \in M}
           C == {y[2] : y \in M}
           Cr == {y[2] : y \in {z \in M : z[1] = r}}
           Rc == {y[1] : y \in {z \in M : z[2] = c}}
<1>7. Min(R) = r /\ Min(Cr) = c
  <2>1. r \in R /\ R \in SUBSET Nat /\ \A k \in R : r <= k
    BY <1>5, <1>6
  <2>2. c \in Cr /\ Cr \in SUBSET Nat /\ \A k \in Cr : c <= k
    <3>1. <<r, c>>[1] = r /\ <<r, c>>[2] = c
      OBVIOUS
    <3> QED BY <1>5, <1>6, <3>1
  <2> HIDE DEF R, Cr
  <2>3. Min(R) \in R /\ \A k \in R : Min(R) <= k
    BY <2>1, MinOf
  <2>4. Min(Cr) \in Cr /\ \A k \in Cr : Min(Cr) <= k
    BY <2>2, MinOf
  <2>5. Min(R) \in Nat /\ Min(Cr) \in Nat
    BY <2>1, <2>2, <2>3, <2>4
  <2>6. Min(R) <= r /\ r <= Min(R) /\ Min(Cr) <= c /\ c <= Min(Cr)
    BY <2>1, <2>2, <2>3, <2>4
  <2> QED BY <1>1, <2>5, <2>6
<1>8. Min(C) = c /\ Min(Rc) = r
  <2>1. c \in C /\ C \in SUBSET Nat /\ \A k \in C : c <= k
    BY <1>5, <1>6
  <2>2. r \in Rc /\ Rc \in SUBSET Nat /\ \A k \in Rc : r <= k
    <3>1. <<r, c>>[1] = r /\ <<r, c>>[2] = c
      OBVIOUS
    <3> QED BY <1>5, <1>6, <3>1
  <2> HIDE DEF C, Rc
  <2>3. Min(C) \in C /\ \A k \in C : Min(C) <= k
    BY <2>1, MinOf
  <2>4. Min(Rc) \in Rc /\ \A k \in Rc : Min(Rc) <= k
    BY <2>2, MinOf
  <2>5. Min(C) \in Nat /\ Min(Rc) \in Nat
    BY <2>1, <2>2, <2>3, <2>4
  <2>6. Min(C) <= c /\ c <= Min(C) /\ Min(Rc) <= r /\ r <= Min(Rc)
    BY <2>1, <2>2, <2>3, <2>4
  <2> QED BY <1>1, <2>5, <2>6
<1> DEFINE s == <<r, c>>
<1>9. s \in Int \X Int /\ s[1] = r /\ s[2] = c
  BY <1>1
<1>10. RunLength(M, s, 0, 1) = w
  <2>1. RunOf(w, M, s, 0, 1)
    <3>1. ASSUME NEW l \in 0 .. w - 1 PROVE At(s, l, 0, 1) \in M
      <4>1. At(s, l, 0, 1) = <<r, c + l>>
        BY <1>1, <1>9 DEF At
      <4>2. c + l \in Nat /\ c <= c + l /\ c + l < c + w /\ r < r + h
        BY <1>1
      <4>3. <<r, c + l>> \in M
        BY <1>1, <1>4, <4>2
      <4> QED BY <4>1, <4>3
    <3>2. At(s, w, 0, 1) \notin M
      <4>1. At(s, w, 0, 1) = <<r, c + w>>
        BY <1>1, <1>9 DEF At
      <4>2. c + w \in Nat /\ ~ (c + w < c + w)
        BY <1>1
      <4>3. <<r, c + w>> \notin M
        BY <1>1, <1>4, <4>2
      <4> QED BY <4>1, <4>3
    <3> QED BY <1>1, <3>1, <3>2 DEF RunOf
  <2>2. <<0, 1>> \in Directions
    BY DEF Directions
  <2> HIDE DEF s
  <2> QED BY <1>3, <1>9, <2>1, <2>2, RunIsUnique
<1>11. RunLength(M, s, 1, 0) = h
  <2>1. RunOf(h, M, s, 1, 0)
    <3>1. ASSUME NEW l \in 0 .. h - 1 PROVE At(s, l, 1, 0) \in M
      <4>1. At(s, l, 1, 0) = <<r + l, c>>
        BY <1>1, <1>9 DEF At
      <4>2. r + l \in Nat /\ r <= r + l /\ r + l < r + h /\ c < c + w
        BY <1>1
      <4>3. <<r + l, c>> \in M
        BY <1>1, <1>4, <4>2
      <4> QED BY <4>1, <4>3
    <3>2. At(s, h, 1, 0) \notin M
      <4>1. At(s, h, 1, 0) = <<r + h, c>>
        BY <1>1, <1>9 DEF At
      <4>2. r + h \in Nat /\ ~ (r + h < r + h)
        BY <1>1
      <4>3. <<r + h, c>> \notin M
        BY <1>1, <1>4, <4>2
      <4> QED BY <4>1, <4>3
    <3> QED BY <1>1, <3>1, <3>2 DEF RunOf
  <2>2. <<1, 0>> \in Directions
    BY DEF Directions
  <2> HIDE DEF s
  <2> QED BY <1>3, <1>9, <2>1, <2>2, RunIsUnique
<1>12. ColSpan(map, p) = RunLength(M, <<Min(R), Min({y[2] : y \in {z \in M : z[1] = Min(R)}})>>, 0, 1)
  BY DEF ColSpan, M
<1>13. RowSpan(map, p) = RunLength(M, <<Min({y[1] : y \in {z \in M : z[2] = Min(C)}}), Min(C)>>, 1, 0)
  BY DEF RowSpan, M
<1> HIDE DEF R, C
<1> QED BY <1>7, <1>8, <1>10, <1>11, <1>12, <1>13 DEF p, h, w

\* The loop over a row comes to the columns in which rectangles begin.
LEMMA BrickVisited ==
    ASSUME NEW P, NEW map, IsMap(map, P), ~HasHole(map), NEW b, Bricks(map, b), NEW k
    PROVE  \A d \in 1 .. RowEnd(map, k) : d \in VisitedIn(map, k) <=> d = b[map[<<k, d>>]].c
<1> DEFINE e == RowEnd(map, k)
           V == VisitedIn(map, k)
           width == WidthsIn(map, k)
           Begins(d) == d = b[map[<<k, d>>]].c
<1>1. e \in Nat /\ \A d \in 1 .. e : <<k, d>> \in DOMAIN map
  BY AppendedAre
<1>2. /\ V \in SUBSET (Nat \ {0}) /\ 1 \in V
      /\ \A d \in V : d <= e => d + width[d] \in V
      /\ \A d \in V : d # 1 => \E g \in V : g <= e /\ d = g + width[g]
  BY AppendedAre DEF LoopColumns
<1> HIDE DEF e, V
<1>3. ASSUME NEW d \in 1 .. e
      PROVE  /\ width[d] = b[map[<<k, d>>]].w /\ width[d] \in Nat \ {0}
             /\ b[map[<<k, d>>]].c \in Nat \ {0}
             /\ b[map[<<k, d>>]].c <= d /\ d < b[map[<<k, d>>]].c + width[d]
  <2> DEFINE x == <<k, d>>
  <2>1. x \in DOMAIN map /\ x[2] = d
    BY <1>1
  <2>2. width[d] = ColSpan(map, map[x])
    BY DEF WidthsIn, e
  <2> HIDE DEF x, width
  <2>3. ColSpan(map, map[x]) = b[map[x]].w
    BY <2>1, BrickSpans
  <2>4. b[map[x]].w \in Nat \ {0} /\ b[map[x]].c \in Nat \ {0} /\ b[map[x]].c <= x[2] /\ x[2] < b[map[x]].c + b[map[x]].w
    BY <2>1, BrickIs
  <2> QED BY <2>1, <2>2, <2>3, <2>4 DEF x
<1> HIDE DEF width
\* positions of the row in the rectangle of another of its positions
<1>4. ASSUME NEW d \in 1 .. e, NEW f \in 1 .. e,
             b[map[<<k, d>>]].c <= f, f < b[map[<<k, d>>]].c + width[d]
      PROVE  map[<<k, f>>] = map[<<k, d>>]
  <2> DEFINE x == <<k, d>>
  <2>1. x \in DOMAIN map /\ x[1] = k /\ f \in Nat
    BY <1>1
  <2>2. /\ x[1] \in Nat
        /\ b[map[x]].r <= x[1] /\ x[1] < b[map[x]].r + b[map[x]].h
        /\ \A i, j \in Nat :
                /\ b[map[x]].r <= i /\ i < b[map[x]].r + b[map[x]].h
                /\ b[map[x]].c <= j /\ j < b[map[x]].c + b[map[x]].w
                => <<i, j>> \in DOMAIN map /\ map[<<i, j>>] = map[x]
    <3> HIDE DEF x
    <3> QED BY <2>1, BrickIs
  <2>3. width[d] = b[map[x]].w
    BY <1>3
  <2>4. b[map[x]].c <= f /\ f < b[map[x]].c + b[map[x]].w
    BY <1>4, <2>3
  <2>5. map[<<x[1], f>>] = map[x]
    <3> HIDE DEF x
    <3> QED BY <2>1, <2>2, <2>4
  <2> QED BY <2>5
<1> DEFINE S == {d \in 0 .. e : \A f \in 1 .. d : f \in V <=> Begins(f)}
<1>5. 0 \in S
  BY <1>1
<1>6. ASSUME NEW d \in 0 + 1 .. e, d - 1 \in S PROVE d \in S
  <2>1. d \in 1 .. e /\ d \in Nat
    BY <1>1
  <2>2. \A f \in 1 .. d - 1 : f \in V <=> Begins(f)
    BY <1>6
  <2> HIDE DEF S
  <2>3. ASSUME d \in V PROVE Begins(d)
    <3>1. CASE d = 1
      BY <1>3, <2>1, <3>1
    <3>2. CASE d # 1
      <4>1. PICK g \in V : g <= e /\ d = g + width[g]
        BY <1>2, <2>3, <3>2
      <4>2. g \in Nat \ {0}
        BY <1>2
      <4>3. g \in 1 .. e
        BY <1>1, <4>1, <4>2
      <4>4. width[g] \in Nat \ {0}
        BY <1>3, <4>3
      <4>5. g \in 1 .. d - 1
        BY <2>1, <4>1, <4>2, <4>4
      <4>6. g = b[map[<<k, g>>]].c
        BY <2>2, <4>5
      <4>7. ASSUME b[map[<<k, d>>]].c < d PROVE FALSE
        <5>1. d - 1 \in 1 .. e /\ g <= d - 1 /\ d - 1 < g + width[g]
          BY <1>1, <2>1, <4>1, <4>2, <4>4
        <5>2. map[<<k, d - 1>>] = map[<<k, g>>]
          BY <1>4, <4>3, <4>6, <5>1
        <5>3. b[map[<<k, d>>]].c \in Nat /\ d < b[map[<<k, d>>]].c + width[d] /\ width[d] \in Nat
          BY <1>3, <2>1
        <5>4. b[map[<<k, d>>]].c <= d - 1 /\ d - 1 < b[map[<<k, d>>]].c + width[d]
          BY <2>1, <4>7, <5>3
        <5>5. map[<<k, d - 1>>] = map[<<k, d>>]
          BY <1>4, <2>1, <5>1, <5>4
        <5>6. width[d] = b[map[<<k, d>>]].w /\ width[g] = b[map[<<k, g>>]].w
          BY <1>3, <2>1, <4>3
        <5>7. d < g + width[g]
          BY <4>6, <5>2, <5>3, <5>5, <5>6
        <5> QED BY <2>1, <4>1, <4>2, <4>4, <5>7
      <4> QED BY <1>3, <2>1, <4>7
    <3> QED BY <3>1, <3>2
  <2>4. ASSUME Begins(d) PROVE d \in V
    <3>1. CASE d = 1
      BY <1>2, <3>1
    <3>2. CASE d # 1
      <4>1. d - 1 \in 1 .. e
        BY <1>1, <2>1, <3>2
      <4> DEFINE g == b[map[<<k, d - 1>>]].c
      <4>2. g \in Nat \ {0} /\ g <= d - 1 /\ d - 1 < g + width[d - 1]
        BY <1>3, <4>1
      <4>3. g \in 1 .. e /\ g \in 1 .. d - 1
        BY <1>1, <2>1, <4>1, <4>2
      <4>4. width[d - 1] \in Nat \ {0} /\ width[d - 1] = b[map[<<k, d - 1>>]].w
        BY <1>3, <4>1
      <4>5. g < g + width[d - 1] /\ g <= g
        BY <4>2, <4>4
      <4> DEFINE q == map[<<k, d - 1>>]
      <4>6. map[<<k, g>>] = q
        <5>1. b[map[<<k, d - 1>>]].c <= g /\ g < b[map[<<k, d - 1>>]].c + width[d - 1]
          BY <4>5
        <5> HIDE DEF g
        <5> QED BY <1>4, <4>1, <4>3, <5>1
      <4>7. g = b[map[<<k, g>>]].c /\ width[g] = width[d - 1]
        <5>1. width[g] = b[map[<<k, g>>]].w
          <6> HIDE DEF g
          <6> QED BY <1>3, <4>3
        <5> QED BY <4>4, <4>6, <5>1
      <4>8. g \in V
        <5> HIDE DEF g
        <5> QED BY <2>2, <4>3, <4>7
      <4>9. ASSUME d < g + width[d - 1] PROVE FALSE
        <5>1. map[<<k, d>>] = q
          <6>1. b[map[<<k, d - 1>>]].c <= d /\ d < b[map[<<k, d - 1>>]].c + width[d - 1]
            BY <2>1, <4>2, <4>9
          <6> HIDE DEF g
          <6> QED BY <1>4, <2>1, <4>1, <6>1
        <5>2. d = g
          BY <2>4, <5>1
        <5> HIDE DEF g
        <5> QED BY <2>1, <4>2, <5>2
      <4>10. d = g + width[g]
        <5> HIDE DEF g
        <5> QED BY <2>1, <4>2, <4>4, <4>7, <4>9
      <4> HIDE DEF g
      <4> QED BY <1>1, <1>2, <4>3, <4>8, <4>10
    <3> QED BY <3>1, <3>2
  <2>5. ASSUME NEW f \in 1 .. d PROVE f \in V <=> Begins(f)
    <3>1. f \in 1 .. d - 1 \/ f = d
      BY <2>1
    <3> HIDE DEF Begins
    <3> QED BY <2>2, <2>3, <2>4, <3>1
  <2> QED BY <2>1, <2>5 DEF S
<1>7. \A d \in 0 .. e : d \in S
  <2> HIDE DEF S
  <2> QED BY <1>1, <1>5, <1>6, UpTo
<1>8. ASSUME NEW d \in 1 .. e PROVE d \in V <=> Begins(d)
  <2>1. d \in 0 .. e /\ d \in 1 .. d
    BY <1>1
  <2>2. d \in S
    BY <1>7, <2>1
  <2> HIDE DEF Begins
  <2> QED BY <2>1, <2>2
<1> QED BY <1>8 DEF e, V

\* Each is appended where its rectangle begins, and only there.
LEMMA BrickAppended ==
    ASSUME NEW P, NEW map, IsMap(map, P), ~HasHole(map), NEW b, Bricks(map, b), NEW n \in Nat
    PROVE  /\ \A x : x \in AppendedAt(map, n) <=>
                        x \in DOMAIN map /\ x[1] \in 1 .. n /\ x = Corner(b, map[x])
           /\ Stays(map, n) = AppendedAt(map, n)
<1>1. ASSUME NEW x \in DOMAIN map
      PROVE  /\ x = <<x[1], x[2]>> /\ x[1] \in Nat /\ x[2] \in 1 .. RowEnd(map, x[1])
             /\ x[2] \in VisitedIn(map, x[1]) <=> x[2] = b[map[x]].c
  <2> DEFINE k == x[1]
             d == x[2]
  <2>1. x = <<k, d>> /\ k \in Nat
    BY BrickIs
  <2>2. d \in 1 .. RowEnd(map, k)
    <3> HIDE DEF k, d
    <3> QED BY <2>1, RowEndIs
  <2>3. d \in VisitedIn(map, k) <=> d = b[map[<<k, d>>]].c
    <3> HIDE DEF k, d
    <3> QED BY <2>2, BrickVisited
  <2> QED BY <2>1, <2>2, <2>3
<1>2. ASSUME NEW x \in DOMAIN map, x[2] = b[map[x]].c
      PROVE  (<<x[1] - 1, x[2]>> \in DOMAIN map /\ map[<<x[1] - 1, x[2]>>] = map[x]) <=> x[1] # b[map[x]].r
  <2> DEFINE p == map[x]
             y == <<x[1] - 1, x[2]>>
  <2>1. /\ b[p].r \in Nat \ {0} /\ b[p].h \in Nat \ {0} /\ b[p].w \in Nat \ {0} /\ b[p].c \in Nat \ {0}
        /\ b[p].r <= x[1] /\ x[1] < b[p].r + b[p].h /\ x[1] \in Nat /\ x[2] \in Nat
    BY BrickIs
  <2>2. y \in DOMAIN map /\ map[y] = p <=> Within(y, b[p].r, b[p].c, b[p].h, b[p].w)
    BY DEF Bricks
  <2>3. y[1] = x[1] - 1 /\ y[2] = x[2] /\ y = <<y[1], y[2]>>
    OBVIOUS
  <2>4. ASSUME x[1] # b[p].r PROVE Within(y, b[p].r, b[p].c, b[p].h, b[p].w)
    <3>1. x[1] - 1 \in Nat /\ b[p].r <= x[1] - 1 /\ x[1] - 1 < b[p].r + b[p].h
      BY <2>1, <2>4
    <3>2. b[p].c <= x[2] /\ x[2] < b[p].c + b[p].w
      BY <1>2, <2>1
    <3> HIDE DEF y, p
    <3> QED BY <2>1, <2>3, <3>1, <3>2 DEF Within
  <2>5. ASSUME Within(y, b[p].r, b[p].c, b[p].h, b[p].w) PROVE x[1] # b[p].r
    <3>1. b[p].r <= x[1] - 1
      <4> HIDE DEF y
      <4> QED BY <2>3, <2>5 DEF Within
    <3> QED BY <2>1, <3>1
  <2> QED BY <2>2, <2>4, <2>5
<1>3. ASSUME NEW x \in DOMAIN map, x[1] \in 1 .. n
      PROVE  x[2] \in AppendedColumns(map, x[1]) <=> x = Corner(b, map[x])
  <2> DEFINE k == x[1]
             d == x[2]
  <2>1. x = <<k, d>> /\ d \in 1 .. RowEnd(map, k)
    BY <1>1
  <2>2. d \in AppendedColumns(map, k) <=>
            /\ d \in VisitedIn(map, k)
            /\ d \in 1 .. RowEnd(map, k)
            /\ ~ (<<k - 1, d>> \in DOMAIN map /\ map[<<k - 1, d>>] = map[<<k, d>>])
    <3> HIDE DEF k, d
    <3> QED BY AppendedAre
  <2>3. x = Corner(b, map[x]) <=> k = b[map[x]].r /\ d = b[map[x]].c
    <3> DEFINE q == map[x]
    <3> HIDE DEF k, d, q
    <3>1. x = Corner(b, q) <=> k = b[q].r /\ d = b[q].c
      BY <2>1 DEF Corner
    <3> QED BY <3>1 DEF q
  <2>4. d \in VisitedIn(map, k) <=> d = b[map[x]].c
    BY <1>1
  <2>5. d = b[map[x]].c => (~ (<<k - 1, d>> \in DOMAIN map /\ map[<<k - 1, d>>] = map[<<k, d>>]) <=> k = b[map[x]].r)
    BY <1>2, <2>1
  <2> QED BY <2>1, <2>2, <2>3, <2>4, <2>5
<1>4. ASSUME NEW x
      PROVE  x \in AppendedAt(map, n) <=> x \in DOMAIN map /\ x[1] \in 1 .. n /\ x = Corner(b, map[x])
  <2>1. AppendedAt(map, n) \in SUBSET DOMAIN map
    BY AppendedPositions
  <2>2. x \in AppendedAt(map, n) <=> x = <<x[1], x[2]>> /\ x[1] \in 1 .. n /\ x[2] \in AppendedColumns(map, x[1])
    BY AppendedPositions
  <2> QED BY <1>1, <1>3, <2>1, <2>2
<1>5. \A x, y \in AppendedAt(map, n) : map[x] = map[y] => x = y
  BY <1>4
<1>6. \A x \in AppendedAt(map, n) : ~ Precedes(x, x)
  <2>1. \A x \in AppendedAt(map, n) : x[1] \in Nat /\ x[2] \in Nat
    BY <1>1, <1>4
  <2> QED BY <2>1 DEF Precedes
<1>7. Stays(map, n) = AppendedAt(map, n)
  BY <1>5, <1>6 DEF Stays
<1> QED BY <1>4, <1>7

\* T has one cell for each rectangle of the map, where the rectangle begins.
BricksInstalled(T, map, n, text, at) ==
    /\ T \in Tables
    /\ Len(T) = n
    /\ \A p \in Places(T) :
          /\ at[p] \in DOMAIN map
          /\ CellAt(T, p) = InstalledCell(map, text, map[at[p]])
    /\ \A p, q \in Places(T) : map[at[p]] = map[at[q]] => p = q
    /\ \A x \in DOMAIN map : \E p \in Places(T) : map[at[p]] = map[x]
    /\ Tiling(T, [p \in Places(T) |-> at[p][2]])
    /\ \A p \in Places(T) : \A x : x \in Rect(T, [q \in Places(T) |-> at[q][2]], p) <=>
                                        x \in DOMAIN map /\ map[x] = map[at[p]]

\* _InstallTableMap makes of bricks the table whose cells are these bricks: the spans are right,
\* and so are the columns that the next map will find.
THEOREM BrickInstall ==
    ASSUME NEW P, NEW map, IsMap(map, P), ~HasHole(map), NEW b, Bricks(map, b), NEW n \in Nat,
           \A x \in DOMAIN map : x[1] <= n,
           NEW text, \A x \in DOMAIN map : text[map[x]] \in SUBSET Place
    PROVE  \E at : BricksInstalled(InstallTableMap(map, n, text), map, n, text, at)
<1> DEFINE T == InstallTableMap(map, n, text)
<1>1. PICK at : Installed(T, map, n, text, at)
  BY InstallIs
<1> DEFINE col == [p \in Places(T) |-> at[p][2]]
<1> HIDE DEF T
<1>2. \A x : x \in Stays(map, n) <=> x \in DOMAIN map /\ x = Corner(b, map[x])
  <2>1. \A x \in DOMAIN map : x[1] \in 1 .. n
    BY BrickIs
  <2> QED BY <2>1, BrickAppended
<1>3. ASSUME NEW p \in Places(T)
      PROVE  /\ at[p] \in DOMAIN map /\ at[p] = Corner(b, map[at[p]])
             /\ at[p] = <<p[1], at[p][2]>>
             /\ CellAt(T, p) = InstalledCell(map, text, map[at[p]])
             /\ CellAt(T, p).rowSpan = b[map[at[p]]].h
             /\ CellAt(T, p).colSpan = b[map[at[p]]].w
             /\ at[p][2] \in Nat \ {0}
  <2>1. at[p] \in Stays(map, n)
    BY <1>1 DEF Installed
  <2>2. at[p] \in DOMAIN map /\ at[p] = Corner(b, map[at[p]])
    BY <1>2, <2>1
  <2>3. at[p] = <<at[p][1], at[p][2]>> /\ at[p][1] = p[1] /\ at[p][2] \in Nat \ {0}
    BY <1>1, <2>2, BrickIs DEF Installed
  <2>4. CellAt(T, p) = InstalledCell(map, text, map[at[p]])
    BY <1>1 DEF Installed
  <2>5. ColSpan(map, map[at[p]]) = b[map[at[p]]].w /\ RowSpan(map, map[at[p]]) = b[map[at[p]]].h
    BY <2>2, BrickSpans
  <2> QED BY <2>2, <2>3, <2>4, <2>5 DEF InstalledCell, TableCell
<1>4. ASSUME NEW p \in Places(T), NEW q \in Places(T), map[at[p]] = map[at[q]] PROVE p = q
  <2>1. at[p] = at[q]
    BY <1>3, <1>4
  <2> QED BY <1>1, <2>1 DEF Installed
<1>5. ASSUME NEW x \in DOMAIN map PROVE \E p \in Places(T) : map[at[p]] = map[x]
  <2> DEFINE y == Corner(b, map[x])
  <2>1. y \in DOMAIN map /\ map[y] = map[x]
    BY BrickIs
  <2>2. y \in Stays(map, n)
    BY <1>2, <2>1
  <2>3. PICK p \in Places(T) : at[p] = y
    BY <1>1, <2>2 DEF Installed
  <2> QED BY <2>1, <2>3
<1>6. T \in Tables /\ Len(T) = n
  BY <1>1 DEF Installed
<1>7. col \in [Places(T) -> Nat \ {0}]
  BY <1>3
<1>8. ASSUME NEW p \in Places(T), NEW x
      PROVE  x \in Rect(T, col, p) <=> x \in DOMAIN map /\ map[x] = map[at[p]]
  <2> DEFINE q == map[at[p]]
  <2>1. x \in Rect(T, col, p) <=> Within(x, p[1], col[p], CellAt(T, p).rowSpan, CellAt(T, p).colSpan)
    <3> HIDE DEF col
    <3> QED BY <1>6, <1>7, RectIs
  <2>2. x \in DOMAIN map /\ map[x] = q <=> Within(x, b[q].r, b[q].c, b[q].h, b[q].w)
    BY <1>3 DEF Bricks
  <2>3. col[p] = at[p][2]
    OBVIOUS
  <2> HIDE DEF col
  <2>4. p[1] = b[q].r /\ col[p] = b[q].c
    <3>1. <<p[1], col[p]>> = <<b[q].r, b[q].c>>
      BY <1>3, <2>3 DEF Corner
    <3> HIDE DEF q
    <3> QED BY <3>1
  <2>5. CellAt(T, p).rowSpan = b[q].h /\ CellAt(T, p).colSpan = b[q].w
    BY <1>3
  <2> HIDE DEF q
  <2>6. x \in Rect(T, col, p) <=> x \in DOMAIN map /\ map[x] = q
    BY <2>1, <2>2, <2>4, <2>5
  <2> QED BY <2>6 DEF q
<1>9. Tiling(T, col)
  <2>1. ASSUME NEW p \in Places(T), NEW q \in Places(T), p # q PROVE Rect(T, col, p) \cap Rect(T, col, q) = {}
    <3> HIDE DEF col
    <3> QED BY <1>4, <1>8, <2>1
  <2>2. ASSUME NEW p \in Places(T), NEW d \in 1 .. col[p] - 1
        PROVE  \E q \in Places(T) : <<p[1], d>> \in Rect(T, col, q)
    <3>1. at[p] \in DOMAIN map /\ at[p] = <<p[1], col[p]>> /\ col[p] \in Nat
      BY <1>3
    <3> HIDE DEF col
    <3>2. d \in 1 .. at[p][2] /\ at[p][1] = p[1]
      BY <2>2, <3>1
    <3>3. <<p[1], d>> \in DOMAIN map
      BY <3>1, <3>2 DEF HasHole
    <3> QED BY <1>5, <1>8, <3>3
  <2>3. ASSUME NEW p \in Places(T), NEW q \in Places(T), p[1] = q[1], p[2] < q[2] PROVE col[p] < col[q]
    BY <1>1, <2>3 DEF Installed
  <2> HIDE DEF col
  <2> QED BY <1>7, <2>1, <2>2, <2>3 DEF Tiling
<1>10. BricksInstalled(T, map, n, text, at)
  BY <1>3, <1>4, <1>5, <1>6, <1>8, <1>9 DEF BricksInstalled
<1> QED BY <1>10 DEF T

\* All the text of the map is in the table, and no other.
LEMMA BrickText ==
    ASSUME NEW map, NEW n, NEW text, NEW T, NEW at, BricksInstalled(T, map, n, text, at)
    PROVE  /\ \A x \in DOMAIN map : text[map[x]] \subseteq AllText(T)
           /\ \A v \in AllText(T) : \E x \in DOMAIN map : v \in text[map[x]]
<1>1. ASSUME NEW x \in DOMAIN map, NEW v \in text[map[x]] PROVE v \in AllText(T)
  <2>1. PICK p \in Places(T) : map[at[p]] = map[x]
    BY DEF BricksInstalled
  <2>2. CellAt(T, p).text = text[map[x]]
    BY <2>1 DEF BricksInstalled, InstalledCell, TableCell
  <2> QED BY <2>1, <2>2, AllTextIs
<1>2. ASSUME NEW v \in AllText(T) PROVE \E x \in DOMAIN map : v \in text[map[x]]
  <2>1. PICK p \in Places(T) : v \in CellAt(T, p).text
    BY AllTextIs
  <2>2. at[p] \in DOMAIN map /\ CellAt(T, p).text = text[map[at[p]]]
    BY DEF BricksInstalled, InstalledCell, TableCell
  <2> QED BY <2>1, <2>2
<1> QED BY <1>1, <1>2

\* A table that is rows full of rectangles has a full grid.
LEMMA FullGridIs ==
    ASSUME NEW t \in Tables, NEW col, Tiling(t, col), Len(t) > 0, NEW W \in Nat,
           \A x : (\E p \in Places(t) : x \in Rect(t, col, p)) <=> x \in (1 .. Len(t)) \X (1 .. W)
    PROVE  FullGrid(t)
<1> DEFINE map == CreateTableMap(t)
<1>1. /\ \A p \in Places(t) : \A x \in Rect(t, col, p) : x \in DOMAIN map /\ map[x] = p
      /\ \A x \in DOMAIN map : x \in Rect(t, col, map[x])
  BY TilingIsMapped
<1>2. IsMap(map, Places(t))
  BY CreateTableMapLays DEF Laid
<1> HIDE DEF map
<1>3. DOMAIN map = (1 .. Len(t)) \X (1 .. W)
  <2>1. \A x \in DOMAIN map : map[x] \in Places(t)
    BY <1>2 DEF IsMap
  <2>2. \A x : x \in DOMAIN map <=> \E p \in Places(t) : x \in Rect(t, col, p)
    BY <1>1, <2>1
  <2> QED BY <2>2
<1>4. Len(t) \in Nat /\ 1 \in 1 .. Len(t)
  BY TableIs
<1>5. RowEnd(map, 1) = W
  <2>1. /\ RowEnd(map, 1) \in Nat
        /\ \A c : <<1, c>> \in DOMAIN map => c \in 1 .. RowEnd(map, 1)
        /\ RowEnd(map, 1) # 0 => <<1, RowEnd(map, 1)>> \in DOMAIN map
    BY <1>2, RowEndIs
  <2>2. \A c : <<1, c>> \in DOMAIN map <=> c \in 1 .. W
    BY <1>3, <1>4
  <2>3. W # 0 => W \in 1 .. RowEnd(map, 1)
    <3>1. W # 0 => W \in 1 .. W
      OBVIOUS
    <3>2. W # 0 => <<1, W>> \in DOMAIN map
      BY <2>2, <3>1
    <3> QED BY <2>1, <3>2
  <2>4. RowEnd(map, 1) # 0 => RowEnd(map, 1) \in 1 .. W
    BY <2>1, <2>2
  <2> QED BY <2>1, <2>3, <2>4
<1>6. ASSUME NEW p \in Places(t)
      PROVE  Cardinality(Positions(map, {p})) = CellAt(t, p).colSpan * CellAt(t, p).rowSpan
  <2>1. \A x : x \in Positions(map, {p}) <=> x \in Rect(t, col, p)
    BY <1>1 DEF Positions
  <2>2. Positions(map, {p}) = Rect(t, col, p)
    BY <2>1
  <2>3. col \in [Places(t) -> Nat \ {0}]
    BY DEF Tiling
  <2> QED BY <2>2, <2>3, RectIs
<1>7. Whole(t, map)
  BY <1>6 DEF Whole
<1> QED BY <1>3, <1>5, <1>7 DEF FullGrid, map

\* Such a map full of rows makes a full grid.
LEMMA InstalledGrid ==
    ASSUME NEW T, NEW map, NEW n \in Nat \ {0}, NEW text, NEW at, BricksInstalled(T, map, n, text, at),
           NEW W \in Nat, DOMAIN map = (1 .. n) \X (1 .. W)
    PROVE  FullGrid(T)
<1> DEFINE col == [p \in Places(T) |-> at[p][2]]
<1>1. T \in Tables /\ Len(T) = n /\ Tiling(T, col)
  BY DEF BricksInstalled
<1>2. ASSUME NEW x PROVE (\E p \in Places(T) : x \in Rect(T, col, p)) <=> x \in DOMAIN map
  BY DEF BricksInstalled
<1> HIDE DEF col
<1>3. \A x : (\E p \in Places(T) : x \in Rect(T, col, p)) <=> x \in (1 .. Len(T)) \X (1 .. W)
  BY <1>1, <1>2
<1>4. Len(T) > 0
  BY <1>1
<1> HIDE DEF BricksInstalled
<1> QED BY <1>1, <1>3, <1>4, FullGridIs

\* The cells of a table that nothing covers are rectangles.
CellBricks(map, t) ==
    [p \in Places(t) |-> [r |-> p[1], c |-> CellColumn(map, p),
                          h |-> CellAt(t, p).rowSpan, w |-> CellAt(t, p).colSpan]]

\* The block of a cell, its first position, and what of the map is in it.
LEMMA CellBlockIs ==
    ASSUME NEW t \in Tables, NEW map, Laid(map, t), NEW p \in Places(t)
    PROVE  /\ p = <<p[1], p[2]>> /\ p[1] \in 1 .. Len(t) /\ p[1] \in Nat \ {0}
           /\ CellColumn(map, p) \in Nat \ {0}
           /\ CellAt(t, p).rowSpan \in Nat \ {0} /\ CellAt(t, p).colSpan \in Nat \ {0}
           /\ \A x : x \in CellBlock(map, t, p) <=>
                        Within(x, p[1], CellColumn(map, p), CellAt(t, p).rowSpan, CellAt(t, p).colSpan)
           /\ IsFiniteSet(CellBlock(map, t, p))
           /\ Cardinality(CellBlock(map, t, p)) = CellAt(t, p).colSpan * CellAt(t, p).rowSpan
           /\ CellBlock(map, t, p) \subseteq DOMAIN map
           /\ Positions(map, {p}) \subseteq CellBlock(map, t, p)
           /\ <<p[1], CellColumn(map, p)>> \in Positions(map, {p})
<1> DEFINE r == p[1]
           c == CellColumn(map, p)
           h == CellAt(t, p).rowSpan
           w == CellAt(t, p).colSpan
<1>1. p = <<p[1], p[2]>> /\ p[1] \in 1 .. Len(t) /\ r \in Nat \ {0}
  BY PlacesOf DEF Position
<1>2. c \in Nat \ {0} /\ h \in Nat \ {0} /\ w \in Nat \ {0}
  BY CellIs DEF Laid
<1>3. CellBlock(map, t, p) = Block(r, c, h, w)
  BY DEF CellBlock
<1>4. CellBlock(map, t, p) \subseteq DOMAIN map /\ <<p[1], CellColumn(map, p)>> \in Positions(map, {p})
  BY DEF Laid, Positions
<1>5. Positions(map, {p}) \subseteq CellBlock(map, t, p)
  <2> SUFFICES ASSUME NEW x \in Positions(map, {p}) PROVE x \in CellBlock(map, t, p)
    OBVIOUS
  <2>1. x \in DOMAIN map /\ map[x] = p
    BY DEF Positions
  <2> QED BY <2>1 DEF Laid
<1> HIDE DEF r, c, h, w
<1>6. /\ IsFiniteSet(Block(r, c, h, w))
      /\ Cardinality(Block(r, c, h, w)) = w * h
      /\ \A x : x \in Block(r, c, h, w) <=> Within(x, r, c, h, w)
  BY <1>1, <1>2, BlockIs
<1> QED BY <1>1, <1>2, <1>3, <1>4, <1>5, <1>6 DEF r, c, h, w

\* Where nothing covers a cell its positions are its block.
LEMMA WholeIs ==
    ASSUME NEW t \in Tables, NEW map, Laid(map, t), Whole(t, map)
    PROVE  /\ Bricks(map, CellBricks(map, t))
           /\ \A p \in Places(t) : Positions(map, {p}) = CellBlock(map, t, p)
<1>1. ASSUME NEW p \in Places(t) PROVE Positions(map, {p}) = CellBlock(map, t, p)
  <2> DEFINE A == Positions(map, {p})
             B == CellBlock(map, t, p)
  <2>1. A \in SUBSET B /\ IsFiniteSet(B) /\ Cardinality(B) = CellAt(t, p).colSpan * CellAt(t, p).rowSpan
    BY CellBlockIs
  <2>2. Cardinality(A) = Cardinality(B)
    BY <2>1 DEF Whole
  <2> HIDE DEF A, B
  <2>3. A = B
    BY <2>1, <2>2, FS_Subset
  <2> QED BY <2>3 DEF A, B
<1>2. ASSUME NEW x \in DOMAIN map
      PROVE  LET q == CellBricks(map, t)[map[x]]
             IN  /\ q.r \in Nat \ {0} /\ q.c \in Nat \ {0} /\ q.h \in Nat \ {0} /\ q.w \in Nat \ {0}
                 /\ \A y : y \in DOMAIN map /\ map[y] = map[x] <=> Within(y, q.r, q.c, q.h, q.w)
  <2> DEFINE p == map[x]
             q == CellBricks(map, t)[p]
  <2>1. p \in Places(t)
    BY DEF Laid, IsMap
  <2> HIDE DEF p
  <2>2. q.r = p[1] /\ q.c = CellColumn(map, p) /\ q.h = CellAt(t, p).rowSpan /\ q.w = CellAt(t, p).colSpan
    BY <2>1 DEF CellBricks
  <2>3. \A y : y \in DOMAIN map /\ map[y] = p <=> y \in CellBlock(map, t, p)
    BY <1>1, <2>1 DEF Positions
  <2>4. /\ p[1] \in Nat \ {0} /\ CellColumn(map, p) \in Nat \ {0}
        /\ CellAt(t, p).rowSpan \in Nat \ {0} /\ CellAt(t, p).colSpan \in Nat \ {0}
        /\ \A y : y \in CellBlock(map, t, p) <=>
                    Within(y, p[1], CellColumn(map, p), CellAt(t, p).rowSpan, CellAt(t, p).colSpan)
    BY <2>1, CellBlockIs
  <2> HIDE DEF q
  <2>5. \A y : y \in DOMAIN map /\ map[y] = p <=> Within(y, q.r, q.c, q.h, q.w)
    BY <2>2, <2>3, <2>4
  <2> QED BY <2>2, <2>4, <2>5 DEF p, q
<1> QED BY <1>1, <1>2 DEF Bricks

\* Cells that fill a rectangle become a rectangle.
MergedBricks(b, P, ref, r, c, h, w) ==
    [p \in P |-> IF p = ref THEN [r |-> r, c |-> c, h |-> h, w |-> w] ELSE b[p]]

\* Bricks that make a rectangle are merged into one.
LEMMA MergedBricksAre ==
    ASSUME NEW P, NEW map, IsMap(map, P), NEW b, Bricks(map, b), NEW S, NEW ref \in P, ref \in S,
           NEW r \in Nat \ {0}, NEW c \in Nat \ {0}, NEW h \in Nat \ {0}, NEW w \in Nat \ {0},
           \A x : x \in Positions(map, S) <=> Within(x, r, c, h, w)
    PROVE  Bricks(Merged(map, S, ref), MergedBricks(b, P, ref, r, c, h, w))
<1> DEFINE m == Merged(map, S, ref)
           d == MergedBricks(b, P, ref, r, c, h, w)
<1>1. /\ DOMAIN m = DOMAIN map
      /\ \A x \in DOMAIN map : m[x] = IF map[x] \in S THEN ref ELSE map[x]
      /\ \A x \in DOMAIN map : map[x] \in P
  <2>1. DOMAIN m = DOMAIN map /\ \A x \in DOMAIN map : m[x] = IF map[x] \in S THEN ref ELSE map[x]
    BY MergedIs
  <2>2. \A x \in DOMAIN map : map[x] \in P
    BY DEF IsMap
  <2> HIDE DEF m
  <2> QED BY <2>1, <2>2
<1>2. \A x : x \in DOMAIN map /\ map[x] \in S <=> Within(x, r, c, h, w)
  BY DEF Positions
<1>3. \A p \in P : d[p] = IF p = ref THEN [r |-> r, c |-> c, h |-> h, w |-> w] ELSE b[p]
  BY DEF MergedBricks
<1> HIDE DEF m, d
<1>4. ASSUME NEW x \in DOMAIN m, map[x] \in S
      PROVE  LET q == d[m[x]]
             IN  /\ q.r \in Nat \ {0} /\ q.c \in Nat \ {0} /\ q.h \in Nat \ {0} /\ q.w \in Nat \ {0}
                 /\ \A y : y \in DOMAIN m /\ m[y] = m[x] <=> Within(y, q.r, q.c, q.h, q.w)
  <2>1. m[x] = ref
    BY <1>1, <1>4
  <2>2. d[ref].r = r /\ d[ref].c = c /\ d[ref].h = h /\ d[ref].w = w
    BY <1>3
  <2>3. \A y \in DOMAIN map : m[y] = ref <=> map[y] \in S
    BY <1>1
  <2>4. \A y : y \in DOMAIN m /\ m[y] = ref <=> Within(y, r, c, h, w)
    BY <1>1, <1>2, <2>3
  <2> QED BY <2>1, <2>2, <2>4
<1>5. ASSUME NEW x \in DOMAIN m, map[x] \notin S
      PROVE  LET q == d[m[x]]
             IN  /\ q.r \in Nat \ {0} /\ q.c \in Nat \ {0} /\ q.h \in Nat \ {0} /\ q.w \in Nat \ {0}
                 /\ \A y : y \in DOMAIN m /\ m[y] = m[x] <=> Within(y, q.r, q.c, q.h, q.w)
  <2> DEFINE p == map[x]
  <2>1. m[x] = p /\ p # ref /\ p \in P /\ x \in DOMAIN map
    BY <1>1, <1>5
  <2>2. d[p] = b[p]
    BY <1>3, <2>1
  <2>3. \A y \in DOMAIN map : m[y] = p <=> map[y] = p
    BY <1>1, <1>5, <2>1
  <2>4. /\ b[p].r \in Nat \ {0} /\ b[p].c \in Nat \ {0} /\ b[p].h \in Nat \ {0} /\ b[p].w \in Nat \ {0}
        /\ \A y : y \in DOMAIN map /\ map[y] = p <=> Within(y, b[p].r, b[p].c, b[p].h, b[p].w)
    BY <2>1 DEF Bricks
  <2> HIDE DEF p
  <2>5. \A y : y \in DOMAIN m /\ m[y] = p <=> Within(y, b[p].r, b[p].c, b[p].h, b[p].w)
    BY <1>1, <2>3, <2>4
  <2> QED BY <2>1, <2>2, <2>4, <2>5
<1>6. Bricks(m, d)
  BY <1>4, <1>5 DEF Bricks
<1> QED BY <1>6 DEF m, d

\* A table without holes and overlaps can be merged and split.
GridOf(t, map, W) ==
    /\ W \in Nat
    /\ DOMAIN map = (1 .. Len(t)) \X (1 .. W)
    /\ Tiled(t, map)
    /\ MapRows(map, t) = Len(t)

\* A grid is tiled, and its map has no holes.
LEMMA GridIsTiled ==
    ASSUME NEW t \in Tables, FullGrid(t)
    PROVE  GridOf(t, CreateTableMap(t), RowEnd(CreateTableMap(t), 1))
<1> DEFINE map == CreateTableMap(t)
           W == RowEnd(map, 1)
<1>1. IsMap(map, Places(t))
  BY CreateTableMapLays DEF Laid
<1>2. DOMAIN map = (1 .. Len(t)) \X (1 .. W) /\ Whole(t, map)
  BY DEF FullGrid
<1> HIDE DEF map
<1>3. W \in Nat
  BY <1>1, RowEndIs
<1> HIDE DEF W
<1>4. Len(t) \in Nat
  BY TableIs
<1>5. ~ HasHole(map)
  <2>1. ASSUME NEW x \in DOMAIN map, NEW k \in 1 .. x[2] PROVE <<x[1], k>> \in DOMAIN map
    <3>1. x[1] \in 1 .. Len(t) /\ x[2] \in 1 .. W
      BY <1>2
    <3>2. k \in 1 .. W
      BY <1>3, <3>1
    <3> QED BY <1>2, <3>1, <3>2
  <2> QED BY <2>1 DEF HasHole
<1>6. MapRows(map, t) = Len(t)
  <2>1. \A x \in DOMAIN map : x[1] \in 1 .. Len(t)
    BY <1>2
  <2>2. MapRows(map, t) \in Nat /\ Len(t) <= MapRows(map, t)
    BY <1>1, MapRowsIs
  <2>3. MapRows(map, t) = Len(t) \/ \E x \in DOMAIN map : x[1] = MapRows(map, t)
    BY <1>1, MapRowsIs
  <2> QED BY <1>4, <2>1, <2>2, <2>3
<1>7. GridOf(t, map, W)
  BY <1>2, <1>3, <1>5, <1>6 DEF GridOf, Tiled
<1> QED BY <1>7 DEF map, W

\* A merge of cells that fill a rectangle of a table without holes and overlaps.
LEMMA MergedBrickIs ==
    ASSUME NEW t \in Tables, NEW map, Laid(map, t), Tiled(t, map), NEW S \in SUBSET Places(t),
           NEW ref \in S,
           NEW r \in Nat \ {0}, NEW c \in Nat \ {0}, NEW h \in Nat \ {0}, NEW w \in Nat \ {0},
           \A x : x \in Positions(map, S) <=> Within(x, r, c, h, w),
           NEW taken, taken = S, NEW lost
    PROVE  /\ Inherits(MergeInto(t, map, S, ref, taken, lost), t)
           /\ Separate(t) =>
                AllText(MergeInto(t, map, S, ref, taken, lost)) = AllText(t) \ (lost \cap CellsText(t, S))
           /\ \A W : GridOf(t, map, W) => FullGrid(MergeInto(t, map, S, ref, taken, lost))
<1> DEFINE m == Merged(map, S, ref)
           n == MapRows(map, t)
           text == MergedTexts(t, map, S, ref, taken, lost)
           T == InstallTableMap(m, n, text)
           d == MergedBricks(CellBricks(map, t), Places(t), ref, r, c, h, w)
<1>1. IsMap(map, Places(t)) /\ ref \in Places(t) /\ taken \in SUBSET Places(t)
  BY DEF Laid
<1>2. MergeInto(t, map, S, ref, taken, lost) = T /\ Inherits(MergeInto(t, map, S, ref, taken, lost), t)
  BY <1>1, MergeIntoIs
<1>3. /\ IsMap(m, Places(t))
      /\ DOMAIN m = DOMAIN map
      /\ \A x \in DOMAIN map : m[x] = IF map[x] \in S THEN ref ELSE map[x]
  BY <1>1, MergedIs
<1>4. Bricks(m, d)
  <2>1. Bricks(map, CellBricks(map, t))
    BY WholeIs DEF Tiled
  <2> QED BY <1>1, <2>1, MergedBricksAre
<1>5. IdTexts(m, text, t)
  BY <1>1, MergedTextsAre
<1>6. \A x \in DOMAIN m : text[m[x]] = IF m[x] = ref THEN MergedText(t, ref, taken) \ lost
                                        ELSE IF m[x] \in taken THEN {} ELSE CellAt(t, m[x]).text
  BY DEF MergedTexts, Range
<1> HIDE DEF m, text, d
<1>7. ~ HasHole(m)
  BY <1>3 DEF HasHole, Tiled
<1>8. n \in Nat /\ \A x \in DOMAIN m : x[1] <= n
  <2>1. n \in Nat /\ \A x \in DOMAIN map : x[1] \in 1 .. n
    BY <1>1, MapRowsIs
  <2> QED BY <1>3, <2>1
<1> HIDE DEF n
<1>9. \A x \in DOMAIN m : text[m[x]] \in SUBSET Place
  BY <1>5 DEF IdTexts
<1>10. \E at : BricksInstalled(T, m, n, text, at)
  BY <1>3, <1>4, <1>7, <1>8, <1>9, BrickInstall
<1> HIDE DEF T
<1>11. PICK at : BricksInstalled(T, m, n, text, at)
  BY <1>10
<1>12. /\ \A x \in DOMAIN m : text[m[x]] \subseteq AllText(T)
       /\ \A v \in AllText(T) : \E x \in DOMAIN m : v \in text[m[x]]
  BY <1>11, BrickText
<1> DEFINE gone == lost \cap CellsText(t, S)
<1>13. \A v : v \in gone <=> v \in lost /\ \E p \in S : v \in CellAt(t, p).text
  BY DEF CellsText
<1> HIDE DEF gone
<1>14. ASSUME Separate(t) PROVE AllText(T) = AllText(t) \ gone
  <2>1. ASSUME NEW v \in AllText(t), v \notin gone PROVE v \in AllText(T)
    <3>1. PICK p \in Places(t) : v \in CellAt(t, p).text
      BY AllTextIs
    <3>2. PICK x \in DOMAIN map : map[x] = p
      BY DEF Laid
    <3>3. CASE p \in S
      <4>1. m[x] = ref /\ x \in DOMAIN m
        BY <1>3, <3>2, <3>3
      <4>2. text[ref] = MergedText(t, ref, taken) \ lost
        BY <1>6, <4>1
      <4>3. v \in MergedText(t, ref, taken)
        BY <3>1, <3>3, MergedTextIs
      <4>4. v \notin lost
        BY <1>13, <2>1, <3>1, <3>3
      <4> QED BY <1>12, <4>1, <4>2, <4>3, <4>4
    <3>4. CASE p \notin S
      <4>1. m[x] = p /\ x \in DOMAIN m /\ p # ref /\ p \notin taken
        BY <1>3, <3>2, <3>4
      <4>2. text[p] = CellAt(t, p).text
        BY <1>6, <4>1
      <4> QED BY <1>12, <3>1, <4>1, <4>2
    <3> QED BY <3>3, <3>4
  <2>2. ASSUME NEW v \in AllText(T), v \in gone PROVE FALSE
    <3>1. PICK p \in S : v \in lost /\ v \in CellAt(t, p).text
      BY <1>13, <2>2
    <3>2. PICK x \in DOMAIN m : v \in text[m[x]]
      BY <1>12
    <3>3. CASE m[x] = ref
      BY <1>6, <3>1, <3>2, <3>3
    <3>4. CASE m[x] # ref
      <4>1. m[x] \notin S /\ v \in CellAt(t, m[x]).text
        BY <1>6, <3>2, <3>4
      <4>2. m[x] \in Places(t) /\ p \in Places(t) /\ m[x] # p
        BY <1>3, <3>1, <4>1 DEF IsMap
      <4> QED BY <1>14, <3>1, <4>1, <4>2 DEF Separate
    <3> QED BY <3>3, <3>4
  <2>3. AllText(T) \subseteq AllText(t)
    BY <1>2 DEF Inherits
  <2> QED BY <2>1, <2>2, <2>3
<1>15. ASSUME NEW W, GridOf(t, map, W) PROVE FullGrid(T)
  <2>1. DOMAIN m = (1 .. n) \X (1 .. W) /\ W \in Nat /\ n = Len(t)
    BY <1>3, <1>15 DEF GridOf, n
  <2>2. n # 0
    <3>1. ref[1] \in 1 .. Len(t)
      BY <1>1, PlacesOf
    <3> QED BY <2>1, <3>1
  <2> QED BY <1>8, <1>11, <2>1, <2>2, InstalledGrid
<1> QED BY <1>2, <1>14, <1>15 DEF gone

----------------------------------------------------------------------------
(* The geometry of marked positions                                        *)

InColumn(M, j, a, n) == \A k \in Int : <<k, j>> \in M <=> a <= k /\ k < a + n
InRow(M, i, a, n) == \A k \in Int : <<i, k>> \in M <=> a <= k /\ k < a + n

\* The marked positions of a column without gaps.
LEMMA ColumnGeometry ==
    ASSUME NEW map, NEW S, IsFiniteSet(Positions(map, S)), NEW i \in Int, NEW j \in Int,
           NEW a \in Int, NEW n \in Nat, a <= i, i < a + n,
           InColumn(Positions(map, S), j, a, n)
    PROVE  /\ MarkerGeometry(map, <<i, j>>, S).height = n
           /\ MarkerGeometry(map, <<i, j>>, S).y = i - a
<1> DEFINE M == Positions(map, S)
           x == <<i, j>>
           z == <<i - 1, j>>
           up == RunLength(M, <<x[1] - 1, x[2]>>, -1, 0)
           down == RunLength(M, x, 1, 0)
<1>1. /\ MarkerGeometry(map, x, S).height = up + down
      /\ MarkerGeometry(map, x, S).y = up
  BY DEF MarkerGeometry
<1>2. \A k \in Int : <<k, j>> \in M <=> a <= k /\ k < a + n
  BY DEF InColumn
<1>3. IsFiniteSet(M)
  OBVIOUS
<1>4. <<-1, 0>> \in Directions /\ <<1, 0>> \in Directions
  BY DEF Directions
<1>5. z \in Int \X Int /\ x \in Int \X Int /\ <<x[1] - 1, x[2]>> = z
  OBVIOUS
<1>6. \A l \in Int : At(z, l, -1, 0) = <<i - 1 - l, j>> /\ At(x, l, 1, 0) = <<i + l, j>>
  BY DEF At
<1> HIDE DEF M, x, z
<1>7. RunOf(i - a, M, z, -1, 0)
  <2>1. i - a \in Nat
    OBVIOUS
  <2>2. ASSUME NEW l \in 0 .. (i - a) - 1 PROVE At(z, l, -1, 0) \in M
    <3>0. l \in Int /\ i - 1 - l \in Int
      OBVIOUS
    <3>1. At(z, l, -1, 0) = <<i - 1 - l, j>>
      BY <1>6, <3>0
    <3>2. a <= i - 1 - l /\ i - 1 - l < a + n
      OBVIOUS
    <3> QED BY <1>2, <3>0, <3>1, <3>2
  <2>3. At(z, i - a, -1, 0) \notin M
    <3>1. i - a \in Int /\ i - 1 - (i - a) = a - 1
      OBVIOUS
    <3>2. At(z, i - a, -1, 0) = <<i - 1 - (i - a), j>>
      BY <1>6, <3>1
    <3>3. a - 1 \in Int /\ a \in Int /\ a + n \in Int
      OBVIOUS
    <3> QED BY <1>2, <3>1, <3>2, <3>3
  <2> QED BY <2>1, <2>2, <2>3 DEF RunOf
<1>8. RunOf(a + n - i, M, x, 1, 0)
  <2>1. a + n - i \in Nat
    OBVIOUS
  <2>2. ASSUME NEW l \in 0 .. (a + n - i) - 1 PROVE At(x, l, 1, 0) \in M
    <3>0. l \in Int /\ i + l \in Int
      OBVIOUS
    <3>1. At(x, l, 1, 0) = <<i + l, j>>
      BY <1>6, <3>0
    <3>2. a <= i + l /\ i + l < a + n
      OBVIOUS
    <3> QED BY <1>2, <3>0, <3>1, <3>2
  <2>3. At(x, a + n - i, 1, 0) \notin M
    <3>1. a + n - i \in Int /\ i + (a + n - i) = a + n
      OBVIOUS
    <3>2. At(x, a + n - i, 1, 0) = <<i + (a + n - i), j>>
      BY <1>6, <3>1
    <3>3. a - 1 \in Int /\ a \in Int /\ a + n \in Int
      OBVIOUS
    <3> QED BY <1>2, <3>1, <3>2, <3>3
  <2> QED BY <2>1, <2>2, <2>3 DEF RunOf
<1>9. RunLength(M, z, -1, 0) = i - a
  BY <1>3, <1>4, <1>5, <1>7, RunIsUnique
<1>10. RunLength(M, x, 1, 0) = a + n - i
  BY <1>3, <1>4, <1>5, <1>8, RunIsUnique
<1>11. up = i - a /\ down = a + n - i
  BY <1>5, <1>9, <1>10
<1> HIDE DEF up, down
<1>12. MarkerGeometry(map, x, S).height = n /\ MarkerGeometry(map, x, S).y = i - a
  BY <1>1, <1>11
<1> QED BY <1>12 DEF x

\* The marked positions of a row without gaps.
LEMMA RowGeometry ==
    ASSUME NEW map, NEW S, IsFiniteSet(Positions(map, S)), NEW i \in Int, NEW j \in Int,
           NEW a \in Int, NEW n \in Nat, a <= j, j < a + n,
           InRow(Positions(map, S), i, a, n)
    PROVE  /\ MarkerGeometry(map, <<i, j>>, S).width = n
           /\ MarkerGeometry(map, <<i, j>>, S).x = j - a
<1> DEFINE M == Positions(map, S)
           x == <<i, j>>
           z == <<i, j - 1>>
           left == RunLength(M, <<x[1], x[2] - 1>>, 0, -1)
           right == RunLength(M, x, 0, 1)
<1>1. /\ MarkerGeometry(map, x, S).width = left + right
      /\ MarkerGeometry(map, x, S).x = left
  BY DEF MarkerGeometry
<1>2. \A k \in Int : <<i, k>> \in M <=> a <= k /\ k < a + n
  BY DEF InRow
<1>3. IsFiniteSet(M)
  OBVIOUS
<1>4. <<0, -1>> \in Directions /\ <<0, 1>> \in Directions
  BY DEF Directions
<1>5. z \in Int \X Int /\ x \in Int \X Int /\ <<x[1], x[2] - 1>> = z
  OBVIOUS
<1>6. \A l \in Int : At(z, l, 0, -1) = <<i, j - 1 - l>> /\ At(x, l, 0, 1) = <<i, j + l>>
  BY DEF At
<1> HIDE DEF M, x, z
<1>7. RunOf(j - a, M, z, 0, -1)
  <2>1. j - a \in Nat
    OBVIOUS
  <2>2. ASSUME NEW l \in 0 .. (j - a) - 1 PROVE At(z, l, 0, -1) \in M
    <3>0. l \in Int /\ j - 1 - l \in Int
      OBVIOUS
    <3>1. At(z, l, 0, -1) = <<i, j - 1 - l>>
      BY <1>6, <3>0
    <3>2. a <= j - 1 - l /\ j - 1 - l < a + n
      OBVIOUS
    <3> QED BY <1>2, <3>0, <3>1, <3>2
  <2>3. At(z, j - a, 0, -1) \notin M
    <3>1. j - a \in Int /\ j - 1 - (j - a) = a - 1
      OBVIOUS
    <3>2. At(z, j - a, 0, -1) = <<i, j - 1 - (j - a)>>
      BY <1>6, <3>1
    <3>3. a - 1 \in Int /\ a \in Int /\ a + n \in Int
      OBVIOUS
    <3> QED BY <1>2, <3>1, <3>2, <3>3
  <2> QED BY <2>1, <2>2, <2>3 DEF RunOf
<1>8. RunOf(a + n - j, M, x, 0, 1)
  <2>1. a + n - j \in Nat
    OBVIOUS
  <2>2. ASSUME NEW l \in 0 .. (a + n - j) - 1 PROVE At(x, l, 0, 1) \in M
    <3>0. l \in Int /\ j + l \in Int
      OBVIOUS
    <3>1. At(x, l, 0, 1) = <<i, j + l>>
      BY <1>6, <3>0
    <3>2. a <= j + l /\ j + l < a + n
      OBVIOUS
    <3> QED BY <1>2, <3>0, <3>1, <3>2
  <2>3. At(x, a + n - j, 0, 1) \notin M
    <3>1. a + n - j \in Int /\ j + (a + n - j) = a + n
      OBVIOUS
    <3>2. At(x, a + n - j, 0, 1) = <<i, j + (a + n - j)>>
      BY <1>6, <3>1
    <3>3. a - 1 \in Int /\ a \in Int /\ a + n \in Int
      OBVIOUS
    <3> QED BY <1>2, <3>1, <3>2, <3>3
  <2> QED BY <2>1, <2>2, <2>3 DEF RunOf
<1>9. RunLength(M, z, 0, -1) = j - a
  BY <1>3, <1>4, <1>5, <1>7, RunIsUnique
<1>10. RunLength(M, x, 0, 1) = a + n - j
  BY <1>3, <1>4, <1>5, <1>8, RunIsUnique
<1>11. left = j - a /\ right = a + n - j
  BY <1>5, <1>9, <1>10
<1> HIDE DEF left, right
<1>12. MarkerGeometry(map, x, S).width = n /\ MarkerGeometry(map, x, S).x = j - a
  BY <1>1, <1>11
<1> QED BY <1>12 DEF x

\* The positions of these cells are a block.
Rectangle(map, S) ==
    \E r, c, h, w \in Nat \ {0} : \A x : x \in Positions(map, S) <=> Within(x, r, c, h, w)

\* All positions of a cell of a table that nothing covers.
WholeAt(map, p, r, c, h, w) ==
    /\ r \in Nat \ {0} /\ c \in Nat \ {0} /\ h \in Nat \ {0} /\ w \in Nat \ {0}
    /\ \A y : y \in Positions(map, {p}) <=> Within(y, r, c, h, w)
    /\ \A i, j \in Int : <<i, j>> \in Positions(map, {p}) <=> r <= i /\ i < r + h /\ c <= j /\ j < c + w

\* The positions of a cell that nothing covers, from one of them.
LEMMA WholeCell ==
    ASSUME NEW t \in Tables, NEW map, Laid(map, t), Whole(t, map), NEW x \in DOMAIN map, NEW p, map[x] = p
    PROVE  /\ p \in Places(t)
           /\ Within(x, p[1], CellColumn(map, p), CellAt(t, p).rowSpan, CellAt(t, p).colSpan)
           /\ WholeAt(map, p, p[1], CellColumn(map, p), CellAt(t, p).rowSpan, CellAt(t, p).colSpan)
<1>1. p \in Places(t)
  BY DEF Laid, IsMap
<1> DEFINE r == p[1]
           c == CellColumn(map, p)
           h == CellAt(t, p).rowSpan
           w == CellAt(t, p).colSpan
<1>2. r \in Nat \ {0} /\ c \in Nat \ {0} /\ h \in Nat \ {0} /\ w \in Nat \ {0}
  BY <1>1, CellBlockIs
<1>3. \A y : y \in Positions(map, {p}) <=> Within(y, r, c, h, w)
  <2>1. Positions(map, {p}) = CellBlock(map, t, p)
    BY <1>1, WholeIs
  <2>2. \A y : y \in CellBlock(map, t, p) <=> Within(y, r, c, h, w)
    BY <1>1, CellBlockIs
  <2> QED BY <2>1, <2>2
<1>4. x \in Positions(map, {p})
  BY DEF Positions
<1> HIDE DEF r, c, h, w
<1>5. \A i, j \in Int : <<i, j>> \in Positions(map, {p}) <=> r <= i /\ i < r + h /\ c <= j /\ j < c + w
  <2> SUFFICES ASSUME NEW i \in Int, NEW j \in Int
               PROVE  <<i, j>> \in Positions(map, {p}) <=> r <= i /\ i < r + h /\ c <= j /\ j < c + w
    OBVIOUS
  <2>1. Within(<<i, j>>, r, c, h, w) <=> r <= i /\ i < r + h /\ c <= j /\ j < c + w
    BY <1>2 DEF Within
  <2> QED BY <1>3, <2>1
<1>6. WholeAt(map, p, r, c, h, w) /\ Within(x, r, c, h, w)
  BY <1>2, <1>3, <1>4, <1>5 DEF WholeAt
<1> QED BY <1>1, <1>6 DEF r, c, h, w

\* The next cell, if it is as high.
LEMMA MergeRightFills ==
    ASSUME NEW t \in Tables, NEW map, Laid(map, t), Tiled(t, map), NEW ref \in Places(t),
           MergeRightTarget(t, map, ref) # NoTarget
    PROVE  /\ MergeRightTarget(t, map, ref) \in Places(t)
           /\ Rectangle(map, {ref, MergeRightTarget(t, map, ref)})
<1> DEFINE r == ref[1]
           c == CellColumn(map, ref)
           h == CellAt(t, ref).rowSpan
           w == CellAt(t, ref).colSpan
           start == <<r, c>>
           next == <<r, c + w>>
           q == map[next]
           S == {ref, q}
           a == q[1]
           d == CellColumn(map, q)
           k == CellAt(t, q).rowSpan
           v == CellAt(t, q).colSpan
<1>1. /\ next \in DOMAIN map
      /\ MarkerGeometry(map, start, S).height = MarkerGeometry(map, next, S).height
      /\ MarkerGeometry(map, start, S).y = MarkerGeometry(map, next, S).y
      /\ MergeRightTarget(t, map, ref) = q
  BY DEF MergeRightTarget
<1>2. Whole(t, map) /\ IsMap(map, Places(t)) /\ start \in DOMAIN map /\ map[start] = ref
  BY DEF Tiled, Laid
<1>a. WholeAt(map, ref, r, c, h, w)
  BY <1>2, WholeCell
<1>3. /\ r \in Nat \ {0} /\ c \in Nat \ {0} /\ h \in Nat \ {0} /\ w \in Nat \ {0}
      /\ \A y : y \in Positions(map, {ref}) <=> Within(y, r, c, h, w)
      /\ \A i, j \in Int : <<i, j>> \in Positions(map, {ref}) <=> r <= i /\ i < r + h /\ c <= j /\ j < c + w
  <2> HIDE DEF r, c, h, w
  <2> QED BY <1>a DEF WholeAt
<1>b. q \in Places(t) /\ Within(next, a, d, k, v) /\ WholeAt(map, q, a, d, k, v)
  BY <1>1, <1>2, WholeCell
<1>4. /\ q \in Places(t)
      /\ a \in Nat \ {0} /\ d \in Nat \ {0} /\ k \in Nat \ {0} /\ v \in Nat \ {0}
      /\ Within(next, a, d, k, v)
      /\ \A y : y \in Positions(map, {q}) <=> Within(y, a, d, k, v)
      /\ \A i, j \in Int : <<i, j>> \in Positions(map, {q}) <=> a <= i /\ i < a + k /\ d <= j /\ j < d + v
  <2> HIDE DEF q, a, d, k, v, next
  <2> QED BY <1>b DEF WholeAt
<1>5. IsFiniteSet(Positions(map, S)) /\ \A y : y \in Positions(map, S) <=> y \in Positions(map, {ref}) \cup Positions(map, {q})
  <2>1. IsFiniteSet(Positions(map, S))
    BY <1>2, PositionsAre
  <2>2. \A y : y \in Positions(map, S) <=> y \in Positions(map, {ref}) \cup Positions(map, {q})
    BY DEF Positions
  <2> QED BY <2>1, <2>2
<1>6. ref # q
  <2>1. next \in Positions(map, {q})
    BY <1>1 DEF Positions
  <2> HIDE DEF q
  <2>2. ~ Within(next, r, c, h, w)
    <3> HIDE DEF r, c, w, h
    <3> QED BY <1>3 DEF Within
  <2> QED BY <1>3, <2>1, <2>2
<1>7. \A y : ~ (y \in Positions(map, {ref}) /\ y \in Positions(map, {q}))
  BY <1>6 DEF Positions
<1> HIDE DEF q
<1> HIDE DEF r, c, h, w, a, d, k, v
<1>c. /\ r \in Int /\ c \in Int /\ h \in Int /\ w \in Int /\ a \in Int /\ d \in Int /\ k \in Int /\ v \in Int
      /\ c + w \in Int /\ r + h \in Int /\ h > 0 /\ w > 0 /\ k > 0 /\ v > 0
  BY <1>3, <1>4
<1>8. a <= r /\ r < a + k /\ d <= c + w /\ c + w < d + v
  BY <1>4 DEF Within
<1>9. d = c + w
  <2>1. CASE d < c + w
    <3>1. c + w - 1 \in Nat /\ d <= c + w - 1 /\ c + w - 1 < d + v /\ c <= c + w - 1 /\ c + w - 1 < c + w
      BY <1>3, <1>4, <1>8, <2>1
    <3> DEFINE j == c + w - 1
    <3>2. j \in Int /\ d <= j /\ j < d + v /\ c <= j /\ j < c + w /\ r \in Int
      BY <1>3, <3>1
    <3> HIDE DEF j
    <3>3. <<r, j>> \in Positions(map, {q})
      BY <1>4, <1>8, <3>2
    <3>4. <<r, j>> \in Positions(map, {ref})
      BY <1>3, <3>2
    <3> QED BY <1>7, <3>3, <3>4
  <2> QED BY <1>3, <1>4, <1>8, <2>1
<1>10. InColumn(Positions(map, S), c, r, h)
  <2>1. \A i \in Int : <<i, c>> \in Positions(map, {ref}) <=> r <= i /\ i < r + h
    BY <1>3
  <2>2. \A i \in Int : <<i, c>> \notin Positions(map, {q})
    BY <1>3, <1>4, <1>9
  <2> QED BY <1>5, <2>1, <2>2 DEF InColumn
<1>11. InColumn(Positions(map, S), c + w, a, k)
  <2> DEFINE e == c + w
  <2>0. e \in Int /\ d <= e /\ e < d + v /\ ~ (e < c + w)
    BY <1>3, <1>4, <1>8
  <2> HIDE DEF e
  <2>1. \A i \in Int : <<i, e>> \in Positions(map, {q}) <=> a <= i /\ i < a + k
    BY <1>4, <2>0
  <2>2. \A i \in Int : <<i, e>> \notin Positions(map, {ref})
    BY <1>3, <2>0
  <2>3. InColumn(Positions(map, S), e, a, k)
    BY <1>5, <2>1, <2>2 DEF InColumn
  <2> QED BY <2>3 DEF e
<1>12. MarkerGeometry(map, start, S).height = h /\ MarkerGeometry(map, start, S).y = 0
  <2> HIDE DEF S
  <2>1. r \in Int /\ c \in Int /\ h \in Nat /\ r <= r /\ r < r + h /\ r - r = 0
    BY <1>3
  <2>2. MarkerGeometry(map, <<r, c>>, S).height = h /\ MarkerGeometry(map, <<r, c>>, S).y = r - r
    BY <1>5, <1>10, <2>1, ColumnGeometry
  <2> QED BY <2>1, <2>2
<1>13. MarkerGeometry(map, next, S).height = k /\ MarkerGeometry(map, next, S).y = r - a
  <2> DEFINE e == c + w
  <2>1. e \in Int
    BY <1>3
  <2>2. InColumn(Positions(map, S), e, a, k)
    BY <1>11
  <2> HIDE DEF S, e
  <2>3. r \in Int /\ a \in Int /\ k \in Nat /\ a <= r /\ r < a + k
    BY <1>3, <1>4, <1>8
  <2>4. MarkerGeometry(map, <<r, e>>, S).height = k /\ MarkerGeometry(map, <<r, e>>, S).y = r - a
    <3>1. IsFiniteSet(Positions(map, S))
      BY <1>5
    <3> QED BY <2>1, <2>2, <2>3, <3>1, ColumnGeometry
  <2> QED BY <2>4 DEF e
<1>14. h = k /\ a = r
  BY <1>1, <1>3, <1>4, <1>12, <1>13
<1>15. ASSUME NEW y PROVE y \in Positions(map, S) <=> Within(y, r, c, h, w + v)
  <2>1. y \in Positions(map, S) <=> Within(y, r, c, h, w) \/ Within(y, a, d, k, v)
    BY <1>3, <1>4, <1>5
  <2>2. Within(y, r, c, h, w) \/ Within(y, a, d, k, v) <=> Within(y, r, c, h, w + v)
    BY <1>3, <1>4, <1>9, <1>14 DEF Within
  <2> QED BY <2>1, <2>2
<1>16. w + v \in Nat \ {0}
  BY <1>3, <1>4
<1> HIDE DEF S
<1>17. Rectangle(map, S)
  BY <1>3, <1>15, <1>16 DEF Rectangle
<1> QED BY <1>1, <1>4, <1>17 DEF S

\* The cell below, if it is as wide.
LEMMA MergeDownFills ==
    ASSUME NEW t \in Tables, NEW map, Laid(map, t), Tiled(t, map), NEW ref \in Places(t),
           MergeDownTarget(t, map, ref) # NoTarget
    PROVE  /\ MergeDownTarget(t, map, ref) \in Places(t)
           /\ Rectangle(map, {ref, MergeDownTarget(t, map, ref)})
<1> DEFINE r == ref[1]
           c == CellColumn(map, ref)
           h == CellAt(t, ref).rowSpan
           w == CellAt(t, ref).colSpan
           start == <<r, c>>
           next == <<r + h, c>>
           q == map[next]
           S == {ref, q}
           a == q[1]
           d == CellColumn(map, q)
           k == CellAt(t, q).rowSpan
           v == CellAt(t, q).colSpan
<1>1. /\ next \in DOMAIN map
      /\ MarkerGeometry(map, start, S).width = MarkerGeometry(map, next, S).width
      /\ MarkerGeometry(map, start, S).x = MarkerGeometry(map, next, S).x
      /\ MergeDownTarget(t, map, ref) = q
  BY DEF MergeDownTarget
<1>2. Whole(t, map) /\ IsMap(map, Places(t)) /\ start \in DOMAIN map /\ map[start] = ref
  BY DEF Tiled, Laid
<1>a. WholeAt(map, ref, r, c, h, w)
  BY <1>2, WholeCell
<1>3. /\ r \in Nat \ {0} /\ c \in Nat \ {0} /\ h \in Nat \ {0} /\ w \in Nat \ {0}
      /\ \A y : y \in Positions(map, {ref}) <=> Within(y, r, c, h, w)
      /\ \A i, j \in Int : <<i, j>> \in Positions(map, {ref}) <=> r <= i /\ i < r + h /\ c <= j /\ j < c + w
  <2> HIDE DEF r, c, h, w
  <2> QED BY <1>a DEF WholeAt
<1>b. q \in Places(t) /\ Within(next, a, d, k, v) /\ WholeAt(map, q, a, d, k, v)
  BY <1>1, <1>2, WholeCell
<1>4. /\ q \in Places(t)
      /\ a \in Nat \ {0} /\ d \in Nat \ {0} /\ k \in Nat \ {0} /\ v \in Nat \ {0}
      /\ Within(next, a, d, k, v)
      /\ \A y : y \in Positions(map, {q}) <=> Within(y, a, d, k, v)
      /\ \A i, j \in Int : <<i, j>> \in Positions(map, {q}) <=> a <= i /\ i < a + k /\ d <= j /\ j < d + v
  <2> HIDE DEF q, a, d, k, v, next
  <2> QED BY <1>b DEF WholeAt
<1>5. IsFiniteSet(Positions(map, S)) /\ \A y : y \in Positions(map, S) <=> y \in Positions(map, {ref}) \cup Positions(map, {q})
  <2>1. IsFiniteSet(Positions(map, S))
    BY <1>2, PositionsAre
  <2>2. \A y : y \in Positions(map, S) <=> y \in Positions(map, {ref}) \cup Positions(map, {q})
    BY DEF Positions
  <2> QED BY <2>1, <2>2
<1>6. ref # q
  <2>1. next \in Positions(map, {q})
    BY <1>1 DEF Positions
  <2> HIDE DEF q
  <2>2. ~ Within(next, r, c, h, w)
    <3> HIDE DEF r, c, w, h
    <3> QED BY <1>3 DEF Within
  <2> QED BY <1>3, <2>1, <2>2
<1>7. \A y : ~ (y \in Positions(map, {ref}) /\ y \in Positions(map, {q}))
  BY <1>6 DEF Positions
<1> HIDE DEF q
<1> HIDE DEF r, c, h, w, a, d, k, v
<1>c. /\ r \in Int /\ c \in Int /\ h \in Int /\ w \in Int /\ a \in Int /\ d \in Int /\ k \in Int /\ v \in Int
      /\ c + w \in Int /\ r + h \in Int /\ h > 0 /\ w > 0 /\ k > 0 /\ v > 0
  BY <1>3, <1>4
<1>8. a <= r + h /\ r + h < a + k /\ d <= c /\ c < d + v
  BY <1>4 DEF Within
<1>9. a = r + h
  <2>1. CASE a < r + h
    <3>1. r + h - 1 \in Nat /\ a <= r + h - 1 /\ r + h - 1 < a + k /\ r <= r + h - 1 /\ r + h - 1 < r + h
      BY <1>3, <1>4, <1>8, <2>1
    <3> DEFINE i == r + h - 1
    <3>2. i \in Int /\ a <= i /\ i < a + k /\ r <= i /\ i < r + h /\ c \in Int
      BY <1>3, <3>1
    <3> HIDE DEF i
    <3>3. <<i, c>> \in Positions(map, {q})
      BY <1>4, <1>8, <3>2
    <3>4. <<i, c>> \in Positions(map, {ref})
      BY <1>3, <3>2
    <3> QED BY <1>7, <3>3, <3>4
  <2> QED BY <1>3, <1>4, <1>8, <2>1
<1>10. InRow(Positions(map, S), r, c, w)
  <2>1. \A j \in Int : <<r, j>> \in Positions(map, {ref}) <=> c <= j /\ j < c + w
    BY <1>3
  <2>2. \A j \in Int : <<r, j>> \notin Positions(map, {q})
    BY <1>3, <1>4, <1>9
  <2> QED BY <1>5, <2>1, <2>2 DEF InRow
<1>11. InRow(Positions(map, S), r + h, d, v)
  <2> DEFINE e == r + h
  <2>0. e \in Int /\ a <= e /\ e < a + k /\ ~ (e < r + h)
    BY <1>3, <1>4, <1>8
  <2> HIDE DEF e
  <2>1. \A j \in Int : <<e, j>> \in Positions(map, {q}) <=> d <= j /\ j < d + v
    BY <1>4, <2>0
  <2>2. \A j \in Int : <<e, j>> \notin Positions(map, {ref})
    BY <1>3, <2>0
  <2>3. InRow(Positions(map, S), e, d, v)
    BY <1>5, <2>1, <2>2 DEF InRow
  <2> QED BY <2>3 DEF e
<1>12. MarkerGeometry(map, start, S).width = w /\ MarkerGeometry(map, start, S).x = 0
  <2> HIDE DEF S
  <2>1. r \in Int /\ c \in Int /\ w \in Nat /\ c <= c /\ c < c + w /\ c - c = 0
    BY <1>3
  <2>2. MarkerGeometry(map, <<r, c>>, S).width = w /\ MarkerGeometry(map, <<r, c>>, S).x = c - c
    BY <1>5, <1>10, <2>1, RowGeometry
  <2> QED BY <2>1, <2>2
<1>13. MarkerGeometry(map, next, S).width = v /\ MarkerGeometry(map, next, S).x = c - d
  <2> DEFINE e == r + h
  <2>1. e \in Int
    BY <1>3
  <2>2. InRow(Positions(map, S), e, d, v)
    BY <1>11
  <2> HIDE DEF S, e
  <2>3. c \in Int /\ d \in Int /\ v \in Nat /\ d <= c /\ c < d + v
    BY <1>3, <1>4, <1>8
  <2>4. MarkerGeometry(map, <<e, c>>, S).width = v /\ MarkerGeometry(map, <<e, c>>, S).x = c - d
    <3>1. IsFiniteSet(Positions(map, S))
      BY <1>5
    <3> QED BY <2>1, <2>2, <2>3, <3>1, RowGeometry
  <2> QED BY <2>4 DEF e
<1>14. w = v /\ d = c
  BY <1>1, <1>3, <1>4, <1>12, <1>13
<1>15. ASSUME NEW y PROVE y \in Positions(map, S) <=> Within(y, r, c, h + k, w)
  <2>1. y \in Positions(map, S) <=> Within(y, r, c, h, w) \/ Within(y, a, d, k, v)
    BY <1>3, <1>4, <1>5
  <2>2. Within(y, r, c, h, w) \/ Within(y, a, d, k, v) <=> Within(y, r, c, h + k, w)
    BY <1>3, <1>4, <1>9, <1>14 DEF Within
  <2> QED BY <2>1, <2>2
<1>16. h + k \in Nat \ {0}
  BY <1>3, <1>4
<1> HIDE DEF S
<1>17. Rectangle(map, S)
  BY <1>3, <1>15, <1>16 DEF Rectangle
<1> QED BY <1>1, <1>4, <1>17 DEF S

----------------------------------------------------------------------------
(* Cells that fill a rectangle                                             *)

\* The larger of two numbers.
LEMMA MaxOfTwo ==
    ASSUME NEW m \in Nat, NEW n \in Nat
    PROVE  Max({m, n}) \in {m, n} /\ \A x \in {m, n} : x <= Max({m, n})
<1>1. IsFiniteSet(0 .. m + n)
  BY FS_Interval
<1>2. {m, n} \in SUBSET (0 .. m + n)
  OBVIOUS
<1>3. IsFiniteSet({m, n})
  BY <1>1, <1>2, FS_Subset
<1> QED BY <1>3, MaxOf

\* What fills a rectangle is a block.
LEMMA FillsIs ==
    ASSUME NEW P, NEW map, IsMap(map, P), NEW S, Positions(map, S) # {}, Fills(map, S)
    PROVE  Rectangle(map, S)
<1> DEFINE M == Positions(map, S)
           R == {x[1] : x \in M}
           C == {x[2] : x \in M}
           r == Min(R)
           c == Min(C)
           h == Max(R) - Min(R) + 1
           w == Max(C) - Min(C) + 1
<1>1. M = (Min(R) .. Max(R)) \X (Min(C) .. Max(C))
  BY DEF Fills
<1>2. IsFiniteSet(M) /\ M \in SUBSET Position /\ M # {}
  BY PositionsAre
<1> HIDE DEF M
<1>3. R \in SUBSET (Nat \ {0}) /\ C \in SUBSET (Nat \ {0}) /\ R # {} /\ C # {}
  BY <1>2 DEF Position
<1>4. IsFiniteSet(R) /\ IsFiniteSet(C)
  <2> DEFINE f == [x \in M |-> x[1]]
             g == [x \in M |-> x[2]]
  <2>1. R = {f[x] : x \in M} /\ C = {g[x] : x \in M}
    OBVIOUS
  <2> HIDE DEF f, g
  <2>2. IsFiniteSet({f[x] : x \in M}) /\ IsFiniteSet({g[x] : x \in M})
    BY <1>2, FiniteImage
  <2> QED BY <2>1, <2>2
<1> HIDE DEF R, C
<1>5. Min(R) \in R /\ Max(R) \in R /\ Min(C) \in C /\ Max(C) \in C /\ Min(R) <= Max(R) /\ Min(C) <= Max(C)
  <2>1. R \in SUBSET Nat /\ C \in SUBSET Nat
    BY <1>3
  <2>2. Min(R) \in R /\ Min(C) \in C /\ Max(R) \in R /\ Max(C) \in C
    BY <1>3, <1>4, <2>1, MinOf, MaxOf
  <2>3. \A x \in R : Min(R) <= x
    BY <1>3, <2>1, MinOf
  <2>4. \A x \in C : Min(C) <= x
    BY <1>3, <2>1, MinOf
  <2> QED BY <2>2, <2>3, <2>4
<1>6. r \in Nat \ {0} /\ c \in Nat \ {0} /\ h \in Nat \ {0} /\ w \in Nat \ {0}
  <2>1. Min(R) \in Nat \ {0} /\ Max(R) \in Nat \ {0} /\ Min(C) \in Nat \ {0} /\ Max(C) \in Nat \ {0}
    BY <1>3, <1>5
  <2> QED BY <1>5, <2>1
<1>7. ASSUME NEW x PROVE x \in M <=> Within(x, r, c, h, w)
  <2>1. Min(R) \in Nat /\ Max(R) \in Nat /\ Min(C) \in Nat /\ Max(C) \in Nat
    BY <1>3, <1>5
  <2>2. x \in M <=> x = <<x[1], x[2]>> /\ x[1] \in Min(R) .. Max(R) /\ x[2] \in Min(C) .. Max(C)
    BY <1>1
  <2> QED BY <2>1, <2>2 DEF Within
<1> HIDE DEF r, c, h, w
<1> QED BY <1>6, <1>7 DEF Rectangle, M

\* The geometry in a block.
LEMMA BlockGeometry ==
    ASSUME NEW map, NEW S, IsFiniteSet(Positions(map, S)), NEW r \in Nat \ {0}, NEW c \in Nat \ {0},
           NEW h \in Nat \ {0}, NEW w \in Nat \ {0},
           \A x : x \in Positions(map, S) <=> Within(x, r, c, h, w),
           NEW i \in Int, NEW j \in Int, r <= i, i < r + h, c <= j, j < c + w
    PROVE  /\ MarkerGeometry(map, <<i, j>>, S).height = h
           /\ MarkerGeometry(map, <<i, j>>, S).y = i - r
           /\ MarkerGeometry(map, <<i, j>>, S).width = w
           /\ MarkerGeometry(map, <<i, j>>, S).x = j - c
<1> DEFINE M == Positions(map, S)
<1>1. \A x : x \in M <=> Within(x, r, c, h, w)
  OBVIOUS
<1>2. IsFiniteSet(M)
  OBVIOUS
<1> HIDE DEF M
<1>3. \A k, l \in Int : <<k, l>> \in M <=> r <= k /\ k < r + h /\ c <= l /\ l < c + w
  <2> SUFFICES ASSUME NEW k \in Int, NEW l \in Int
               PROVE  <<k, l>> \in M <=> r <= k /\ k < r + h /\ c <= l /\ l < c + w
    OBVIOUS
  <2>1. Within(<<k, l>>, r, c, h, w) <=> r <= k /\ k < r + h /\ c <= l /\ l < c + w
    BY DEF Within
  <2> QED BY <1>1, <2>1
<1>4. InColumn(M, j, r, h) /\ InRow(M, i, c, w)
  BY <1>3 DEF InColumn, InRow
<1>5. r \in Int /\ c \in Int /\ h \in Nat /\ w \in Nat
  OBVIOUS
<1>6. /\ IsFiniteSet(Positions(map, S))
      /\ InColumn(Positions(map, S), j, r, h) /\ InRow(Positions(map, S), i, c, w)
  BY <1>2, <1>4 DEF M
<1>7. MarkerGeometry(map, <<i, j>>, S).height = h /\ MarkerGeometry(map, <<i, j>>, S).y = i - r
  BY <1>5, <1>6, ColumnGeometry
<1>8. MarkerGeometry(map, <<i, j>>, S).width = w /\ MarkerGeometry(map, <<i, j>>, S).x = j - c
  <2>1. IsFiniteSet(Positions(map, S)) /\ InRow(Positions(map, S), i, c, w)
    BY <1>6
  <2>2. c \in Int /\ w \in Nat
    OBVIOUS
  <2> QED BY ONLY <2>1, <2>2, RowGeometry, i \in Int, j \in Int, c <= j, j < c + w
<1> QED BY <1>7, <1>8

\* Where the check and the merge of cells begin.
LEMMA StartIs ==
    ASSUME NEW t \in Tables, NEW map, Laid(map, t), NEW S \in SUBSET Places(t), S # {}
    PROVE  LET x == SelectionStart(t, map, S)
           IN  /\ x \in Positions(map, S)
               /\ x = <<x[1], x[2]>>
               /\ x[1] = InOrder(S)[1][1] /\ x[2] = CellColumn(map, InOrder(S)[1])
               /\ x[1] \in Nat \ {0} /\ x[2] \in Nat \ {0}
<1> DEFINE p == InOrder(S)[1]
           x == SelectionStart(t, map, S)
<1>1. p \in S /\ p \in Places(t)
  BY FirstSelected
<1>2. x = <<p[1], CellColumn(map, p)>>
  BY DEF SelectionStart
<1> HIDE DEF p
<1>3. <<p[1], CellColumn(map, p)>> \in Positions(map, {p}) /\ p[1] \in Nat \ {0} /\ CellColumn(map, p) \in Nat \ {0}
  BY <1>1, CellBlockIs
<1>4. x \in Positions(map, S)
  BY <1>1, <1>2, <1>3 DEF Positions
<1> HIDE DEF x
<1> QED BY <1>2, <1>3, <1>4 DEF p, x

\* The text of cells that fill a rectangle comes from these cells.
LEMMA FilledArea ==
    ASSUME NEW t \in Tables, NEW map, Laid(map, t), NEW S \in SUBSET Places(t), S # {}, Fills(map, S)
    PROVE  /\ Rectangle(map, S)
           /\ MergeArea(t, map, S) \subseteq DOMAIN map
           /\ Taken(t, map, S) = S
           /\ CheckIsSelectionRectangular(t, map, S)
<1> DEFINE M == Positions(map, S)
           x == SelectionStart(t, map, S)
           g == SelectionGeometry(t, map, S)
<1>1. IsMap(map, Places(t)) /\ IsFiniteSet(M)
  BY PositionsAre DEF Laid
<1>2. x \in M /\ x = <<x[1], x[2]>> /\ x[1] \in Nat \ {0} /\ x[2] \in Nat \ {0}
  BY StartIs
<1>3. Rectangle(map, S)
  BY <1>1, <1>2, FillsIs
<1>4. PICK r, c, h, w \in Nat \ {0} : \A y : y \in M <=> Within(y, r, c, h, w)
  BY <1>3 DEF Rectangle
<1>5. g = MarkerGeometry(map, x, S)
  BY DEF SelectionGeometry
<1> HIDE DEF x
<1>6. r <= x[1] /\ x[1] < r + h /\ c <= x[2] /\ x[2] < c + w
  BY <1>2, <1>4 DEF Within
<1>7. ASSUME NEW i \in Int, NEW j \in Int, r <= i, i < r + h, c <= j, j < c + w
      PROVE  /\ MarkerGeometry(map, <<i, j>>, S).height = h
             /\ MarkerGeometry(map, <<i, j>>, S).y = i - r
             /\ MarkerGeometry(map, <<i, j>>, S).width = w
             /\ MarkerGeometry(map, <<i, j>>, S).x = j - c
             /\ <<i, j>> \in M
  <2>1. <<i, j>> \in M
    BY <1>4, <1>7 DEF Within
  <2> QED BY <1>1, <1>4, <1>7, <2>1, BlockGeometry
<1>8. g.height = h /\ g.y = x[1] - r /\ g.width = w /\ g.x = x[2] - c
  <2> DEFINE i == x[1]
             j == x[2]
  <2>1. i \in Int /\ j \in Int /\ r <= i /\ i < r + h /\ c <= j /\ j < c + w /\ x = <<i, j>>
    BY <1>2, <1>6
  <2> HIDE DEF i, j
  <2> QED BY <1>5, <1>7, <2>1 DEF i, j
<1>9. MergeArea(t, map, S) = M
  <2>1. MergeArea(t, map, S) = Block(x[1] - g.y, x[2] - g.x, g.height, g.width)
    BY DEF MergeArea, x
  <2>2. x[1] - g.y = r /\ x[2] - g.x = c
    BY <1>2, <1>8
  <2>3. \A y : y \in Block(r, c, h, w) <=> Within(y, r, c, h, w)
    BY BlockIs
  <2>4. Block(r, c, h, w) = M
    <3> HIDE DEF M
    <3> QED BY <1>4, <2>3
  <2> QED BY <1>8, <2>1, <2>2, <2>4
<1>10. M \subseteq DOMAIN map /\ \A y \in M : map[y] \in S
  BY DEF Positions
<1>11. Taken(t, map, S) = S
  <2>1. Reached(t, map, S) = M
    BY <1>9, <1>10 DEF Reached
  <2>2. ASSUME NEW p \in S PROVE \E y \in M : map[y] = p
    <3>1. PICK y \in DOMAIN map : map[y] = p
      BY DEF Laid
    <3>2. y \in M
      BY <3>1 DEF Positions
    <3> QED BY <3>1, <3>2
  <2> HIDE DEF M
  <2> QED BY <1>10, <2>1, <2>2 DEF Taken
<1>12. CheckIsSelectionRectangular(t, map, S)
  <2> DEFINE D(k) == IF g.width >= g.height
                     THEN <<x[1] - g.y + (k % g.height), x[2] - g.x + k>>
                     ELSE <<x[1] - g.y + k, x[2] - g.x + (k % g.width)>>
             Size(y) == LET e == MarkerGeometry(map, y, S) IN <<e.width, e.height>>
  <2>1. CheckIsSelectionRectangular(t, map, S)
          <=> \A k \in 0 .. Max({g.width, g.height}) - 1 : D(k) \in DOMAIN map /\ Size(D(k)) = Size(x)
    BY DEF CheckIsSelectionRectangular, x
  <2>2. Size(x) = <<w, h>>
    BY <1>5, <1>8
  <2>3. ASSUME NEW k \in 0 .. Max({g.width, g.height}) - 1
        PROVE  D(k) \in DOMAIN map /\ Size(D(k)) = Size(x)
    <3>1. Max({w, h}) \in {w, h}
      BY MaxOfTwo
    <3>2. \A y \in {w, h} : y <= Max({w, h})
      BY MaxOfTwo
    <3>3. k \in Nat /\ (w >= h => k < w) /\ (~ (w >= h) => k < h)
      <4>1. k \in 0 .. Max({w, h}) - 1
        BY <1>8
      <4> QED BY <3>1, <3>2, <4>1
    <3>4. k % h \in 0 .. h - 1 /\ k % w \in 0 .. w - 1
      BY <3>3
    <3> DEFINE i == IF w >= h THEN r + (k % h) ELSE r + k
               j == IF w >= h THEN c + k ELSE c + (k % w)
    <3>5. x[1] - g.y = r /\ x[2] - g.x = c
      BY <1>2, <1>8
    <3>6. D(k) = <<i, j>>
      BY <1>8, <3>5
    <3>7. i \in Int /\ j \in Int /\ r <= i /\ i < r + h /\ c <= j /\ j < c + w
      <4> DEFINE a == k % h
                 b == k % w
      <4>1. a \in 0 .. h - 1 /\ b \in 0 .. w - 1
        BY <3>4
      <4>2. i = IF w >= h THEN r + a ELSE r + k
        OBVIOUS
      <4>3. j = IF w >= h THEN c + k ELSE c + b
        OBVIOUS
      <4> HIDE DEF a, b, i, j
      <4> QED BY <3>3, <4>1, <4>2, <4>3
    <3> HIDE DEF i, j
    <3>8. <<i, j>> \in M /\ MarkerGeometry(map, <<i, j>>, S).height = h /\ MarkerGeometry(map, <<i, j>>, S).width = w
      BY <1>7, <3>7
    <3>9. Size(<<i, j>>) = <<w, h>>
      BY <3>8
    <3> QED BY <1>10, <2>2, <3>6, <3>8, <3>9
  <2> HIDE DEF D, Size
  <2> QED BY <2>1, <2>3
<1> QED BY <1>3, <1>9, <1>10, <1>11, <1>12

\* The merge of cells that fill a rectangle.
LEMMA FilledIs ==
    ASSUME NEW t \in Tables, NEW map, Laid(map, t), Tiled(t, map), NEW S \in SUBSET Places(t), S # {},
           Fills(map, S)
    PROVE  /\ Inherits(MergeCells(t, map, S), t)
           /\ Separate(t) => AllText(MergeCells(t, map, S)) = AllText(t) \ (Enclosed \cap CellsText(t, S))
           /\ \A W : GridOf(t, map, W) => FullGrid(MergeCells(t, map, S))
<1> DEFINE ref == InOrder(S)[1]
<1>1. ref \in S
  BY FirstSelected
<1>2. Rectangle(map, S) /\ MergeArea(t, map, S) \subseteq DOMAIN map /\ Taken(t, map, S) = S
  BY FilledArea
<1>3. MergeCells(t, map, S) = MergeInto(t, map, S, ref, Taken(t, map, S), Enclosed)
  BY <1>2, MergeCellsIs DEF Laid
<1> HIDE DEF ref
<1>4. PICK r, c, h, w \in Nat \ {0} : \A y : y \in Positions(map, S) <=> Within(y, r, c, h, w)
  BY <1>2 DEF Rectangle
<1>5. /\ Inherits(MergeInto(t, map, S, ref, S, Enclosed), t)
      /\ Separate(t) =>
           AllText(MergeInto(t, map, S, ref, S, Enclosed)) = AllText(t) \ (Enclosed \cap CellsText(t, S))
      /\ \A W : GridOf(t, map, W) => FullGrid(MergeInto(t, map, S, ref, S, Enclosed))
  BY <1>1, <1>4, MergedBrickIs
<1> QED BY <1>2, <1>3, <1>5

----------------------------------------------------------------------------
(* Horizontal splits of a table without holes and overlaps                 *)

\* The bricks after a horizontal split.
Brick(r, c, h, w) == [r |-> r, c |-> c, h |-> h, w |-> w]
WiderBricks(t, map, ref) ==
    [p \in Places(t) \cup NewIds |->
        LET c == CellColumn(map, ref)
            h == CellAt(t, ref).rowSpan
            w == CellAt(t, ref).colSpan
        IN IF p = ref THEN Brick(ref[1], c, h, Half(w))
           ELSE IF p \in Places(t) THEN CellBricks(map, t)[p]
           ELSE Brick(ref[1], c + Half(w), h, w - Half(w))]
LongerBricks(t, map, ref) ==
    [p \in Places(t) \cup NewIds |->
        LET col == CellColumn(map, ref)
            c == CellColumn(map, p)
            h == CellAt(t, p).rowSpan
            w == CellAt(t, p).colSpan
        IN IF p \notin Places(t) THEN Brick(p[2], col + 1, 1, 1)
           ELSE IF p = ref \/ c + w <= col THEN Brick(p[1], c, h, w)
           ELSE IF c <= col THEN Brick(p[1], c, h, w + 1)
           ELSE Brick(p[1], c + 1, h, w)]

\* What the bricks of a map are, one position at a time.
BrickAt(m, d, x) ==
    /\ d[m[x]].r \in Nat \ {0} /\ d[m[x]].c \in Nat \ {0}
    /\ d[m[x]].h \in Nat \ {0} /\ d[m[x]].w \in Nat \ {0}
    /\ \A y : y \in DOMAIN m /\ m[y] = m[x] <=>
              Within(y, d[m[x]].r, d[m[x]].c, d[m[x]].h, d[m[x]].w)

\* What makes a brick of the cell at a position.
LEMMA BrickAtIs ==
    ASSUME NEW m, NEW d, NEW x, NEW p, m[x] = p, NEW r, NEW c, NEW h, NEW w, d[p] = Brick(r, c, h, w),
           r \in Nat \ {0}, c \in Nat \ {0}, h \in Nat \ {0}, w \in Nat \ {0},
           \A y : y \in DOMAIN m /\ m[y] = p <=> Within(y, r, c, h, w)
    PROVE  BrickAt(m, d, x)
<1>1. d[m[x]].r = r /\ d[m[x]].c = c /\ d[m[x]].h = h /\ d[m[x]].w = w
  BY DEF Brick
<1> QED BY <1>1 DEF BrickAt

\* Bricks at each position are bricks.
LEMMA BricksAt ==
    ASSUME NEW m, NEW d, \A x \in DOMAIN m : BrickAt(m, d, x)
    PROVE  Bricks(m, d)
BY DEF Bricks, BrickAt

\* A new cell is none of the table.
LEMMA NewIsNew ==
    ASSUME NEW t \in Tables, NEW k
    PROVE  NewId(k) \notin Places(t) /\ NewId(k)[1] = 0 /\ NewId(k)[2] = k
<1>1. \A p \in Places(t) : p[1] # 0
  BY PlacesOf DEF Position
<1> QED BY <1>1 DEF NewId

\* A cell of several columns is split into two bricks.
LEMMA WiderBricksAre ==
    ASSUME NEW t \in Tables, NEW map, Laid(map, t), Tiled(t, map), NEW ref \in Places(t),
           CellAt(t, ref).colSpan > 1
    PROVE  Bricks(Wider(t, map, ref), WiderBricks(t, map, ref))
<1> DEFINE r == ref[1]
           c == CellColumn(map, ref)
           h == CellAt(t, ref).rowSpan
           w == CellAt(t, ref).colSpan
           u == Half(w)
           m == Wider(t, map, ref)
           d == WiderBricks(t, map, ref)
           G == NewBlock(t, map, ref)
           new == NewId(0)
<1>1. Whole(t, map) /\ <<ref[1], CellColumn(map, ref)>> \in DOMAIN map /\ map[<<ref[1], CellColumn(map, ref)>>] = ref
  BY DEF Tiled, Laid
<1>2. WholeAt(map, ref, r, c, h, w)
  BY <1>1, WholeCell
<1>3. DOMAIN m = DOMAIN map /\ G \subseteq DOMAIN map /\ \A x \in DOMAIN map : m[x] = IF x \in G THEN new ELSE map[x]
  BY WiderIs
<1>4. new \notin Places(t) /\ new \in NewIds
  BY NewIsNew DEF NewIds
<1>5. /\ d[ref] = Brick(r, c, h, u)
      /\ d[new] = Brick(r, c + u, h, w - u)
      /\ \A p \in Places(t) : p # ref => d[p] = CellBricks(map, t)[p]
  <2>1. d[ref] = Brick(r, c, h, u)
    BY DEF WiderBricks
  <2>2. d[new] = Brick(r, c + u, h, w - u)
    BY <1>4 DEF WiderBricks
  <2>3. \A p \in Places(t) : p # ref => d[p] = CellBricks(map, t)[p]
    BY DEF WiderBricks
  <2> QED BY <2>1, <2>2, <2>3
<1>6. \A p \in Places(t) : CellBricks(map, t)[p] =
        Brick(p[1], CellColumn(map, p), CellAt(t, p).rowSpan, CellAt(t, p).colSpan)
  BY DEF CellBricks, Brick
<1>7. G = Block(r, c + u, h, w - u)
  BY DEF NewBlock
<1> HIDE DEF m, d, G, new
<1>8. w > 1
  OBVIOUS
<1> HIDE DEF r, c, h, w
<1>9. r \in Nat \ {0} /\ c \in Nat \ {0} /\ h \in Nat \ {0} /\ w \in Nat \ {0}
  BY <1>2 DEF WholeAt
<1>10. u \in Nat \ {0} /\ w - u \in Nat \ {0} /\ c + u \in Nat \ {0}
  <2>1. u \in Nat \ {0} /\ w - u \in Nat \ {0}
    BY <1>8, <1>9, HalfIs
  <2> HIDE DEF u
  <2> QED BY <1>9, <2>1
<1> HIDE DEF u
<1>11. \A y : y \in DOMAIN map /\ map[y] = ref <=> Within(y, r, c, h, w)
  BY <1>2 DEF WholeAt, Positions
<1>12. \A y : y \in G <=> Within(y, r, c + u, h, w - u)
  <2> DEFINE a == c + u
             b == w - u
  <2>1. a \in Nat \ {0} /\ b \in Nat /\ G = Block(r, a, h, b)
    BY <1>7, <1>10
  <2> HIDE DEF a, b
  <2>2. \A y : y \in Block(r, a, h, b) <=> Within(y, r, a, h, b)
    BY <1>9, <2>1, BlockIs
  <2>3. \A y : y \in G <=> Within(y, r, a, h, b)
    BY <2>1, <2>2
  <2> QED BY <2>3 DEF a, b
<1>13. \A y \in G : map[y] = ref
  <2>1. \A y : Within(y, r, c + u, h, w - u) => Within(y, r, c, h, w)
    BY <1>9, <1>10 DEF Within
  <2> QED BY <1>11, <1>12, <2>1
<1>14. \A y : Within(y, r, c, h, u) <=> Within(y, r, c, h, w) /\ ~ Within(y, r, c + u, h, w - u)
  BY <1>9, <1>10 DEF Within
<1>15. ASSUME NEW x \in DOMAIN m PROVE BrickAt(m, d, x)
  <2>1. CASE x \in G
    <3>1. m[x] = new
      BY <1>3, <2>1
    <3>2. \A y : y \in DOMAIN m /\ m[y] = new <=> Within(y, r, c + u, h, w - u)
      <4>1. \A y \in DOMAIN map : map[y] # new
        BY <1>4 DEF Laid, IsMap
      <4> QED BY <1>3, <1>12, <4>1
    <3> QED BY <1>5, <1>9, <1>10, <3>1, <3>2, BrickAtIs
  <2>2. CASE x \notin G /\ map[x] = ref
    <3>1. m[x] = ref
      BY <1>3, <2>2
    <3>2. \A y : y \in DOMAIN m /\ m[y] = ref <=> Within(y, r, c, h, u)
      BY <1>3, <1>4, <1>11, <1>12, <1>14
    <3> QED BY <1>5, <1>9, <1>10, <3>1, <3>2, BrickAtIs
  <2>3. CASE x \notin G /\ map[x] # ref
    <3> DEFINE p == map[x]
    <3>1. m[x] = p /\ p # ref /\ p \in Places(t) /\ x \in DOMAIN map
      BY <1>3, <2>3 DEF Laid, IsMap
    <3>2. WholeAt(map, p, p[1], CellColumn(map, p), CellAt(t, p).rowSpan, CellAt(t, p).colSpan)
      BY <1>1, <3>1, WholeCell
    <3> HIDE DEF p
    <3>3. \A y : y \in DOMAIN m /\ m[y] = p <=> y \in DOMAIN map /\ map[y] = p
      BY <1>3, <1>4, <1>13, <3>1
    <3> DEFINE rr == p[1]
               cc == CellColumn(map, p)
               hh == CellAt(t, p).rowSpan
               ww == CellAt(t, p).colSpan
    <3>4. d[p] = Brick(rr, cc, hh, ww)
      BY <1>5, <1>6, <3>1
    <3> HIDE DEF rr, cc, hh, ww
    <3>5. WholeAt(map, p, rr, cc, hh, ww)
      BY <3>2 DEF rr, cc, hh, ww
    <3>6. /\ rr \in Nat \ {0} /\ cc \in Nat \ {0} /\ hh \in Nat \ {0} /\ ww \in Nat \ {0}
          /\ \A y : y \in DOMAIN m /\ m[y] = p <=> Within(y, rr, cc, hh, ww)
      BY <3>3, <3>5 DEF WholeAt, Positions
    <3> QED BY <3>1, <3>4, <3>6, BrickAtIs
  <2> QED BY <2>1, <2>2, <2>3
<1>16. Bricks(m, d)
  BY <1>15, BricksAt
<1> QED BY <1>16 DEF m, d

\* What a longer map is at a position.
LongerAt(map, m, ref, c, y) ==
    /\ y = <<y[1], y[2]>> /\ y[1] \in Nat \ {0} /\ y[2] \in Nat \ {0}
    /\ y[2] <= c => y \in DOMAIN map /\ m[y] = map[y]
    /\ y[2] > c => <<y[1], y[2] - 1>> \in DOMAIN map
    /\ y[2] > c /\ ~ (y[2] = c + 1 /\ map[<<y[1], c>>] = ref) => m[y] = map[<<y[1], y[2] - 1>>]
    /\ y[2] = c + 1 /\ map[<<y[1], c>>] = ref => m[y] = NewId(y[1])

\* With one more column all cells are bricks, those across the column one wider.
LEMMA LongerBricksAre ==
    ASSUME NEW t \in Tables, NEW map, Laid(map, t), Tiled(t, map), NEW ref \in Places(t),
           CellAt(t, ref).colSpan = 1
    PROVE  Bricks(Longer(t, map, ref), LongerBricks(t, map, ref))
<1> DEFINE r == ref[1]
           c == CellColumn(map, ref)
           h == CellAt(t, ref).rowSpan
           w == CellAt(t, ref).colSpan
           m == Longer(t, map, ref)
           d == LongerBricks(t, map, ref)
<1>1. Whole(t, map) /\ <<ref[1], CellColumn(map, ref)>> \in DOMAIN map /\ map[<<ref[1], CellColumn(map, ref)>>] = ref
  BY DEF Tiled, Laid
<1>2. WholeAt(map, ref, r, c, h, w)
  BY <1>1, WholeCell
<1>3. /\ \A x : x \in DOMAIN m <=>
            \/ x \in DOMAIN map /\ x[2] <= c
            \/ x = <<x[1], x[2]>> /\ <<x[1], x[2] - 1>> \in DOMAIN map /\ x[2] \in Nat /\ x[2] - 1 >= c
      /\ \A x \in DOMAIN m : m[x] =
            IF x[2] <= c THEN map[x]
            ELSE IF x[2] = c + 1 /\ map[<<x[1], c>>] = ref THEN NewId(x[1]) ELSE map[<<x[1], x[2] - 1>>]
  <2>1. \A x : x \in DOMAIN m <=>
            \/ x \in DOMAIN map /\ x[2] <= c
            \/ /\ x = <<x[1], x[2]>>
               /\ <<x[1], x[2] - 1>> \in DOMAIN map
               /\ x[2] \in Nat
               /\ x[2] - 1 >= c
    BY LongerIs
  <2>2. \A x \in DOMAIN m : m[x] = LongerCell(map, ref, c, x)
    BY LongerIs
  <2> HIDE DEF m, c
  <2> QED BY <2>1, <2>2 DEF LongerCell
<1>4. \A x \in DOMAIN map : /\ x = <<x[1], x[2]>> /\ x[1] \in Nat \ {0} /\ x[2] \in Nat \ {0}
                            /\ map[x] \in Places(t)
  BY DEF Laid, IsMap, Position
<1>5. \A k : NewId(k) \notin Places(t) /\ NewId(k)[2] = k
  BY NewIsNew
<1>6. /\ \A k \in Nat : d[NewId(k)] = Brick(k, c + 1, 1, 1)
      /\ \A p \in Places(t) : d[p] =
            IF p = ref \/ CellColumn(map, p) + CellAt(t, p).colSpan <= c
            THEN Brick(p[1], CellColumn(map, p), CellAt(t, p).rowSpan, CellAt(t, p).colSpan)
            ELSE IF CellColumn(map, p) <= c
            THEN Brick(p[1], CellColumn(map, p), CellAt(t, p).rowSpan, CellAt(t, p).colSpan + 1)
            ELSE Brick(p[1], CellColumn(map, p) + 1, CellAt(t, p).rowSpan, CellAt(t, p).colSpan)
  <2>1. ASSUME NEW k \in Nat PROVE d[NewId(k)] = Brick(k, c + 1, 1, 1)
    <3> DEFINE e == NewId(k)
    <3>1. e \in NewIds /\ e \notin Places(t) /\ e[2] = k
      BY <1>5 DEF NewIds
    <3> HIDE DEF e
    <3>2. d[e] = Brick(e[2], c + 1, 1, 1)
      BY <3>1 DEF LongerBricks
    <3> QED BY <3>1, <3>2 DEF e
  <2>2. \A p \in Places(t) : d[p] =
            IF p = ref \/ CellColumn(map, p) + CellAt(t, p).colSpan <= c
            THEN Brick(p[1], CellColumn(map, p), CellAt(t, p).rowSpan, CellAt(t, p).colSpan)
            ELSE IF CellColumn(map, p) <= c
            THEN Brick(p[1], CellColumn(map, p), CellAt(t, p).rowSpan, CellAt(t, p).colSpan + 1)
            ELSE Brick(p[1], CellColumn(map, p) + 1, CellAt(t, p).rowSpan, CellAt(t, p).colSpan)
    BY DEF LongerBricks
  <2> QED BY <2>1, <2>2
<1>7. w = 1
  OBVIOUS
<1> HIDE DEF m, d, r, c, h, w
<1>8. /\ r \in Nat \ {0} /\ c \in Nat \ {0} /\ h \in Nat \ {0}
      /\ \A y : y \in DOMAIN map /\ map[y] = ref <=> Within(y, r, c, h, 1)
  BY <1>2, <1>7 DEF WholeAt, Positions
\* The positions of a new cell, and of a cell that was there.
<1>9. ASSUME NEW y \in DOMAIN m PROVE LongerAt(map, m, ref, c, y)
  <2>1. y = <<y[1], y[2]>> /\ y[1] \in Nat \ {0} /\ y[2] \in Nat \ {0}
    <3>1. CASE y \in DOMAIN map
      BY <1>4, <3>1
    <3>2. CASE y \notin DOMAIN map
      <4>1. y = <<y[1], y[2]>> /\ <<y[1], y[2] - 1>> \in DOMAIN map /\ y[2] \in Nat /\ y[2] - 1 >= c
        BY <1>3, <3>2
      <4> DEFINE z == <<y[1], y[2] - 1>>
      <4>2. z[1] \in Nat \ {0} /\ z[1] = y[1]
        BY <1>4, <4>1
      <4> QED BY <1>8, <4>1, <4>2
    <3> QED BY <3>1, <3>2
  <2>2. y[2] <= c => y \in DOMAIN map /\ m[y] = map[y]
    <3>1. y[2] <= c => ~ (y[2] - 1 >= c)
      BY <1>8, <2>1
    <3> QED BY <1>3, <3>1
  <2>4. y[2] > c => ~ (y[2] <= c)
    BY <1>8, <2>1
  <2>3. y[2] > c => <<y[1], y[2] - 1>> \in DOMAIN map
    BY <1>3, <2>4
  <2>5. y[2] = c + 1 => y[2] > c
    BY <1>8, <2>1
  <2>6. m[y] = IF y[2] <= c THEN map[y]
               ELSE IF y[2] = c + 1 /\ map[<<y[1], c>>] = ref THEN NewId(y[1]) ELSE map[<<y[1], y[2] - 1>>]
    BY <1>3
  <2>7. y[2] > c /\ ~ (y[2] = c + 1 /\ map[<<y[1], c>>] = ref) => m[y] = map[<<y[1], y[2] - 1>>]
    BY <2>4, <2>6
  <2>8. y[2] = c + 1 /\ map[<<y[1], c>>] = ref => m[y] = NewId(y[1])
    BY <2>4, <2>5, <2>6
  <2> QED BY <2>1, <2>2, <2>3, <2>7, <2>8 DEF LongerAt
<1>10. ASSUME NEW y \in DOMAIN map, y[2] <= c PROVE y \in DOMAIN m /\ m[y] = map[y]
  BY <1>3, <1>10
<1>11. ASSUME NEW i \in Nat, NEW j \in Nat, <<i, j>> \in DOMAIN map, j >= c
       PROVE  /\ <<i, j + 1>> \in DOMAIN m
              /\ ~ (j = c /\ map[<<i, j>>] = ref) => m[<<i, j + 1>>] = map[<<i, j>>]
              /\ j = c /\ map[<<i, j>>] = ref => m[<<i, j + 1>>] = NewId(i)
  <2> DEFINE y == <<i, j + 1>>
  <2>1. y = <<y[1], y[2]>> /\ y[1] = i /\ y[2] = j + 1 /\ y[2] \in Nat /\ y[2] - 1 = j /\ ~ (y[2] <= c)
    BY <1>8, <1>11
  <2> HIDE DEF y
  <2>2. y \in DOMAIN m
    BY <1>3, <1>11, <2>1
  <2>3. m[y] = IF j = c /\ map[<<i, c>>] = ref THEN NewId(i) ELSE map[<<i, j>>]
    BY <1>3, <1>8, <2>1, <2>2
  <2> QED BY <2>2, <2>3 DEF y
<1>12. ASSUME NEW x \in DOMAIN m PROVE BrickAt(m, d, x)
  <2>1. CASE x[2] = c + 1 /\ map[<<x[1], c>>] = ref
    <3> DEFINE k == x[1]
    <3>1. m[x] = NewId(k) /\ k \in Nat \ {0} /\ x = <<k, c + 1>>
      <4>1. LongerAt(map, m, ref, c, x)
        BY <1>9
      <4> QED BY <2>1, <4>1 DEF LongerAt
    <3>2. d[NewId(k)] = Brick(k, c + 1, 1, 1)
      BY <1>6, <3>1
    <3>3. ASSUME NEW y PROVE y \in DOMAIN m /\ m[y] = NewId(k) <=> Within(y, k, c + 1, 1, 1)
      <4>1. Within(y, k, c + 1, 1, 1) <=> y = <<k, c + 1>>
        <5> HIDE DEF k
        <5> QED BY <1>8, <3>1 DEF Within
      <4>2. y = <<k, c + 1>> => y \in DOMAIN m /\ m[y] = NewId(k)
        BY <3>1
      <4>3. ASSUME y \in DOMAIN m, m[y] = NewId(k) PROVE y = <<k, c + 1>>
        <5>1. \A z \in DOMAIN map : map[z] # NewId(k)
          BY <1>4, <1>5
        <5>0. LongerAt(map, m, ref, c, y)
          BY <1>9, <4>3
        <5>2. y[2] = c + 1 /\ map[<<y[1], c>>] = ref
          <6>1. y[2] \in Nat
            BY <5>0 DEF LongerAt
          <6>2. ~ (y[2] <= c)
            BY <4>3, <5>0, <5>1 DEF LongerAt
          <6>3. y[2] > c
            BY <1>8, <6>1, <6>2
          <6> QED BY <4>3, <5>0, <5>1, <6>3 DEF LongerAt
        <5>3. NewId(y[1]) = NewId(k) /\ NewId(y[1])[2] = y[1] /\ NewId(k)[2] = k
          BY <1>5, <4>3, <5>0, <5>2 DEF LongerAt
        <5>4. y = <<y[1], y[2]>>
          BY <5>0 DEF LongerAt
        <5> QED BY <5>2, <5>3, <5>4
      <4> QED BY <4>1, <4>2, <4>3
    <3> HIDE DEF k
    <3>4. c + 1 \in Nat \ {0} /\ 1 \in Nat \ {0}
      BY <1>8
    <3> QED BY <3>1, <3>2, <3>3, <3>4, BrickAtIs
  <2>2. CASE ~ (x[2] = c + 1 /\ map[<<x[1], c>>] = ref)
    <3>1. PICK z \in DOMAIN map : m[x] = map[z]
      <4>0. LongerAt(map, m, ref, c, x)
        BY <1>9
      <4>1. CASE x[2] <= c
        BY <4>0, <4>1 DEF LongerAt
      <4>2. CASE ~ (x[2] <= c)
        <5>1. x[2] > c
          BY <1>8, <4>0, <4>2 DEF LongerAt
        <5> QED BY <2>2, <4>0, <5>1 DEF LongerAt
      <4> QED BY <4>1, <4>2
    <3> DEFINE p == map[z]
               rr == p[1]
               cc == CellColumn(map, p)
               hh == CellAt(t, p).rowSpan
               ww == CellAt(t, p).colSpan
    <3>2. WholeAt(map, p, rr, cc, hh, ww) /\ p \in Places(t) /\ m[x] = p
      BY <1>1, <3>1, WholeCell
    <3>3. d[p] = IF p = ref \/ cc + ww <= c THEN Brick(rr, cc, hh, ww)
                 ELSE IF cc <= c THEN Brick(rr, cc, hh, ww + 1) ELSE Brick(rr, cc + 1, hh, ww)
      BY <1>6, <3>2
    <3>4. p = ref => cc = c /\ ww = 1
      BY <1>7 DEF c, w
    <3> HIDE DEF p, rr, cc, hh, ww
    <3>5. /\ rr \in Nat \ {0} /\ cc \in Nat \ {0} /\ hh \in Nat \ {0} /\ ww \in Nat \ {0}
          /\ \A y : y \in DOMAIN map /\ map[y] = p <=> Within(y, rr, cc, hh, ww)
      BY <3>2 DEF WholeAt, Positions
    <3>6. ASSUME NEW y
          PROVE  y \in DOMAIN m /\ m[y] = p <=>
                    \/ y[2] <= c /\ Within(y, rr, cc, hh, ww)
                    \/ /\ y = <<y[1], y[2]>> /\ y[2] \in Nat /\ y[2] > c
                       /\ Within(<<y[1], y[2] - 1>>, rr, cc, hh, ww)
                       /\ ~ (y[2] = c + 1 /\ p = ref)
      <4>0. \A k : p # NewId(k)
        BY <1>5, <3>2
      <4>1. CASE y \in DOMAIN m /\ y[2] <= c
        <5>0. LongerAt(map, m, ref, c, y)
          BY <1>9, <4>1
        <5>1. ~ (y[2] > c) /\ y \in DOMAIN map /\ m[y] = map[y]
          BY <1>8, <4>1, <5>0 DEF LongerAt
        <5> QED BY <3>5, <4>1, <5>1
      <4>2. CASE y \in DOMAIN m /\ ~ (y[2] <= c)
        <5>0. LongerAt(map, m, ref, c, y)
          BY <1>9, <4>2
        <5>1. /\ y = <<y[1], y[2]>> /\ y[2] \in Nat /\ y[2] > c /\ y[1] \in Nat
              /\ <<y[1], y[2] - 1>> \in DOMAIN map
          BY <1>8, <4>2, <5>0 DEF LongerAt
        <5>2. map[<<y[1], y[2] - 1>>] = p <=> Within(<<y[1], y[2] - 1>>, rr, cc, hh, ww)
          BY <3>5, <5>1
        <5>3. CASE y[2] = c + 1 /\ map[<<y[1], c>>] = ref
          <6>1. m[y] = NewId(y[1])
            BY <5>0, <5>3 DEF LongerAt
          <6>2. y[2] - 1 = c
            BY <1>8, <5>3
          <6> QED BY <4>0, <4>2, <5>1, <5>2, <5>3, <6>1, <6>2
        <5>4. CASE ~ (y[2] = c + 1 /\ map[<<y[1], c>>] = ref)
          <6>1. m[y] = map[<<y[1], y[2] - 1>>]
            BY <5>0, <5>1, <5>4 DEF LongerAt
          <6>2. y[2] = c + 1 => y[2] - 1 = c
            BY <1>8
          <6> QED BY <4>2, <5>1, <5>2, <5>4, <6>1, <6>2
        <5> QED BY <5>3, <5>4
      <4>3. CASE y \notin DOMAIN m
        <5>1. ~ (y[2] <= c /\ Within(y, rr, cc, hh, ww))
          BY <1>10, <3>5, <4>3
        <5>2. ASSUME y = <<y[1], y[2]>>, y[2] \in Nat, y[2] > c, Within(<<y[1], y[2] - 1>>, rr, cc, hh, ww)
              PROVE  FALSE
          <6> DEFINE i == y[1]
                     j == y[2] - 1
          <6>1. <<i, j>> \in DOMAIN map
            BY <3>5, <5>2
          <6>2. i \in Nat /\ j \in Nat /\ j >= c /\ j + 1 = y[2]
            BY <1>8, <5>2 DEF Within
          <6>3. y = <<i, j + 1>>
            BY <5>2, <6>2
          <6> HIDE DEF i, j
          <6> QED BY <1>11, <4>3, <6>1, <6>2, <6>3
        <5> QED BY <4>3, <5>1, <5>2
      <4> QED BY <4>1, <4>2, <4>3
    <3>7. ASSUME NEW y, NEW a, NEW b, a \in Nat, b \in Nat,
                 \/ (p = ref \/ cc + ww <= c) /\ a = cc /\ b = ww
                 \/ p # ref /\ ~ (cc + ww <= c) /\ cc <= c /\ a = cc /\ b = ww + 1
                 \/ p # ref /\ ~ (cc + ww <= c) /\ ~ (cc <= c) /\ a = cc + 1 /\ b = ww
          PROVE  y \in DOMAIN m /\ m[y] = p <=> Within(y, rr, a, hh, b)
      <4>1. y[2] <= c /\ Within(y, rr, cc, hh, ww) <=>
                /\ y = <<y[1], y[2]>> /\ y[1] \in Nat /\ y[2] \in Nat /\ y[2] <= c
                /\ rr <= y[1] /\ y[1] < rr + hh /\ cc <= y[2] /\ y[2] < cc + ww
        BY DEF Within
      <4>2. (/\ y = <<y[1], y[2]>> /\ y[2] \in Nat /\ y[2] > c
             /\ Within(<<y[1], y[2] - 1>>, rr, cc, hh, ww)) <=>
                /\ y = <<y[1], y[2]>> /\ y[1] \in Nat /\ y[2] \in Nat /\ y[2] > c
                /\ rr <= y[1] /\ y[1] < rr + hh /\ cc <= y[2] - 1 /\ y[2] - 1 < cc + ww
        BY <1>8 DEF Within
      <4>3. Within(y, rr, a, hh, b) <=>
                /\ y = <<y[1], y[2]>> /\ y[1] \in Nat /\ y[2] \in Nat
                /\ rr <= y[1] /\ y[1] < rr + hh /\ a <= y[2] /\ y[2] < a + b
        BY DEF Within
      <4> QED BY <1>8, <3>4, <3>5, <3>6, <3>7, <4>1, <4>2, <4>3
    <3>8. CASE p = ref \/ cc + ww <= c
      <4>1. d[p] = Brick(rr, cc, hh, ww)
        BY <3>3, <3>8
      <4>2. \A y : y \in DOMAIN m /\ m[y] = p <=> Within(y, rr, cc, hh, ww)
        BY <3>5, <3>7, <3>8
      <4> QED BY <3>2, <3>5, <4>1, <4>2, BrickAtIs
    <3>9. CASE p # ref /\ ~ (cc + ww <= c) /\ cc <= c
      <4> DEFINE b == ww + 1
      <4>1. d[p] = Brick(rr, cc, hh, b)
        BY <3>3, <3>9
      <4>2. b \in Nat \ {0} /\ b = ww + 1
        BY <3>5
      <4> HIDE DEF b
      <4>3. \A y : y \in DOMAIN m /\ m[y] = p <=> Within(y, rr, cc, hh, b)
        BY <3>5, <3>7, <3>9, <4>2
      <4> QED BY <3>2, <3>5, <4>1, <4>2, <4>3, BrickAtIs
    <3>10. CASE p # ref /\ ~ (cc + ww <= c) /\ ~ (cc <= c)
      <4> DEFINE a == cc + 1
      <4>1. d[p] = Brick(rr, a, hh, ww)
        BY <3>3, <3>10
      <4>2. a \in Nat \ {0} /\ a = cc + 1
        BY <3>5
      <4> HIDE DEF a
      <4>3. \A y : y \in DOMAIN m /\ m[y] = p <=> Within(y, rr, a, hh, ww)
        BY <3>5, <3>7, <3>10, <4>2
      <4> QED BY <3>2, <3>5, <4>1, <4>2, <4>3, BrickAtIs
    <3> QED BY <3>8, <3>9, <3>10
  <2> QED BY <2>1, <2>2
<1>13. Bricks(m, d)
  BY <1>12, BricksAt
<1> QED BY <1>13 DEF m, d

\* A horizontal split of a table without holes and overlaps.
LEMMA SplitBrickIs ==
    ASSUME NEW t \in Tables, NEW map, Laid(map, t), Tiled(t, map), NEW ref \in Places(t)
    PROVE  /\ Keeps(HorizontalSplitCell(t, map, ref), t)
           /\ \A W : GridOf(t, map, W) => FullGrid(HorizontalSplitCell(t, map, ref))
<1> DEFINE c == CellColumn(map, ref)
           w == CellAt(t, ref).colSpan
           m == SplitMap(t, map, ref)
           n == MapRows(map, t)
           text == SplitTexts(t, map, ref)
           T == InstallTableMap(m, n, text)
           P == Places(t) \cup NewIds
<1>1. /\ IsMap(map, Places(t)) /\ ~ HasHole(map) /\ Whole(t, map)
      /\ <<ref[1], c>> \in DOMAIN map /\ map[<<ref[1], c>>] = ref /\ c \in Nat \ {0}
  BY DEF Laid, Tiled
<1>2. HorizontalSplitCell(t, map, ref) = T /\ Inherits(HorizontalSplitCell(t, map, ref), t)
  BY HorizontalSplitCellIs
<1>3. IsMap(m, P) /\ IdTexts(m, text, t)
  BY SplitTextsAre
<1>4. w \in Nat \ {0} /\ (w > 1 => m = Wider(t, map, ref)) /\ (~ (w > 1) => m = Longer(t, map, ref))
  BY CellIs DEF SplitMap
<1>5. \A x \in DOMAIN map : /\ x = <<x[1], x[2]>> /\ x[1] \in Nat \ {0} /\ x[2] \in Nat \ {0}
                            /\ map[x] \in Places(t)
  BY <1>1 DEF IsMap, Position
<1>6. /\ \A k : NewId(k) \notin Places(t) /\ NewId(k)[1] = 0
      /\ \A p \in Places(t) : p[1] # 0
  BY NewIsNew, PlacesOf DEF Position
<1>7. \A x \in DOMAIN m : text[m[x]] = IF m[x][1] = 0 THEN {} ELSE CellAt(t, m[x]).text
  BY DEF SplitTexts, Range
\* The map of a wider cell.
<1>8. ASSUME w > 1
      PROVE  /\ DOMAIN m = DOMAIN map
             /\ \A p \in Places(t) : \E x \in DOMAIN m : m[x] = p
             /\ \E d : Bricks(m, d)
  <2>1. DOMAIN m = DOMAIN map /\ \A x \in DOMAIN map : m[x] = IF x \in NewBlock(t, map, ref) THEN NewId(0) ELSE map[x]
    <3>1. CellAt(t, ref).colSpan > 1 /\ m = Wider(t, map, ref)
      BY <1>4, <1>8
    <3> DEFINE v == Wider(t, map, ref)
    <3>2. DOMAIN v = DOMAIN map /\ \A x \in DOMAIN map : v[x] = IF x \in NewBlock(t, map, ref) THEN NewId(0) ELSE map[x]
      BY <3>1, WiderIs
    <3>3. m = v
      BY <3>1
    <3> HIDE DEF m, v
    <3> QED BY <3>2, <3>3
  <2>2. \E d : Bricks(m, d)
    BY <1>4, <1>8, WiderBricksAre
  <2>3. ASSUME NEW p \in Places(t) PROVE \E x \in DOMAIN map : map[x] = p /\ x \notin NewBlock(t, map, ref)
    <3> DEFINE x == <<p[1], CellColumn(map, p)>>
    <3>1. x \in DOMAIN map /\ map[x] = p
      BY DEF Laid
    <3>2. CASE p = ref
      <4> DEFINE u == Half(w)
                 a == c + u
                 b == w - u
                 r == ref[1]
                 h == CellAt(t, ref).rowSpan
      <4>1. u \in Nat \ {0} /\ b \in Nat
        BY <1>4, <1>8, HalfIs
      <4> HIDE DEF u
      <4>2. a \in Nat \ {0} /\ ~ (a <= c)
        BY <1>1, <4>1
      <4>3. r \in Nat \ {0} /\ h \in Nat
        BY CellBlockIs
      <4>4. NewBlock(t, map, ref) = Block(r, a, h, b) /\ x = <<r, c>>
        BY <3>2 DEF NewBlock, u
      <4> HIDE DEF a, b, r, h, c, x
      <4>5. \A y : y \in Block(r, a, h, b) => Within(y, r, a, h, b)
        BY <4>1, <4>2, <4>3, BlockIs
      <4>6. x \notin NewBlock(t, map, ref)
        BY <4>2, <4>4, <4>5 DEF Within
      <4> QED BY <3>1, <4>6
    <3>3. CASE p # ref
      <4>1. x \notin NewBlock(t, map, ref)
        <5> DEFINE d == WiderBricks(t, map, ref)
                   G == NewBlock(t, map, ref)
        <5>1. ASSUME x \in G PROVE FALSE
          <6> DEFINE u == Half(w)
                     a == c + u
                     b == w - u
                     r == ref[1]
                     h == CellAt(t, ref).rowSpan
          <6>1. u \in Nat \ {0} /\ b \in Nat
            BY <1>4, <1>8, HalfIs
          <6>2. G = Block(r, a, h, b)
            BY DEF NewBlock
          <6>3. WholeAt(map, ref, r, c, h, w)
            BY <1>1, WholeCell
          <6> HIDE DEF u, G
          <6>4. a \in Nat \ {0} /\ c <= a /\ a + b = c + w
            BY <1>1, <1>4, <6>1
          <6> HIDE DEF a, b, r, h, c, x
          <6>5. r \in Nat \ {0} /\ h \in Nat
            BY <6>3 DEF WholeAt
          <6>6. Within(x, r, a, h, b)
            BY <5>1, <6>1, <6>2, <6>4, <6>5, BlockIs
          <6>7. Within(x, r, c, h, w)
            BY <1>1, <1>4, <6>1, <6>4, <6>5, <6>6 DEF Within
          <6>8. map[x] = ref
            BY <6>3, <6>7 DEF WholeAt, Positions
          <6> QED BY <3>1, <3>3, <6>8
        <5> QED BY <5>1
      <4> QED BY <3>1, <4>1
    <3> QED BY <3>2, <3>3
  <2> HIDE DEF m
  <2> QED BY <2>1, <2>2, <2>3
\* The longer map.
<1>9. ASSUME ~ (w > 1)
      PROVE  /\ \A x : x \in DOMAIN m <=>
                    \/ x \in DOMAIN map /\ x[2] <= c
                    \/ x = <<x[1], x[2]>> /\ <<x[1], x[2] - 1>> \in DOMAIN map /\ x[2] \in Nat /\ x[2] - 1 >= c
             /\ \A p \in Places(t) : \E x \in DOMAIN m : m[x] = p
             /\ \E d : Bricks(m, d)
  <2>1. w = 1
    BY <1>4, <1>9
  <2>2. \A x : x \in DOMAIN Longer(t, map, ref) <=>
                    \/ x \in DOMAIN map /\ x[2] <= c
                    \/ /\ x = <<x[1], x[2]>>
                       /\ <<x[1], x[2] - 1>> \in DOMAIN map
                       /\ x[2] \in Nat
                       /\ x[2] - 1 >= c
    BY LongerIs
  <2>3. \A x \in DOMAIN Longer(t, map, ref) : Longer(t, map, ref)[x] = LongerCell(map, ref, c, x)
    BY LongerIs
  <2>4. \E d : Bricks(m, d)
    BY <1>4, <1>9, <2>1, LongerBricksAre
  <2>5. m = Longer(t, map, ref)
    BY <1>4, <1>9
  <2> HIDE DEF m, w
  <2>6. /\ \A x : x \in DOMAIN m <=>
                    \/ x \in DOMAIN map /\ x[2] <= c
                    \/ x = <<x[1], x[2]>> /\ <<x[1], x[2] - 1>> \in DOMAIN map /\ x[2] \in Nat /\ x[2] - 1 >= c
        /\ \A x \in DOMAIN m : m[x] = LongerCell(map, ref, c, x)
    <3> HIDE DEF c
    <3> QED BY <2>2, <2>3, <2>5
  <2>7. ASSUME NEW p \in Places(t) PROVE \E x \in DOMAIN m : m[x] = p
    <3> DEFINE z == <<p[1], CellColumn(map, p)>>
               i == z[1]
               j == z[2]
    <3>1. z \in DOMAIN map /\ map[z] = p
      BY DEF Laid
    <3>2. z = <<i, j>> /\ i \in Nat /\ j \in Nat
      BY <1>5, <3>1
    <3>3. p = ref => j <= c
      <4>1. p = ref => j = c
        OBVIOUS
      <4> QED BY <1>1, <4>1
    <3> HIDE DEF z, i, j, c
    <3>4. CASE j <= c
      <4>1. z[2] = j
        BY <3>2
      <4>2. z \in DOMAIN m
        BY <2>6, <3>1, <3>4, <4>1
      <4>3. m[z] = map[z]
        BY <2>6, <3>4, <4>1, <4>2 DEF LongerCell
      <4> QED BY <3>1, <4>2, <4>3
    <3>5. CASE ~ (j <= c)
      <4> DEFINE x == <<i, j + 1>>
      <4>1. x = <<x[1], x[2]>> /\ x[1] = i /\ x[2] = j + 1 /\ x[2] \in Nat /\ x[2] - 1 = j
        BY <3>2
      <4>2. x[2] - 1 >= c /\ ~ (x[2] <= c) /\ x[2] # c + 1
        BY <1>1, <3>2, <3>5, <4>1
      <4> HIDE DEF x
      <4>3. <<x[1], x[2] - 1>> = z
        BY <3>2, <4>1
      <4>4. x \in DOMAIN m
        BY <2>6, <3>1, <4>1, <4>2, <4>3
      <4>5. m[x] = map[z]
        BY <2>6, <4>2, <4>3, <4>4 DEF LongerCell
      <4> QED BY <3>1, <4>4, <4>5
    <3> QED BY <3>4, <3>5
  <2> QED BY <2>4, <2>6, <2>7
<1>10. \A p \in Places(t) : \E x \in DOMAIN m : m[x] = p
  BY <1>8, <1>9
<1>11. \E d : Bricks(m, d)
  BY <1>8, <1>9
<1> HIDE DEF m, text, n, c, w, P
<1>12. \A i, k \in Nat : <<i, k>> \in DOMAIN map /\ k # 0 => \A j \in 1 .. k : <<i, j>> \in DOMAIN map
  BY <1>1 DEF HasHole
<1>13. ~ HasHole(m)
  <2>1. CASE w > 1
    BY <1>1, <1>8, <2>1 DEF HasHole
  <2>2. CASE ~ (w > 1)
    <3>1. ASSUME NEW x \in DOMAIN m, NEW k \in 1 .. x[2] PROVE <<x[1], k>> \in DOMAIN m
      <4> DEFINE y == <<x[1], k>>
                 q == <<x[1], k - 1>>
      <4>1. CASE x \in DOMAIN map /\ x[2] <= c
        <5>1. x[1] \in Nat /\ x[2] \in Nat /\ x = <<x[1], x[2]>> /\ x[2] # 0
          BY <1>5, <4>1
        <5>2. y \in DOMAIN map /\ k <= c
          BY <1>1, <1>12, <4>1, <5>1
        <5> QED BY <1>9, <2>2, <5>2
      <4>2. CASE x = <<x[1], x[2]>> /\ <<x[1], x[2] - 1>> \in DOMAIN map /\ x[2] \in Nat /\ x[2] - 1 >= c
        <5> DEFINE z == <<x[1], x[2] - 1>>
        <5>1. z[1] \in Nat /\ z[1] = x[1] /\ z[2] = x[2] - 1 /\ z[2] \in Nat \ {0}
          BY <1>5, <4>2
        <5>2. \A j \in 1 .. x[2] - 1 : <<x[1], j>> \in DOMAIN map
          BY <1>12, <4>2, <5>1
        <5>3. CASE k <= c
          <6>1. k \in 1 .. x[2] - 1
            BY <1>1, <4>2, <5>3
          <6>2. y \in DOMAIN map /\ y[2] <= c
            BY <5>2, <5>3, <6>1
          <6> HIDE DEF y
          <6>3. y \in DOMAIN m
            BY <1>9, <2>2, <6>2
          <6> QED BY <6>3 DEF y
        <5>4. CASE ~ (k <= c)
          <6>1. k - 1 \in 1 .. x[2] - 1 /\ k \in Nat /\ k - 1 >= c
            BY <1>1, <4>2, <5>4
          <6>2. y = <<y[1], y[2]>> /\ <<y[1], y[2] - 1>> \in DOMAIN map /\ y[2] \in Nat /\ y[2] - 1 >= c
            BY <5>2, <6>1
          <6> HIDE DEF y
          <6>3. y \in DOMAIN m
            BY <1>9, <2>2, <6>2
          <6> QED BY <6>3 DEF y
        <5> QED BY <5>3, <5>4
      <4> QED BY <1>9, <2>2, <4>1, <4>2
    <3> QED BY <3>1 DEF HasHole
  <2> QED BY <2>1, <2>2
<1>14. n \in Nat /\ \A x \in DOMAIN map : x[1] <= n
  <2>1. n \in Nat /\ \A x \in DOMAIN map : x[1] \in 1 .. n
    BY <1>1, MapRowsIs DEF n
  <2> QED BY <2>1
<1>15. \A x \in DOMAIN m : x[1] <= n
  <2>1. CASE w > 1
    BY <1>8, <1>14, <2>1
  <2>2. CASE ~ (w > 1)
    <3> SUFFICES ASSUME NEW x \in DOMAIN m PROVE x[1] <= n
      OBVIOUS
    <3>1. CASE x \in DOMAIN map
      BY <1>14, <3>1
    <3>2. CASE <<x[1], x[2] - 1>> \in DOMAIN map
      <4> DEFINE z == <<x[1], x[2] - 1>>
      <4>1. z[1] <= n /\ z[1] = x[1]
        BY <1>14, <3>2
      <4> QED BY <4>1
    <3> QED BY <1>9, <2>2, <3>1, <3>2
  <2> QED BY <2>1, <2>2
<1>16. \A x \in DOMAIN m : text[m[x]] \in SUBSET Place
  BY <1>3 DEF IdTexts
<1>17. PICK d : Bricks(m, d)
  BY <1>11
<1>18. \E at : BricksInstalled(T, m, n, text, at)
  BY <1>3, <1>13, <1>14, <1>15, <1>16, <1>17, BrickInstall
<1> HIDE DEF T
<1>19. PICK at : BricksInstalled(T, m, n, text, at)
  BY <1>18
<1>20. \A x \in DOMAIN m : text[m[x]] \subseteq AllText(T)
  BY <1>19, BrickText
<1>21. \A p \in Places(t) : CellAt(t, p).text \subseteq AllText(T)
  <2> SUFFICES ASSUME NEW p \in Places(t) PROVE CellAt(t, p).text \subseteq AllText(T)
    OBVIOUS
  <2>1. PICK x \in DOMAIN m : m[x] = p
    BY <1>10
  <2>2. text[p] = CellAt(t, p).text
    BY <1>6, <1>7, <2>1
  <2> QED BY <1>20, <2>1, <2>2
<1>22. AllText(t) \subseteq AllText(T)
  BY <1>21, AllTextIs
<1>23. ASSUME NEW W, GridOf(t, map, W) PROVE FullGrid(T)
  <2>1. W \in Nat /\ DOMAIN map = (1 .. Len(t)) \X (1 .. W) /\ n = Len(t)
    BY <1>23 DEF GridOf, n
  <2>2. n # 0
    <3>1. ref[1] \in 1 .. Len(t)
      BY PlacesOf
    <3> QED BY <2>1, <3>1
  <2>3. CASE w > 1
    <3>1. DOMAIN m = (1 .. n) \X (1 .. W)
      BY <1>8, <2>1, <2>3
    <3> QED BY <1>14, <1>19, <2>1, <2>2, <3>1, InstalledGrid
  <2>4. CASE ~ (w > 1)
    <3> DEFINE V == W + 1
               D == (1 .. n) \X (1 .. V)
    <3>1. V \in Nat /\ c <= W
      BY <1>1, <2>1
    <3>2. ASSUME NEW x PROVE x \in DOMAIN m <=> x \in D
      <4>1. x \in DOMAIN map /\ x[2] <= c => x \in D
        BY <1>1, <2>1
      <4>2. x = <<x[1], x[2]>> /\ <<x[1], x[2] - 1>> \in DOMAIN map /\ x[2] \in Nat /\ x[2] - 1 >= c => x \in D
        BY <1>1, <2>1
      <4>3. x \in D /\ x[2] <= c => x \in DOMAIN map
        BY <1>1, <2>1, <3>1
      <4>4. x \in D /\ ~ (x[2] <= c) =>
              x = <<x[1], x[2]>> /\ <<x[1], x[2] - 1>> \in DOMAIN map /\ x[2] \in Nat /\ x[2] - 1 >= c
        BY <1>1, <2>1, <3>1
      <4> QED BY <1>9, <2>4, <4>1, <4>2, <4>3, <4>4
    <3>3. DOMAIN m = D
      <4> HIDE DEF D
      <4> QED BY <3>2
    <3> HIDE DEF V
    <3> QED BY <1>14, <1>19, <2>2, <3>1, <3>3, InstalledGrid
  <2> QED BY <2>3, <2>4
<1> QED BY <1>2, <1>22, <1>23 DEF Keeps, Inherits

----------------------------------------------------------------------------
(* Every command                                                           *)

\* What table, due and the flags are to each other.
TextIs ==
    /\ table \in Tables
    /\ commands \in Nat
    /\ due \subseteq Place
    /\ crude \in BOOLEAN /\ ragged \in BOOLEAN
    /\ Separate(table)

\* A cell has a list of spans.
LEMMA TableOfIs ==
    ASSUME NEW spans \in FirstTables
    PROVE  TableOf(spans) \in Tables /\ Separate(TableOf(spans)) /\ AllText(TableOf(spans)) \subseteq Place
<1> DEFINE Spans == (Nat \ {0}) \X (Nat \ {0})
           Q == Seq(Spans)
           T == TableOf(spans)
<1>1. spans \in Seq(Seq(Spans))
  BY TableAssumption
<1>2. Len(spans) \in Nat /\ DOMAIN spans = 1 .. Len(spans) /\ \A i \in 1 .. Len(spans) : spans[i] \in Q
  <2>1. spans \in Seq(Q)
    BY <1>1
  <2> HIDE DEF Q
  <2> QED BY <2>1
<1>3. ASSUME NEW i \in 1 .. Len(spans)
      PROVE  /\ Len(spans[i]) \in Nat /\ DOMAIN spans[i] = 1 .. Len(spans[i])
             /\ \A j \in 1 .. Len(spans[i]) : spans[i][j] \in Spans
  <2>1. spans[i] \in Seq(Spans)
    BY <1>2
  <2> HIDE DEF Spans
  <2> QED BY <2>1
<1>4. T = [i \in 1 .. Len(spans) |-> [j \in 1 .. Len(spans[i]) |->
              TableCell(spans[i][j][1], spans[i][j][2], {<<i, j>>})]]
  BY <1>2, <1>3 DEF TableOf
<1>5. ASSUME NEW i \in 1 .. Len(spans)
      PROVE  /\ T[i] \in Seq(Cell)
             /\ DOMAIN T[i] = 1 .. Len(spans[i])
             /\ \A j \in 1 .. Len(spans[i]) : T[i][j].text = {<<i, j>>}
  <2>1. ASSUME NEW j \in 1 .. Len(spans[i])
        PROVE  T[i][j] \in Cell /\ T[i][j].text = {<<i, j>>}
    <3>1. T[i][j] = TableCell(spans[i][j][1], spans[i][j][2], {<<i, j>>})
      BY <1>4
    <3>2. spans[i][j] \in Spans
      BY <1>3
    <3>3. i \in Nat /\ j \in Nat
      BY <1>2, <1>3
    <3> QED BY <3>1, <3>2, <3>3 DEF TableCell, Cell, Place
  <2>2. DOMAIN T[i] = 1 .. Len(spans[i]) /\ T[i] = [j \in 1 .. Len(spans[i]) |-> T[i][j]]
    BY <1>4
  <2> HIDE DEF T
  <2>3. T[i] \in [1 .. Len(spans[i]) -> Cell]
    BY <2>1, <2>2
  <2> QED BY <1>3, <2>1, <2>2, <2>3, ListIsSeq
<1>6. T \in Tables /\ DOMAIN T = 1 .. Len(spans)
  <2>1. T = [i \in 1 .. Len(spans) |-> T[i]]
    BY <1>4
  <2> HIDE DEF T
  <2>2. T \in [1 .. Len(spans) -> Seq(Cell)]
    BY <1>5, <2>1
  <2> QED BY <1>2, <2>2, ListIsSeq DEF Tables
<1> HIDE DEF T
<1>7. ASSUME NEW p \in Places(T) PROVE CellAt(T, p).text = {p} /\ p \in Place
  <2>1. p = <<p[1], p[2]>> /\ p[1] \in 1 .. Len(spans) /\ p[2] \in DOMAIN T[p[1]]
    BY <1>6 DEF Places
  <2> DEFINE i == p[1]
             j == p[2]
  <2>2. p = <<i, j>> /\ T[i][j].text = {<<i, j>>} /\ i \in Nat /\ j \in Nat
    BY <1>2, <1>3, <1>5, <2>1
  <2>3. p \in Place
    <3> HIDE DEF i, j
    <3> QED BY <2>2 DEF Place
  <2> QED BY <2>2, <2>3 DEF CellAt
<1>8. Separate(T)
  BY <1>7 DEF Separate
<1>9. AllText(T) \subseteq Place
  <2> SUFFICES ASSUME NEW x \in AllText(T) PROVE x \in Place
    OBVIOUS
  <2> QED BY <1>7, AllTextIs
<1> QED BY <1>6, <1>8, <1>9 DEF T

\* The first tables have their text.
LEMMA TextAtFirst ==
    ASSUME TableInit \/ NoTable
    PROVE  TextIs /\ AllText(table) = due
<1>1. CASE TableInit
  <2>1. PICK spans \in FirstTables : table = TableOf(spans) /\ commands = MaxCommands[spans]
    BY <1>1 DEF TableInit
  <2>2. commands \in Nat
    BY <2>1, TableAssumption
  <2>3. due = AllText(table) /\ crude = FALSE /\ ragged = FALSE
    BY <1>1 DEF TableInit
  <2> QED BY <2>1, <2>2, <2>3, TableOfIs DEF TextIs
<1>2. CASE NoTable
  <2>1. table = <<>> /\ commands = 0 /\ due = {} /\ crude = FALSE /\ ragged = FALSE
    BY <1>2 DEF NoTable
  <2>2. Separate(table)
    BY <2>1, EmptyTable DEF Separate
  <2> QED BY <2>1, <2>2, EmptyTable DEF TextIs
<1> QED BY <1>1, <1>2

\* What a step makes of the table and of what is due.
TableStep ==
    /\ commands' = commands - 1
    /\ crude' \in BOOLEAN /\ ragged' \in BOOLEAN /\ (ragged => ragged')
    /\ Inherits(table', table)
    /\ \/ due' = due /\ (~ragged' => Keeps(table', table))
       \/ due' = due \cap AllText(table')
       \/ \E gone : due' = due \ gone /\ (~ragged' => AllText(table') = AllText(table) \ gone)

\* MergeRight and MergeDown are such steps: what they merge fills a rectangle of a tiled map.
LEMMA MergeStep ==
    ASSUME TextIs, NEW map, map = CreateTableMap(table), NEW ref \in Places(table), NEW target,
           target \in Places(table) \cup {NoTarget},
           Tiled(table, map) /\ target # NoTarget => target \in Places(table) /\ Rectangle(map, {ref, target}),
           TableMerge(map, ref, target)
    PROVE  TableStep
<1>1. table \in Tables /\ Laid(map, table) /\ crude \in BOOLEAN /\ ragged \in BOOLEAN
  BY CreateTableMapLays DEF TextIs
<1> DEFINE S == {ref, target}
<1>2. /\ target # NoTarget
      /\ table' = MergeInto(table, map, S, ref, S, {})
      /\ commands' = commands - 1
      /\ ragged' = (ragged \/ ~Tiled(table, map))
      /\ crude' = (crude \/ FALSE)
      /\ due' = due
  BY DEF TableMerge, Command, Ragged, Crude, NothingToDelete
<1>3. S \in SUBSET Places(table) /\ ref \in S
  BY <1>2
<1>4. Inherits(table', table)
  BY <1>1, <1>2, <1>3, MergeIntoIs DEF Laid
<1>5. ASSUME ~ragged' PROVE Keeps(table', table)
  <2>1. Tiled(table, map) /\ Rectangle(map, S)
    BY <1>2, <1>5
  <2> HIDE DEF S
  <2>2. PICK r, c, h, w \in Nat \ {0} : \A y : y \in Positions(map, S) <=> Within(y, r, c, h, w)
    BY <2>1 DEF Rectangle
  <2>3. /\ Inherits(MergeInto(table, map, S, ref, S, {}), table)
        /\ AllText(MergeInto(table, map, S, ref, S, {})) = AllText(table) \ ({} \cap CellsText(table, S))
    BY <1>1, <1>3, <2>1, <2>2, MergedBrickIs DEF TextIs
  <2> QED BY <1>2, <2>3 DEF Keeps
<1>6. crude' \in BOOLEAN /\ ragged' \in BOOLEAN /\ (ragged => ragged')
  BY <1>1, <1>2
<1> QED BY <1>2, <1>4, <1>5, <1>6 DEF TableStep

\* A step whose table has all the text, or which is asked to delete it.
LEMMA KeepingStep ==
    ASSUME TextIs, NEW after, NEW met, met \in BOOLEAN, Keeps(after, table),
           Command(after), Crude(met), NothingToDelete, ragged' = ragged
    PROVE  TableStep
BY DEF TextIs, Command, Crude, NothingToDelete, Keeps, TableStep

\* A deletion may lose text, and doubles none.
LEMMA DeletingStep ==
    ASSUME TextIs, NEW after, NEW met, met \in BOOLEAN, Inherits(after, table),
           Command(after), Crude(met), Deleted, ragged' = ragged
    PROVE  TableStep
BY DEF TextIs, Command, Crude, Deleted, TableStep

\* Every command is such a step.
LEMMA EveryTableStep ==
    ASSUME TextIs, TableNext
    PROVE  TableStep
<1> USE DEF TextIs
<1> DEFINE t == table
<1>1. CASE TableDelete
  <2>1. Inherits(<<>>, table)
    BY EmptyTable
  <2> QED BY <1>1, <2>1, DeletingStep DEF TableDelete
<1>2. ASSUME NEW S \in Selections, TableDeleteRows(S) PROVE TableStep
  <2>1. Inherits(DeleteRows(table, S), table) /\ HasSpans(table) \in BOOLEAN
    BY DeleteRowsIs DEF HasSpans
  <2> QED BY <1>2, <2>1, DeletingStep DEF TableDeleteRows
<1>3. ASSUME NEW S \in Selections, TableDeleteColumns(S) PROVE TableStep
  <2>1. Inherits(DeleteColumns(table, S), table) /\ HasSpans(table) \in BOOLEAN
    BY DeleteColumnsIs DEF HasSpans
  <2> QED BY <1>3, <2>1, DeletingStep DEF TableDeleteColumns
<1>4. ASSUME NEW S \in Selections, TableDeleteCells(S) PROVE TableStep
  <2>1. Inherits(DeleteCells(table, S), table)
    BY DeleteCellsIs
  <2> QED BY <1>4, <2>1, DeletingStep DEF TableDeleteCells
<1>5. ASSUME NEW ref \in Places(table), NEW before \in BOOLEAN, TableInsertRow(ref, before) PROVE TableStep
  <2>1. ref[1] \in 1 .. Len(table)
    BY PlacesOf
  <2>2. Keeps(InsertRow(table, ref[1], before), table) /\ HasSpans(table) \in BOOLEAN
    BY <2>1, InsertRowIs DEF HasSpans
  <2> QED BY <1>5, <2>2, KeepingStep DEF TableInsertRow
<1>6. ASSUME NEW ref \in Places(table), NEW before \in BOOLEAN, TableInsertColumn(ref, before) PROVE TableStep
  <2>1. Keeps(InsertColumn(table, ref, before), table) /\ HasSpans(table) \in BOOLEAN
    BY InsertColumnIs DEF HasSpans
  <2> QED BY <1>6, <2>1, KeepingStep DEF TableInsertColumn
<1>7. ASSUME NEW ref \in Places(table), NEW before \in BOOLEAN, TableInsertCell(ref, before) PROVE TableStep
  <2>1. Keeps(InsertCell(table, ref, before), table)
    BY InsertCellIs
  <2> QED BY <1>7, <2>1, KeepingStep DEF TableInsertCell
<1>8. ASSUME NEW map, map = CreateTableMap(table), NEW S \in Selections, TableMergeCells(map, S) PROVE TableStep
  <2>1. Laid(map, table) /\ S \in SUBSET Places(table) /\ S # {}
    BY <1>8, CreateTableMapLays DEF Selections
  <2>2. /\ table' = MergeCells(table, map, S)
        /\ commands' = commands - 1
        /\ ragged' = (ragged \/ (~Tiled(table, map) \/ ~Fills(map, S)))
        /\ crude' = (crude \/ ~Fills(map, S))
        /\ due' = due \ (Enclosed \cap CellsText(table, S))
    BY <1>8 DEF TableMergeCells, Command, Ragged, Crude
  <2>3. Inherits(table', table)
    BY <2>1, <2>2, MergeCellsIs DEF Laid
  <2>4. ~ragged' => AllText(table') = AllText(table) \ (Enclosed \cap CellsText(table, S))
    BY <2>1, <2>2, FilledIs
  <2>5. crude' \in BOOLEAN /\ ragged' \in BOOLEAN /\ (ragged => ragged')
    BY <2>2
  <2> QED BY <2>2, <2>3, <2>4, <2>5 DEF TableStep
<1>9. ASSUME NEW map, map = CreateTableMap(table), NEW ref \in Places(table), TableMergeRight(map, ref)
      PROVE  TableStep
  <2> DEFINE target == MergeRightTarget(table, map, ref)
  <2>1. Laid(map, table) /\ IsMap(map, Places(table))
    BY <1>9, CreateTableMapLays DEF Laid
  <2>2. target \in Places(table) \cup {NoTarget}
    BY <2>1, MergeRightIs
  <2>3. Tiled(table, map) /\ target # NoTarget => target \in Places(table) /\ Rectangle(map, {ref, target})
    BY <2>1, MergeRightFills
  <2>4. TableMerge(map, ref, target)
    BY <1>9 DEF TableMergeRight
  <2> HIDE DEF target
  <2> QED BY <1>9, <2>2, <2>3, <2>4, MergeStep
<1>10. ASSUME NEW map, map = CreateTableMap(table), NEW ref \in Places(table), TableMergeDown(map, ref)
       PROVE  TableStep
  <2> DEFINE target == MergeDownTarget(table, map, ref)
  <2>1. Laid(map, table) /\ IsMap(map, Places(table))
    BY <1>10, CreateTableMapLays DEF Laid
  <2>2. target \in Places(table) \cup {NoTarget}
    BY <2>1, MergeDownIs
  <2>3. Tiled(table, map) /\ target # NoTarget => target \in Places(table) /\ Rectangle(map, {ref, target})
    BY <2>1, MergeDownFills
  <2>4. TableMerge(map, ref, target)
    BY <1>10 DEF TableMergeDown
  <2> HIDE DEF target
  <2> QED BY <1>10, <2>2, <2>3, <2>4, MergeStep
<1>11. ASSUME NEW map, map = CreateTableMap(table), NEW ref \in Places(table), TableHorizontalSplitCell(map, ref)
       PROVE  TableStep
  <2>1. Laid(map, table)
    BY <1>11, CreateTableMapLays
  <2>2. /\ table' = HorizontalSplitCell(table, map, ref)
        /\ commands' = commands - 1
        /\ ragged' = (ragged \/ ~Tiled(table, map))
        /\ crude' = (crude \/ FALSE)
        /\ due' = due
    BY <1>11 DEF TableHorizontalSplitCell, Command, Ragged, Crude, NothingToDelete
  <2>3. Inherits(table', table)
    BY <2>1, <2>2, HorizontalSplitCellIs
  <2>4. ~ragged' => Keeps(table', table)
    BY <2>1, <2>2, SplitBrickIs
  <2>5. crude' \in BOOLEAN /\ ragged' \in BOOLEAN /\ (ragged => ragged')
    BY <2>2
  <2> QED BY <2>2, <2>3, <2>4, <2>5 DEF TableStep
<1>12. ASSUME NEW map, map = CreateTableMap(table), NEW ref \in Places(table), TableVerticalSplitCell(map, ref)
       PROVE  TableStep
  <2>1. Laid(map, table)
    BY <1>12, CreateTableMapLays
  <2>2. Keeps(VerticalSplitCell(table, map, ref), table) /\ (CellAt(table, ref).colSpan > 1) \in BOOLEAN
    BY <2>1, VerticalSplitCellIs
  <2> QED BY <1>12, <2>2, KeepingStep DEF TableVerticalSplitCell
<1> QED BY <1>1, <1>2, <1>3, <1>4, <1>5, <1>6, <1>7, <1>8, <1>9, <1>10, <1>11, <1>12 DEF TableNext

\* The tables, the flags and the text from step to step.
TextInvariant == TextIs /\ (~ragged => AllText(table) = due)

\* Every step keeps the invariant.
LEMMA TextNext ==
    ASSUME TextInvariant, [TableNext]_tableVars
    PROVE  TextInvariant'
<1>1. CASE UNCHANGED tableVars
  BY <1>1 DEF TextInvariant, TextIs, tableVars, Separate, AllText, Places, CellAt
<1>2. CASE TableNext
  <2>1. TableStep /\ TextIs
    BY <1>2, EveryTableStep DEF TextInvariant
  <2>2. commands' \in Nat
    BY <1>2, <2>1 DEF TableNext, TableStep, TextIs
  <2>3. table' \in Tables /\ Separate(table') /\ AllText(table') \subseteq AllText(table)
    BY <2>1 DEF TableStep, TextIs, Inherits
  <2>4. due' \subseteq Place /\ crude' \in BOOLEAN /\ ragged' \in BOOLEAN
    BY <2>1 DEF TableStep, TextIs
  <2>5. ASSUME ~ragged' PROVE AllText(table') = due'
    <3>1. AllText(table) = due
      BY <2>1, <2>5 DEF TableStep, TextInvariant
    <3>2. CASE due' = due /\ (~ragged' => Keeps(table', table))
      BY <2>5, <3>1, <3>2 DEF Keeps
    <3>3. CASE due' = due \cap AllText(table')
      BY <2>3, <3>1, <3>3
    <3>4. CASE \E gone : due' = due \ gone /\ (~ragged' => AllText(table') = AllText(table) \ gone)
      BY <2>5, <3>1, <3>4
    <3> QED BY <2>1, <3>2, <3>3, <3>4 DEF TableStep
  <2> QED BY <2>2, <2>3, <2>4, <2>5 DEF TextInvariant, TextIs, Separate, AllText, Places, CellAt
<1> QED BY <1>1, <1>2

\* The invariant implies what the runs check.
LEMMA TextProperties ==
    ASSUME TextInvariant
    PROVE  TableTypeOK /\ TextKept
<1>1. TableTypeOK
  <2>1. \A i \in DOMAIN table : \A j \in DOMAIN table[i] : table[i][j] \in Cell
    <3>1. DOMAIN table = 1 .. Len(table) /\ \A i \in 1 .. Len(table) : table[i] \in Seq(Cell)
      BY TableIs DEF TextInvariant, TextIs
    <3> QED BY <3>1
  <2> QED BY <2>1 DEF TableTypeOK, TextInvariant, TextIs, Cell
<1>2. TextKept
  BY DEF TextKept, TextInvariant, TextIs, Separate
<1> QED BY <1>1, <1>2

\* The table alone, or in the web application, where there may be none.
TableSafety == (TableInit \/ NoTable) /\ [][TableNext]_tableVars

\* The invariant of the text, of the table alone or in the web application, where there may be none.
LEMMA TextAlways == TableSafety => []TextInvariant
<1>1. TableInit \/ NoTable => TextInvariant
  BY TextAtFirst DEF TextInvariant
<1>2. TextInvariant /\ [TableNext]_tableVars => TextInvariant'
  BY TextNext
<1> QED BY <1>1, <1>2, PTL DEF TableSafety

\* A table is a list of lists of cells with spans and text nodes.
THEOREM TableTypeCorrect == TableSafety => [](TableTypeOK)
<1>1. TextInvariant => TableTypeOK
  BY TextProperties
<1> QED BY <1>1, TextAlways, PTL

\* No text is lost but by a deletion, and the elements without the mark in the cells that are
\* merged by MergeCells, unless cells that fill no rectangle were merged, or a map with holes or
\* covered positions was installed; and no command puts a text into two cells.
THEOREM TextIsKept == TableSafety => []TextKept
<1>1. TextInvariant => TextKept
  BY TextProperties
<1> QED BY <1>1, TextAlways, PTL
============================================================================
