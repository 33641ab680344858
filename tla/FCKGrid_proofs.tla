--------------------------- MODULE FCKGrid_proofs --------------------------
(***************************************************************************)
(* Proofs about the table commands and the shape of the table.             *)
(*                                                                         *)
(* First the tables without holes and overlaps: a table is a grid as soon  *)
(* as each position has one owner, and each command that is not crude      *)
(* finds new owners from the old ones (GridIsKept).  Then which selections *)
(* pass for rectangles (RectanglesAreRecognised).                          *)
(***************************************************************************)
EXTENDS FCKTable_proofs

----------------------------------------------------------------------------
(* Tables without holes and overlaps                                       *)

\* Each position of the rows and columns belongs to the one cell that own names.
Owned(T, W, col, own) ==
    /\ W \in Nat
    /\ col \in [Places(T) -> Nat \ {0}]
    /\ \A x \in (1 .. Len(T)) \X (1 .. W) : own[x] \in Places(T)
    /\ \A p \in Places(T) : \A x : x \in Rect(T, col, p) <=> x \in (1 .. Len(T)) \X (1 .. W) /\ own[x] = p
    /\ \A p, q \in Places(T) : p[1] = q[1] /\ p[2] < q[2] => col[p] < col[q]

\* A table whose positions are owned is a grid.
LEMMA OwnedGrid ==
    ASSUME NEW T \in Tables, Len(T) > 0, NEW W, NEW col, NEW own, Owned(T, W, col, own)
    PROVE  FullGrid(T)
<1> DEFINE G == (1 .. Len(T)) \X (1 .. W)
<1> USE DEF Owned
<1>1. \A x : (\E p \in Places(T) : x \in Rect(T, col, p)) <=> x \in G
  OBVIOUS
<1>2. \A p, q \in Places(T) : p # q => Rect(T, col, p) \cap Rect(T, col, q) = {}
  OBVIOUS
<1>3. ASSUME NEW p \in Places(T), NEW d \in 1 .. col[p] - 1
      PROVE  \E q \in Places(T) : <<p[1], d>> \in Rect(T, col, q)
  <2>1. <<p[1], col[p]>> \in Rect(T, col, p)
    BY RectIs
  <2>2. <<p[1], col[p]>> \in G
    BY <2>1
  <2>3. p[1] \in 1 .. Len(T) /\ col[p] \in 1 .. W /\ col[p] \in Nat
    BY <2>2
  <2>4. d \in 1 .. W
    BY <1>3, <2>3
  <2>5. <<p[1], d>> \in G
    BY <2>3, <2>4
  <2> HIDE DEF G
  <2> QED BY <1>1, <2>5
<1>4. Tiling(T, col)
  BY <1>2, <1>3 DEF Tiling
<1> QED BY <1>1, <1>4, FullGridIs

\* A table of W columns whose cells have no spans.
Simple(t, W) ==
    /\ W \in Nat
    /\ \A i \in 1 .. Len(t) : Len(t[i]) = W
    /\ \A p \in Places(t) : CellAt(t, p).colSpan = 1 /\ CellAt(t, p).rowSpan = 1

\* Such a table is a grid.
LEMMA SimpleIsGrid ==
    ASSUME NEW t \in Tables, Len(t) > 0, NEW W, Simple(t, W)
    PROVE  FullGrid(t)
<1> DEFINE col == [p \in Places(t) |-> p[2]]
           G == (1 .. Len(t)) \X (1 .. W)
           own == [x \in G |-> x]
<1>1. Len(t) \in Nat /\ W \in Nat
  BY TableIs DEF Simple
<1>2. \A p : p \in Places(t) <=> p \in G
  <2>1. ASSUME NEW p \in Places(t) PROVE p \in G
    <3>1. p = <<p[1], p[2]>> /\ p[1] \in 1 .. Len(t) /\ p[2] \in 1 .. Len(t[p[1]])
      BY PlacesOf
    <3> QED BY <3>1 DEF Simple
  <2>2. ASSUME NEW p \in G PROVE p \in Places(t)
    <3>1. p = <<p[1], p[2]>> /\ p[1] \in 1 .. Len(t) /\ p[2] \in 1 .. Len(t[p[1]])
      BY DEF Simple
    <3>2. <<p[1], p[2]>> \in Places(t)
      BY <3>1, PlacesOf
    <3> QED BY <3>1, <3>2
  <2> QED BY <2>1, <2>2
<1>3. \A p \in Places(t) : p = <<p[1], p[2]>> /\ p[1] \in Nat \ {0} /\ p[2] \in Nat \ {0}
  BY <1>1, <1>2
<1>4. col \in [Places(t) -> Nat \ {0}]
  BY <1>3
<1>5. ASSUME NEW p \in Places(t), NEW x
      PROVE  x \in Rect(t, col, p) <=> x \in G /\ own[x] = p
  <2>1. x \in Rect(t, col, p) <=> Within(x, p[1], col[p], CellAt(t, p).rowSpan, CellAt(t, p).colSpan)
    <3> HIDE DEF col
    <3> QED BY <1>4, RectIs
  <2>2. col[p] = p[2] /\ CellAt(t, p).rowSpan = 1 /\ CellAt(t, p).colSpan = 1
    BY DEF Simple
  <2>3. Within(x, p[1], p[2], 1, 1) <=> x = p
    <3> HIDE DEF G, own, col
    <3>1. x = p => Within(x, p[1], p[2], 1, 1)
      BY <1>3 DEF Within
    <3>2. Within(x, p[1], p[2], 1, 1) => x[1] = p[1] /\ x[2] = p[2] /\ x = <<x[1], x[2]>>
      BY <1>3 DEF Within
    <3>3. p = <<p[1], p[2]>>
      BY <1>3
    <3> QED BY <3>1, <3>2, <3>3
  <2>4. x \in G => own[x] = x
    OBVIOUS
  <2> HIDE DEF G, own, col
  <2> QED BY <1>2, <2>1, <2>2, <2>3, <2>4
<1>6. \A p, q \in Places(t) : p[1] = q[1] /\ p[2] < q[2] => col[p] < col[q]
  OBVIOUS
<1>7. \A x \in G : own[x] \in Places(t)
  BY <1>2
<1>8. \A p \in Places(t) : \A x :
         x \in Rect(t, col, p) <=> x \in (1 .. Len(t)) \X (1 .. W) /\ own[x] = p
  BY <1>5
<1>9. W \in Nat /\ \A x \in (1 .. Len(t)) \X (1 .. W) : own[x] \in Places(t)
  BY <1>1, <1>7
<1> HIDE DEF own, col
<1>10. Owned(t, W, col, own)
  BY <1>4, <1>6, <1>8, <1>9 DEF Owned
<1> QED BY <1>10, OwnedGrid

\* Increasing numbers are at least their place.
LEMMA Increasing ==
    ASSUME NEW n \in Nat, NEW h, \A i \in 1 .. n : h[i] \in Nat \ {0}, \A i, j \in 1 .. n : i < j => h[i] < h[j]
    PROVE  \A i \in 1 .. n : i <= h[i]
<1> DEFINE S == {i \in 0 .. n : i # 0 => i <= h[i]}
<1>1. 0 \in S
  OBVIOUS
<1>2. ASSUME NEW i \in 0 + 1 .. n, i - 1 \in S PROVE i \in S
  <2>1. CASE i = 1
    BY <2>1
  <2>2. CASE i # 1
    <3>1. i - 1 \in 1 .. n /\ i \in 1 .. n /\ i - 1 < i /\ i - 1 <= h[i - 1]
      BY <1>2, <2>2
    <3>2. h[i - 1] < h[i] /\ h[i] \in Nat /\ h[i - 1] \in Nat
      BY <3>1
    <3> QED BY <3>1, <3>2
  <2> QED BY <2>1, <2>2
<1>3. \A i \in 0 .. n : i \in S
  <2> HIDE DEF S
  <2> QED BY <1>1, <1>2, UpTo
<1> QED BY <1>3

\* The rows of a table without holes and spans are equally long.
LEMMA GridIsSimple ==
    ASSUME NEW t \in Tables, FullGrid(t), ~ HasSpans(t)
    PROVE  \E W : Simple(t, W)
<1> DEFINE map == CreateTableMap(t)
           W == RowEnd(map, 1)
<1>1. Laid(map, t) /\ GridOf(t, map, W)
  BY CreateTableMapLays, GridIsTiled
<1> HIDE DEF map, W
<1>2. W \in Nat /\ DOMAIN map = (1 .. Len(t)) \X (1 .. W) /\ Whole(t, map) /\ Len(t) \in Nat
  BY <1>1, TableIs DEF GridOf, Tiled
<1>3. \A p \in Places(t) : CellAt(t, p).colSpan = 1 /\ CellAt(t, p).rowSpan = 1
  <2> SUFFICES ASSUME NEW p \in Places(t) PROVE CellAt(t, p).colSpan = 1 /\ CellAt(t, p).rowSpan = 1
    OBVIOUS
  <2>1. ~ (CellAt(t, p).colSpan > 1) /\ ~ (CellAt(t, p).rowSpan > 1)
    BY DEF HasSpans
  <2>2. CellAt(t, p).colSpan \in Nat \ {0} /\ CellAt(t, p).rowSpan \in Nat \ {0}
    BY CellIs
  <2> QED BY <2>1, <2>2
<1>4. ASSUME NEW i \in 1 .. Len(t) PROVE Len(t[i]) = W
  <2> DEFINE L == Len(t[i])
             f == [j \in 1 .. L |-> CellColumn(map, <<i, j>>)]
  <2>1. L \in Nat
    BY TableIs
  <2>2. ASSUME NEW j \in 1 .. L
        PROVE  /\ <<i, j>> \in Places(t) /\ f[j] \in 1 .. W
               /\ <<i, f[j]>> \in DOMAIN map /\ map[<<i, f[j]>>] = <<i, j>>
    <3> DEFINE p == <<i, j>>
    <3>1. p \in Places(t) /\ p[1] = i
      BY PlacesOf
    <3> HIDE DEF p
    <3>2. <<p[1], CellColumn(map, p)>> \in DOMAIN map /\ map[<<p[1], CellColumn(map, p)>>] = p
      BY <1>1, <3>1 DEF Laid
    <3>3. CellColumn(map, p) \in 1 .. W
      BY <1>2, <3>2
    <3>4. f[j] = CellColumn(map, p)
      BY DEF p
    <3> HIDE DEF f
    <3> QED BY <3>1, <3>2, <3>3, <3>4 DEF p
  <2>3. \A j, k \in 1 .. L : j < k => f[j] < f[k]
    <3> SUFFICES ASSUME NEW j \in 1 .. L, NEW k \in 1 .. L, j < k PROVE f[j] < f[k]
      OBVIOUS
    <3> DEFINE p == <<i, j>>
               q == <<i, k>>
    <3>1. p \in Places(t) /\ q \in Places(t) /\ p[1] = q[1] /\ p[2] < q[2]
      BY <2>2
    <3> HIDE DEF p, q
    <3>2. CellColumn(map, p) < CellColumn(map, q)
      BY <1>1, <3>1 DEF Laid
    <3> QED BY <3>2 DEF p, q
  <2> DEFINE g == [c \in 1 .. W |-> map[<<i, c>>][2]]
  <2>5. ASSUME NEW c \in 1 .. W PROVE g[c] \in 1 .. L /\ f[g[c]] = c
    <3> DEFINE x == <<i, c>>
               p == map[x]
    <3>1. x \in DOMAIN map
      BY <1>2
    <3>2. p \in Places(t) /\ Within(x, p[1], CellColumn(map, p), CellAt(t, p).rowSpan, CellAt(t, p).colSpan)
      BY <1>1, <1>2, <3>1, WholeCell
    <3>3. p = <<p[1], p[2]>> /\ p[1] \in Nat /\ p[2] \in 1 .. Len(t[p[1]]) /\ CellColumn(map, p) \in Nat
      <4>1. p \in Places(t)
        BY <3>2
      <4> HIDE DEF p
      <4>2. p = <<p[1], p[2]>> /\ p[1] \in 1 .. Len(t) /\ p[2] \in 1 .. Len(t[p[1]])
        BY <4>1, PlacesOf
      <4>3. CellColumn(map, p) \in Nat
        BY <1>1, <4>1 DEF Laid
      <4>4. p[1] \in Nat
        BY <1>2, <4>2
      <4> QED BY <4>2, <4>3, <4>4
    <3>4. x[1] = i /\ x[2] = c /\ i \in Nat /\ c \in Nat /\ g[c] = p[2]
      OBVIOUS
    <3> HIDE DEF p, x, g
    <3>5. p[1] = i /\ CellColumn(map, p) = c
      BY <1>3, <3>2, <3>3, <3>4 DEF Within
    <3>6. f[p[2]] = CellColumn(map, <<i, p[2]>>) /\ p = <<i, p[2]>> /\ p[2] \in 1 .. L
      BY <3>3, <3>5
    <3> HIDE DEF f
    <3> QED BY <3>4, <3>5, <3>6
  <2>6. \A j \in 1 .. L : f[j] \in 1 .. W
    BY <2>2
  <2> HIDE DEF f, g, L
  <2>7. \A c, d \in 1 .. W : c < d => g[c] < g[d]
    <3> SUFFICES ASSUME NEW c \in 1 .. W, NEW d \in 1 .. W, c < d PROVE g[c] < g[d]
      OBVIOUS
    <3>1. g[c] \in 1 .. L /\ g[d] \in 1 .. L /\ f[g[c]] = c /\ f[g[d]] = d
      BY <2>5
    <3>2. CASE g[c] = g[d]
      BY <3>1, <3>2
    <3>3. CASE g[d] < g[c]
      BY <2>3, <3>1, <3>3
    <3> QED BY <3>1, <3>2, <3>3
  <2>8. \A j \in 1 .. L : j <= f[j]
    <3>1. \A j \in 1 .. L : f[j] \in Nat \ {0}
      BY <2>6
    <3> QED BY <2>1, <2>3, <3>1, Increasing
  <2>9. \A c \in 1 .. W : c <= g[c]
    <3>1. \A c \in 1 .. W : g[c] \in Nat \ {0}
      BY <2>5
    <3> QED BY <1>2, <2>7, <3>1, Increasing
  <2>10. L <= W
    <3>1. CASE L = 0
      BY <1>2, <3>1
    <3>2. CASE L # 0
      <4>1. L \in 1 .. L
        BY <2>1, <3>2
      <4> QED BY <1>2, <2>1, <2>6, <2>8, <4>1
    <3> QED BY <3>1, <3>2
  <2>11. W <= L
    <3>1. CASE W = 0
      BY <2>1, <3>1
    <3>2. CASE W # 0
      <4>1. W \in 1 .. W
        BY <1>2, <3>2
      <4>2. W <= g[W] /\ g[W] \in 1 .. L
        BY <2>5, <2>9, <4>1
      <4> QED BY <1>2, <2>1, <4>2
    <3> QED BY <3>1, <3>2
  <2>12. L = W
    BY <1>2, <2>1, <2>10, <2>11
  <2> QED BY <2>12 DEF L
<1>5. Simple(t, W)
  BY <1>2, <1>3, <1>4 DEF Simple
<1> QED BY <1>5

\* A row of so many cells without spans.
Plain(row, W) ==
    /\ row \in Seq(Cell)
    /\ Len(row) = W
    /\ \A j \in 1 .. W : row[j].colSpan = 1 /\ row[j].rowSpan = 1

\* A table is simple if its rows are plain.
LEMMA SimpleRows ==
    ASSUME NEW t \in Tables, NEW W \in Nat
    PROVE  Simple(t, W) <=> \A i \in 1 .. Len(t) : Plain(t[i], W)
<1>1. \A i \in 1 .. Len(t) : t[i] \in Seq(Cell)
  BY TableIs
<1>2. ASSUME Simple(t, W), NEW i \in 1 .. Len(t) PROVE Plain(t[i], W)
  <2>1. Len(t[i]) = W
    BY <1>2 DEF Simple
  <2>2. ASSUME NEW j \in 1 .. W PROVE t[i][j].colSpan = 1 /\ t[i][j].rowSpan = 1
    <3>1. <<i, j>> \in Places(t)
      BY <2>1, PlacesOf
    <3>2. CellAt(t, <<i, j>>) = t[i][j]
      BY DEF CellAt
    <3> QED BY <1>2, <3>1, <3>2 DEF Simple
  <2> QED BY <1>1, <2>1, <2>2 DEF Plain
<1>3. ASSUME \A i \in 1 .. Len(t) : Plain(t[i], W) PROVE Simple(t, W)
  <2>1. \A i \in 1 .. Len(t) : Len(t[i]) = W
    BY <1>3 DEF Plain
  <2>2. ASSUME NEW p \in Places(t) PROVE CellAt(t, p).colSpan = 1 /\ CellAt(t, p).rowSpan = 1
    <3>1. p[1] \in 1 .. Len(t) /\ p[2] \in 1 .. Len(t[p[1]])
      BY PlacesOf
    <3>2. p[2] \in 1 .. W /\ Plain(t[p[1]], W)
      BY <1>3, <2>1, <3>1
    <3> QED BY <3>2 DEF Plain, CellAt
  <2> QED BY <2>1, <2>2 DEF Simple
<1> QED BY <1>2, <1>3

\* A copy of a plain row is plain.
LEMMA ClearedIsPlain ==
    ASSUME NEW row, NEW W \in Nat, Plain(row, W)
    PROVE  Plain(Cleared(row), W)
<1>1. /\ Cleared(row) \in Seq(Cell) /\ Len(Cleared(row)) = W
      /\ \A j \in 1 .. W : Cleared(row)[j] = TableCell(row[j].colSpan, row[j].rowSpan, {})
  BY ClearedIs DEF Plain
<1> QED BY <1>1 DEF Plain, TableCell

\* A row with a cell inserted.
LEMMA CellPutIn ==
    ASSUME NEW s \in Seq(Cell), NEW i \in 1 .. Len(s) + 1, NEW e \in Cell
    PROVE  /\ InsertAt(s, i, e) \in Seq(Cell)
           /\ Len(InsertAt(s, i, e)) = Len(s) + 1
           /\ \A j \in 1 .. Len(s) + 1 :
                InsertAt(s, i, e)[j] = IF j < i THEN s[j] ELSE IF j = i THEN e ELSE s[j - 1]
BY InsertAtIs

\* A table with a row inserted.
LEMMA RowPutIn ==
    ASSUME NEW s \in Seq(Seq(Cell)), NEW i \in 1 .. Len(s) + 1, NEW e \in Seq(Cell)
    PROVE  /\ InsertAt(s, i, e) \in Seq(Seq(Cell))
           /\ Len(InsertAt(s, i, e)) = Len(s) + 1
           /\ \A j \in 1 .. Len(s) + 1 :
                InsertAt(s, i, e)[j] = IF j < i THEN s[j] ELSE IF j = i THEN e ELSE s[j - 1]
<1>1. PICK S : S = Seq(Cell)
  OBVIOUS
<1>2. s \in Seq(S) /\ i \in 1 .. Len(s) + 1 /\ e \in S
  BY <1>1
<1>3. /\ InsertAt(s, i, e) \in Seq(S)
      /\ Len(InsertAt(s, i, e)) = Len(s) + 1
      /\ \A j \in 1 .. Len(s) + 1 :
           InsertAt(s, i, e)[j] = IF j < i THEN s[j] ELSE IF j = i THEN e ELSE s[j - 1]
  BY ONLY <1>2, InsertAtIs
<1> QED BY <1>1, <1>3

\* A plain row with one more cell without spans is plain.
LEMMA PlainInserted ==
    ASSUME NEW row, NEW W \in Nat, Plain(row, W), NEW i \in 1 .. W + 1, NEW e \in Cell,
           e.colSpan = 1, e.rowSpan = 1
    PROVE  Plain(InsertAt(row, i, e), W + 1)
<1>1. row \in Seq(Cell) /\ Len(row) = W /\ i \in 1 .. Len(row) + 1
  BY DEF Plain
<1>2. /\ InsertAt(row, i, e) \in Seq(Cell)
      /\ Len(InsertAt(row, i, e)) = W + 1
      /\ \A j \in 1 .. W + 1 :
           InsertAt(row, i, e)[j] = IF j < i THEN row[j] ELSE IF j = i THEN e ELSE row[j - 1]
  <2>1. /\ InsertAt(row, i, e) \in Seq(Cell)
        /\ Len(InsertAt(row, i, e)) = Len(row) + 1
        /\ \A j \in 1 .. Len(row) + 1 :
             InsertAt(row, i, e)[j] = IF j < i THEN row[j] ELSE IF j = i THEN e ELSE row[j - 1]
    <3>1. row \in Seq(Cell) /\ i \in 1 .. Len(row) + 1
      BY <1>1
    <3> QED BY <3>1, CellPutIn
  <2>2. Len(row) = W
    BY <1>1
  <2> QED BY <2>1, <2>2
<1> DEFINE s == InsertAt(row, i, e)
<1> HIDE DEF s
<1>3. ASSUME NEW j \in 1 .. W + 1 PROVE s[j].colSpan = 1 /\ s[j].rowSpan = 1
  <2>1. s[j] = IF j < i THEN row[j] ELSE IF j = i THEN e ELSE row[j - 1]
    BY <1>2 DEF s
  <2>2. CASE j < i
    <3>1. j \in 1 .. W
      BY <2>2
    <3> QED BY <2>1, <2>2, <3>1 DEF Plain
  <2>3. CASE j = i
    BY <2>1, <2>3
  <2>4. CASE j > i
    <3>1. j - 1 \in 1 .. W /\ ~ (j < i) /\ j # i
      BY <2>4
    <3>2. s[j] = row[j - 1]
      BY <2>1, <3>1
    <3> QED BY <3>1, <3>2 DEF Plain
  <2> QED BY <2>2, <2>3, <2>4
<1> QED BY <1>2, <1>3 DEF s, Plain

\* A row copied into a table without holes and spans.
LEMMA RowOfGrid ==
    ASSUME NEW t \in Tables, FullGrid(t), ~ HasSpans(t), NEW r \in 1 .. Len(t), NEW before \in BOOLEAN
    PROVE  FullGrid(InsertRow(t, r, before))
<1> DEFINE k == IF before THEN r ELSE r + 1
           T == InsertRow(t, r, before)
           e == Cleared(t[r])
<1>1. PICK W : Simple(t, W)
  BY GridIsSimple
<1>2. W \in Nat /\ \A i \in 1 .. Len(t) : Plain(t[i], W)
  <2>1. W \in Nat
    BY <1>1 DEF Simple
  <2> QED BY <1>1, <2>1, SimpleRows
<1>3. t \in Seq(Seq(Cell)) /\ Len(t) \in Nat /\ t[r] \in Seq(Cell)
  BY TableIs
<1>4. k \in 1 .. Len(t) + 1 /\ e \in Seq(Cell) /\ Plain(e, W)
  <2>1. k \in 1 .. Len(t) + 1
    BY <1>3
  <2> QED BY <1>2, <1>3, <2>1, ClearedIs, ClearedIsPlain
<1>5. T = InsertAt(t, k, e) /\ T \in Tables
  BY InsertRowIs DEF Keeps, Inherits
<1> HIDE DEF T, k, e
<1>6. /\ Len(T) = Len(t) + 1
      /\ \A j \in 1 .. Len(t) + 1 : T[j] = IF j < k THEN t[j] ELSE IF j = k THEN e ELSE t[j - 1]
  <2>1. /\ Len(InsertAt(t, k, e)) = Len(t) + 1
        /\ \A j \in 1 .. Len(t) + 1 :
              InsertAt(t, k, e)[j] = IF j < k THEN t[j] ELSE IF j = k THEN e ELSE t[j - 1]
    <3>1. t \in Seq(Seq(Cell)) /\ k \in 1 .. Len(t) + 1 /\ e \in Seq(Cell)
      BY <1>3, <1>4
    <3> QED BY ONLY <3>1, RowPutIn
  <2> QED BY <1>5, <2>1
<1>7. ASSUME NEW j \in 1 .. Len(T) PROVE Plain(T[j], W)
  <2>1. j \in 1 .. Len(t) + 1
    BY <1>6
  <2>2. CASE j < k
    <3>1. j \in 1 .. Len(t) /\ T[j] = t[j]
      BY <1>3, <1>4, <1>6, <2>1, <2>2
    <3> QED BY <1>2, <3>1
  <2>3. CASE j = k
    BY <1>4, <1>6, <2>1, <2>3
  <2>4. CASE j > k
    <3>1. j - 1 \in 1 .. Len(t) /\ ~ (j < k) /\ j # k
      BY <1>3, <1>4, <2>1, <2>4
    <3>2. T[j] = t[j - 1]
      BY <1>6, <2>1, <3>1
    <3> QED BY <1>2, <3>1, <3>2
  <2> QED BY <1>4, <2>1, <2>2, <2>3, <2>4
<1>8. Len(T) > 0
  BY <1>3, <1>6
<1>9. Simple(T, W)
  BY <1>2, <1>5, <1>7, SimpleRows
<1> QED BY <1>5, <1>8, <1>9, SimpleIsGrid DEF T

\* A cell copied in each row of such a table.
LEMMA ColumnOfGrid ==
    ASSUME NEW t \in Tables, FullGrid(t), ~ HasSpans(t), NEW p \in Places(t), NEW before \in BOOLEAN
    PROVE  FullGrid(InsertColumn(t, p, before))
<1> DEFINE k == IF before THEN p[2] ELSE p[2] + 1
           T == InsertColumn(t, p, before)
<1>1. PICK W : Simple(t, W)
  BY GridIsSimple
<1>2. W \in Nat /\ \A i \in 1 .. Len(t) : Plain(t[i], W)
  <2>1. W \in Nat
    BY <1>1 DEF Simple
  <2> QED BY <1>1, <2>1, SimpleRows
<1>3. Len(t) \in Nat /\ DOMAIN t = 1 .. Len(t) /\ p[1] \in 1 .. Len(t) /\ p[2] \in 1 .. Len(t[p[1]])
  BY TableIs, PlacesOf
<1>4. p[2] \in 1 .. W
  BY <1>2, <1>3 DEF Plain
<1>5. T \in Tables /\ Len(T) = Len(t)
  <2>1. T \in Tables
    BY InsertColumnIs DEF Keeps, Inherits
  <2>2. DOMAIN T = DOMAIN t
    BY DEF InsertColumn
  <2>3. DOMAIN T = 1 .. Len(T) /\ Len(T) \in Nat
    BY <2>1, TableIs
  <2> QED BY <1>3, <2>1, <2>2, <2>3
<1>6. ASSUME NEW i \in 1 .. Len(T) PROVE Plain(T[i], W + 1)
  <2>1. i \in DOMAIN t /\ i \in 1 .. Len(t) /\ ~ (Len(t[i]) < p[2])
    BY <1>2, <1>3, <1>4, <1>5 DEF Plain
  <2> DEFINE e == [t[i][p[2]] EXCEPT !.text = {}]
  <2>2. T[i] = InsertAt(t[i], k, e)
    BY <2>1 DEF InsertColumn
  <2>3. t[i][p[2]] \in Cell /\ t[i][p[2]].colSpan = 1 /\ t[i][p[2]].rowSpan = 1
    BY <1>2, <1>4, <2>1 DEF Plain
  <2>4. e \in Cell /\ e.colSpan = 1 /\ e.rowSpan = 1
    <3> DEFINE x == t[i][p[2]]
    <3>1. x \in Cell /\ x.colSpan = 1 /\ x.rowSpan = 1
      BY <2>3
    <3> HIDE DEF x
    <3>2. [x EXCEPT !.text = {}] \in Cell /\ [x EXCEPT !.text = {}] = TableCell(1, 1, {})
      BY <3>1, TextCleared
    <3> QED BY <3>2 DEF x, TableCell
  <2>5. k \in 1 .. W + 1
    BY <1>2, <1>4
  <2> HIDE DEF e, k, T
  <2> QED BY <1>2, <2>1, <2>2, <2>4, <2>5, PlainInserted
<1> HIDE DEF T
<1>7. Simple(T, W + 1)
  BY <1>2, <1>5, <1>6, SimpleRows
<1>8. Len(T) > 0
  BY <1>3, <1>5
<1> QED BY <1>5, <1>7, <1>8, SimpleIsGrid DEF T

\* Rows taken out of such a table, but not all of them.
LEMMA GridWithoutRows ==
    ASSUME NEW t \in Tables, NEW W, Simple(t, W), NEW rows, WithoutRows(t, rows) # <<>>
    PROVE  FullGrid(WithoutRows(t, rows))
<1> DEFINE T == WithoutRows(t, rows)
<1>1. W \in Nat
  BY DEF Simple
<1>2. \A i \in 1 .. Len(t) : Plain(t[i], W)
  BY <1>1, SimpleRows
<1>3. T \in Tables
  BY WithoutRowsIs DEF Inherits
<1>4. \A k \in 1 .. Len(T) : Plain(T[k], W)
  BY <1>2, WithoutRowsIs
<1> HIDE DEF T
<1>5. Len(T) > 0
  <2>1. T \in Seq(Seq(Cell)) /\ T # <<>>
    BY <1>3 DEF T, Tables
  <2> QED BY <2>1, EmptySeq, LenProperties
<1>6. Simple(T, W)
  BY <1>1, <1>3, <1>4, SimpleRows
<1> QED BY <1>3, <1>5, <1>6, SimpleIsGrid DEF T

\* Without the element at a place the later ones move up.
LEMMA RemoveAtIs ==
    ASSUME NEW S, NEW s \in Seq(S), NEW i \in 1 .. Len(s)
    PROVE  /\ RemoveAt(s, i) \in Seq(S)
           /\ Len(RemoveAt(s, i)) = Len(s) - 1
           /\ \A j \in 1 .. Len(s) - 1 : RemoveAt(s, i)[j] = IF j < i THEN s[j] ELSE s[j + 1]
<1> DEFINE a == SubSeq(s, 1, i - 1)
           b == SubSeq(s, i + 1, Len(s))
           n == Len(s)
<1>1. n \in Nat /\ i \in Nat \ {0} /\ i <= n /\ \A j \in 1 .. n : s[j] \in S
  BY LenProperties
<1>2. /\ a \in Seq(S)
      /\ Len(a) = i - 1
      /\ \A j \in 1 .. i - 1 : a[j] = s[j]
  <2>1. 1 \in Int /\ i - 1 \in Int /\ \A j \in 1 .. i - 1 : s[j] \in S
    BY <1>1
  <2>2. /\ a \in Seq(S) /\ Len(a) = (IF 1 <= i - 1 THEN i - 1 - 1 + 1 ELSE 0)
        /\ \A j \in 1 .. i - 1 - 1 + 1 : a[j] = s[1 + j - 1]
    BY <2>1, SubSeqProperties
  <2> HIDE DEF a
  <2> QED BY <1>1, <2>2
<1>3. /\ b \in Seq(S)
      /\ Len(b) = n - i
      /\ \A j \in 1 .. n - i : b[j] = s[i + j]
  <2> DEFINE k == i + 1
  <2>1. k \in Int /\ n \in Int /\ \A j \in k .. n : s[j] \in S
    BY <1>1
  <2>2. /\ b \in Seq(S) /\ Len(b) = (IF k <= n THEN n - k + 1 ELSE 0)
        /\ \A j \in 1 .. n - k + 1 : b[j] = s[k + j - 1]
    <3> HIDE DEF n, k
    <3>1. /\ SubSeq(s, k, n) \in Seq(S) /\ Len(SubSeq(s, k, n)) = (IF k <= n THEN n - k + 1 ELSE 0)
          /\ \A j \in 1 .. n - k + 1 : SubSeq(s, k, n)[j] = s[k + j - 1]
      BY <2>1, SubSeqProperties
    <3> QED BY <3>1 DEF n, k
  <2>3. n - k + 1 = n - i /\ \A j \in 1 .. n - i : k + j - 1 = i + j
    BY <1>1
  <2>4. Len(b) = n - i
    <3>1. k <= n => Len(b) = n - k + 1
      BY <2>2
    <3>2. ~ (k <= n) => Len(b) = 0 /\ n - i = 0
      BY <1>1, <2>2
    <3> QED BY <2>3, <3>1, <3>2
  <2> HIDE DEF b, n, k
  <2> QED BY <2>2, <2>3, <2>4
<1> HIDE DEF a, b, n
<1>4. /\ a \o b \in Seq(S) /\ Len(a \o b) = Len(a) + Len(b)
      /\ \A j \in 1 .. Len(a) + Len(b) : (a \o b)[j] = IF j <= Len(a) THEN a[j] ELSE b[j - Len(a)]
  BY <1>2, <1>3, ConcatProperties
<1>5. Len(a) + Len(b) = n - 1
  BY <1>1, <1>2, <1>3
<1>6. ASSUME NEW j \in 1 .. n - 1 PROVE (a \o b)[j] = IF j < i THEN s[j] ELSE s[j + 1]
  <2>1. (a \o b)[j] = IF j <= i - 1 THEN a[j] ELSE b[j - (i - 1)]
    BY <1>2, <1>4, <1>5
  <2>2. CASE j < i
    <3>1. j \in 1 .. i - 1 /\ j <= i - 1
      BY <1>1, <2>2
    <3> QED BY <1>2, <2>1, <2>2, <3>1
  <2>3. CASE ~ (j < i)
    <3>1. j - (i - 1) \in 1 .. n - i /\ ~ (j <= i - 1) /\ i + (j - (i - 1)) = j + 1
      BY <1>1, <2>3
    <3>2. b[j - (i - 1)] = s[j + 1]
      BY <1>3, <3>1
    <3> QED BY <2>1, <2>3, <3>1, <3>2
  <2> QED BY <2>2, <2>3
<1>7. RemoveAt(s, i) = a \o b
  BY DEF RemoveAt, a, b
<1> QED BY <1>4, <1>5, <1>6, <1>7 DEF n

\* What DeleteColumns knows of the cells that are left: which row has which of them.
RowAt(i, s) == [j \in 1 .. Len(s) |-> <<i, s[j]>>]
RowsAt(t, s) == [i \in DOMAIN t |-> RowAt(i, s)]
SameColumns(t, W) == {RowsAt(t, s) : s \in Seq(1 .. W)}
Lefts(t, W) == [failed : BOOLEAN, rows : SameColumns(t, W)]
TakeColumn(t, acc, p) ==
    LET row == acc.rows[p[1]]
        index == CHOOSE j \in DOMAIN row : row[j] = p
    IN IF acc.failed \/ p \notin Range(row) THEN [acc EXCEPT !.failed = TRUE]
       ELSE [acc EXCEPT !.rows = [i \in DOMAIN t |->
               IF index <= Len(acc.rows[i]) THEN RemoveAt(acc.rows[i], index) ELSE acc.rows[i]]]

\* The same element goes from each row.
LEMMA RowTaken ==
    ASSUME NEW i, NEW S, NEW s \in Seq(S), NEW k \in 1 .. Len(s)
    PROVE  /\ Len(RowAt(i, s)) = Len(s)
           /\ RemoveAt(RowAt(i, s), k) = RowAt(i, RemoveAt(s, k))
<1> DEFINE row == RowAt(i, s)
           S2 == {i} \X S
           r == RemoveAt(s, k)
           q == RemoveAt(row, k)
<1>1. Len(s) \in Nat /\ \A j \in 1 .. Len(s) : s[j] \in S
  BY LenProperties
<1>2. row \in [1 .. Len(s) -> S2]
  BY <1>1 DEF RowAt
<1>3. row \in Seq(S2) /\ Len(row) = Len(s)
  <2> HIDE DEF row, S2
  <2> QED BY <1>1, <1>2, ListIsSeq
<1>4. /\ q \in Seq(S2) /\ Len(q) = Len(s) - 1
      /\ \A j \in 1 .. Len(s) - 1 : q[j] = IF j < k THEN row[j] ELSE row[j + 1]
  <2> HIDE DEF row, S2
  <2>1. k \in 1 .. Len(row)
    BY <1>3
  <2>2. /\ q \in Seq(S2) /\ Len(q) = Len(row) - 1
        /\ \A j \in 1 .. Len(row) - 1 : q[j] = IF j < k THEN row[j] ELSE row[j + 1]
    BY <1>3, <2>1, RemoveAtIs
  <2> QED BY <1>3, <2>2
<1>5. /\ r \in Seq(S) /\ Len(r) = Len(s) - 1
      /\ \A j \in 1 .. Len(s) - 1 : r[j] = IF j < k THEN s[j] ELSE s[j + 1]
  BY RemoveAtIs
<1>6. \A j \in 1 .. Len(s) : row[j] = <<i, s[j]>>
  BY DEF RowAt
<1> HIDE DEF row, q, r, S2
<1>7. ASSUME NEW j \in 1 .. Len(s) - 1 PROVE q[j] = <<i, r[j]>>
  <2>1. j \in 1 .. Len(s) /\ j + 1 \in 1 .. Len(s)
    BY <1>1
  <2>2. CASE j < k
    BY <1>4, <1>5, <1>6, <2>1, <2>2
  <2>3. CASE ~ (j < k)
    BY <1>4, <1>5, <1>6, <2>1, <2>3
  <2> QED BY <2>2, <2>3
<1>8. q = [j \in 1 .. Len(s) - 1 |-> q[j]]
  <2>1. DOMAIN q = 1 .. Len(s) - 1 /\ q \in [1 .. Len(s) - 1 -> S2]
    BY <1>4, LenProperties
  <2> QED BY <2>1
<1>9. q = [j \in 1 .. Len(s) - 1 |-> <<i, r[j]>>]
  BY <1>7, <1>8
<1>10. q = RowAt(i, r)
  BY <1>5, <1>9 DEF RowAt
<1> QED BY <1>3, <1>10 DEF q, r, row

\* Each of its steps leaves the same columns in every row.
LEMMA ColumnTaken ==
    ASSUME NEW t \in Tables, NEW W \in Nat, NEW acc \in Lefts(t, W), NEW p, p[1] \in DOMAIN t
    PROVE  TakeColumn(t, acc, p) \in Lefts(t, W)
<1>1. PICK s \in Seq(1 .. W) : acc.rows = RowsAt(t, s)
  BY DEF Lefts, SameColumns
<1> DEFINE row == acc.rows[p[1]]
           index == CHOOSE j \in DOMAIN row : row[j] = p
           A == [acc EXCEPT !.failed = TRUE]
           rows == [i \in DOMAIN t |->
               IF index <= Len(acc.rows[i]) THEN RemoveAt(acc.rows[i], index) ELSE acc.rows[i]]
           B == [acc EXCEPT !.rows = rows]
<1>2. TakeColumn(t, acc, p) = IF acc.failed \/ p \notin Range(row) THEN A ELSE B
  BY DEF TakeColumn
<1>3. A \in Lefts(t, W)
  BY DEF Lefts
<1>4. row = RowAt(p[1], s) /\ \A i \in DOMAIN t : acc.rows[i] = RowAt(i, s)
  BY <1>1 DEF RowsAt
<1>5. ASSUME p \in Range(row) PROVE B \in Lefts(t, W)
  <2> DEFINE u == RemoveAt(s, index)
  <2>1. DOMAIN row = 1 .. Len(s)
    BY <1>4 DEF RowAt
  <2>2. \E j \in DOMAIN row : row[j] = p
    BY <1>5 DEF Range
  <2>3. index \in 1 .. Len(s)
    BY <2>1, <2>2
  <2>4. u \in Seq(1 .. W)
    <3> HIDE DEF index
    <3> QED BY <2>3, RemoveAtIs
  <2>5. ASSUME NEW i \in DOMAIN t PROVE rows[i] = RowAt(i, u)
    <3>1. rows[i] = IF index <= Len(RowAt(i, s)) THEN RemoveAt(RowAt(i, s), index) ELSE RowAt(i, s)
      BY <1>4
    <3> HIDE DEF index, rows
    <3>2. Len(RowAt(i, s)) = Len(s) /\ RemoveAt(RowAt(i, s), index) = RowAt(i, u)
      BY <2>3, RowTaken
    <3>3. index <= Len(s)
      BY <2>3, LenProperties
    <3> QED BY <3>1, <3>2, <3>3
  <2>6. rows = RowsAt(t, u)
    <3> HIDE DEF u, index
    <3> QED BY <2>5 DEF RowsAt
  <2>7. rows \in SameColumns(t, W)
    <3> HIDE DEF rows, u
    <3> QED BY <2>4, <2>6 DEF SameColumns
  <2> HIDE DEF rows, u
  <2> QED BY <2>7 DEF Lefts
<1> HIDE DEF A, B, row
<1> QED BY <1>2, <1>3, <1>5

\* What is left in the end is the same in every row.
LEMMA ColumnsLeft ==
    ASSUME NEW t \in Tables, NEW W, Simple(t, W), NEW S \in SUBSET Places(t)
    PROVE  \E s \in Seq(1 .. W) :
             DeleteColumns(t, S) =
                DeleteCells(t, Places(t) \ UNION {Range(RowAt(i, s)) : i \in DOMAIN t})
<1> DEFINE order == Reverse(InOrder(S))
           N == Len(order)
           base == [failed |-> FALSE, rows |-> [i \in DOMAIN t |-> [j \in DOMAIN t[i] |-> <<i, j>>]]]
           step == [n \in 1 .. N |-> [acc \in Lefts(t, W) |-> TakeColumn(t, acc, order[n])]]
           Recursive(g) == g = [n \in 0 .. N |-> IF n = 0 THEN base ELSE TakeColumn(t, g[n - 1], order[n])]
           left == CHOOSE g : Recursive(g)
           Rest(rows) == DeleteCells(t, Places(t) \ UNION {Range(rows[i]) : i \in DOMAIN t})
<1>1. W \in Nat /\ Len(t) \in Nat /\ DOMAIN t = 1 .. Len(t) /\ \A i \in 1 .. Len(t) : Len(t[i]) = W /\ t[i] \in Seq(Cell)
  BY TableIs DEF Simple
<1>2. N \in Nat /\ \A n \in 1 .. N : order[n] \in Places(t)
  <2> DEFINE s == InOrder(S)
  <2>1. S \in SUBSET (Int \X Int) /\ IsFiniteSet(S)
    BY PlacesOf, FS_Subset DEF Position
  <2>2. Cardinality(S) \in Nat /\ s \in [1 .. Cardinality(S) -> S]
    BY <2>1, InOrderLists DEF Lists
  <2> HIDE DEF s
  <2>3. s \in Seq(S) /\ Len(s) = Cardinality(S) /\ DOMAIN s = 1 .. Cardinality(S)
    BY <2>2, ListIsSeq
  <2>4. order = [i \in 1 .. Len(s) |-> s[(Len(s) - i) + 1]]
    BY DEF Reverse, s
  <2>5. order \in [1 .. Cardinality(S) -> S]
    <3>1. \A i \in 1 .. Cardinality(S) : (Cardinality(S) - i) + 1 \in 1 .. Cardinality(S)
      BY <2>2
    <3> HIDE DEF order
    <3> QED BY <2>2, <2>3, <2>4, <3>1
  <2>6. N = Cardinality(S)
    <3> HIDE DEF order
    <3> QED BY <2>2, <2>5, ListIsSeq
  <2> HIDE DEF order, N
  <2> QED BY <2>2, <2>5, <2>6
<1>3. DeleteColumns(t, S) = Rest(left[N].rows)
  BY DEF DeleteColumns, TakeColumn
<1> HIDE DEF order, N, Rest, left
<1>4. base \in Lefts(t, W)
  <2> DEFINE rows == [i \in DOMAIN t |-> [j \in DOMAIN t[i] |-> <<i, j>>]]
             s == [j \in 1 .. W |-> j]
  <2>1. s \in Seq(1 .. W) /\ Len(s) = W
    <3>1. s \in [1 .. W -> 1 .. W]
      OBVIOUS
    <3> HIDE DEF s
    <3> QED BY <1>1, <3>1, ListIsSeq
  <2>2. \A i \in DOMAIN t : DOMAIN t[i] = 1 .. W
    BY <1>1, LenProperties
  <2>3. \A i \in DOMAIN t : RowAt(i, s) = [j \in 1 .. W |-> <<i, j>>]
    BY <2>1 DEF RowAt
  <2>4. rows = RowsAt(t, s)
    <3> HIDE DEF s
    <3> QED BY <2>2, <2>3 DEF RowsAt
  <2>5. rows \in SameColumns(t, W)
    <3> HIDE DEF s, rows
    <3> QED BY <2>1, <2>4 DEF SameColumns
  <2> HIDE DEF rows
  <2>6. [failed |-> FALSE, rows |-> rows] \in Lefts(t, W)
    BY <2>5 DEF Lefts
  <2> QED BY <2>6 DEF rows
<1> HIDE DEF base
<1>5. ASSUME NEW n \in 1 .. N, NEW acc \in Lefts(t, W) PROVE TakeColumn(t, acc, order[n]) \in Lefts(t, W)
  <2>1. order[n][1] \in DOMAIN t
    BY <1>1, <1>2, PlacesOf
  <2> QED BY <1>1, <2>1, ColumnTaken
<1>6. step \in [1 .. N -> [Lefts(t, W) -> Lefts(t, W)]]
  BY <1>5
<1>7. PICK f : Solves(f, N, Lefts(t, W), base, step)
  <2> HIDE DEF step
  <2> QED BY <1>2, <1>4, <1>6, RecursionHasSolution
<1>8. ASSUME NEW n \in 1 .. N PROVE f[n] = TakeColumn(t, f[n - 1], order[n])
  <2>1. n - 1 \in 0 .. N
    BY <1>2
  <2>2. f[n - 1] \in Lefts(t, W) /\ f[n] = step[n][f[n - 1]]
    BY <1>7, <2>1 DEF Solves
  <2> QED BY <2>2
<1> HIDE DEF step
<1>9. f \in [0 .. N -> Lefts(t, W)] /\ f[0] = base
  BY <1>7 DEF Solves
<1>10. Recursive(f)
  BY <1>2, <1>8, <1>9
<1>11. ASSUME NEW g, Recursive(g) PROVE g = f
  <2> DEFINE Q == {n \in 0 .. N : g[n] = f[n]}
  <2>1. 0 \in Q
    BY <1>2, <1>9, <1>11
  <2>2. ASSUME NEW n \in 0 + 1 .. N, n - 1 \in Q PROVE n \in Q
    <3>1. n \in 1 .. N /\ n \in 0 .. N /\ n # 0
      BY <1>2
    <3>2. g[n] = TakeColumn(t, g[n - 1], order[n])
      BY <1>11, <3>1
    <3> QED BY <1>8, <2>2, <3>1, <3>2
  <2>3. \A n \in 0 .. N : n \in Q
    <3> HIDE DEF Q
    <3> QED BY <1>2, <2>1, <2>2, UpTo
  <2>4. \A n \in 0 .. N : g[n] = f[n]
    BY <2>3
  <2> QED BY <1>9, <1>11, <2>4
<1>12. Recursive(left)
  BY <1>10 DEF left
<1> HIDE DEF Recursive
<1>13. left = f
  BY <1>11, <1>12
<1>14. left[N].rows \in SameColumns(t, W)
  BY <1>2, <1>9, <1>13 DEF Lefts
<1>15. PICK s \in Seq(1 .. W) : left[N].rows = RowsAt(t, s)
  BY <1>14 DEF SameColumns
<1>16. Rest(RowsAt(t, s)) = DeleteCells(t, Places(t) \ UNION {Range(RowAt(i, s)) : i \in DOMAIN t})
  <2>1. {Range(RowsAt(t, s)[i]) : i \in DOMAIN t} = {Range(RowAt(i, s)) : i \in DOMAIN t}
    BY DEF RowsAt
  <2> QED BY <2>1 DEF Rest
<1> QED BY <1>3, <1>15, <1>16

\* Columns taken out of a table without holes and spans, but not all of them.
LEMMA GridWithoutColumns ==
    ASSUME NEW t \in Tables, FullGrid(t), ~ HasSpans(t), NEW S \in SUBSET Places(t),
           DeleteColumns(t, S) # <<>>
    PROVE  FullGrid(DeleteColumns(t, S))
<1>1. PICK W : Simple(t, W)
  BY GridIsSimple
<1>2. W \in Nat /\ \A i \in 1 .. Len(t) : Plain(t[i], W)
  <2>1. W \in Nat
    BY <1>1 DEF Simple
  <2> QED BY <1>1, <2>1, SimpleRows
<1>3. PICK s \in Seq(1 .. W) :
        DeleteColumns(t, S) = DeleteCells(t, Places(t) \ UNION {Range(RowAt(i, s)) : i \in DOMAIN t})
  BY <1>1, ColumnsLeft
<1> DEFINE D == Places(t) \ UNION {Range(RowAt(i, s)) : i \in DOMAIN t}
           C == {s[j] : j \in 1 .. Len(s)}
           T == Without(t, D)
           V == Cardinality(C)
<1>4. DOMAIN t = 1 .. Len(t) /\ Len(t) \in Nat /\ Len(s) \in Nat /\ \A j \in 1 .. Len(s) : s[j] \in 1 .. W
  BY TableIs, LenProperties
<1>5. C \in SUBSET (1 .. W) /\ IsFiniteSet(C) /\ V \in Nat
  <2>1. C \in SUBSET (1 .. W)
    BY <1>4
  <2>2. 1 \in Int /\ W \in Int
    BY <1>2
  <2>3. IsFiniteSet(1 .. W)
    BY <2>2, FS_Interval
  <2> HIDE DEF C
  <2>4. IsFiniteSet(C)
    BY <2>1, <2>3, FS_Subset
  <2> QED BY <2>1, <2>4, FS_CardinalityType
<1>6. ASSUME NEW i \in 1 .. Len(t) PROVE LeftIn(t, D, i) = {i} \X C
  <2>1. \A k : Range(RowAt(k, s)) = {<<k, s[j]>> : j \in 1 .. Len(s)}
    BY DEF Range, RowAt
  <2>2. \A p : p \in Places(t) /\ p \notin D <=>
               p \in Places(t) /\ \E k \in DOMAIN t : \E j \in 1 .. Len(s) : p = <<k, s[j]>>
    BY <2>1
  <2> HIDE DEF D
  <2>3. ASSUME NEW p \in Places(t), p[1] = i, p \notin D PROVE p \in {i} \X C
    <3>1. PICK k \in DOMAIN t, j \in 1 .. Len(s) : p = <<k, s[j]>>
      BY <2>2, <2>3
    <3>2. k = i
      BY <2>3, <3>1
    <3> QED BY <3>1, <3>2
  <2>4. ASSUME NEW p \in {i} \X C PROVE p \in Places(t) /\ p[1] = i /\ p \notin D
    <3>1. PICK j \in 1 .. Len(s) : p = <<i, s[j]>>
      OBVIOUS
    <3>2. s[j] \in 1 .. Len(t[i])
      BY <1>2, <1>4 DEF Plain
    <3>3. p \in Places(t)
      BY <3>1, <3>2, PlacesOf
    <3> QED BY <1>4, <2>2, <3>1, <3>3
  <2> HIDE DEF C
  <2> QED BY <2>3, <2>4 DEF LeftIn
<1> HIDE DEF D, C, V
<1>7. \A i \in 1 .. Len(t) : Cardinality({i} \X C) = V
  <2> TAKE i \in 1 .. Len(t)
  <2> DEFINE I == {i}
  <2>1. IsFiniteSet(I) /\ Cardinality(I) = 1
    BY FS_Singleton
  <2> HIDE DEF I
  <2>2. Cardinality(I \X C) = Cardinality(I) * Cardinality(C)
    BY <1>5, <2>1, FS_Product
  <2> QED BY <1>5, <2>1, <2>2 DEF I, V
<1>8. T \in Tables /\ Len(T) = Len(t)
  BY WithoutIs DEF Inherits
<1>9. \A i \in 1 .. Len(t) :
          /\ Len(T[i]) = Cardinality(LeftIn(t, D, i))
          /\ \A j \in 1 .. Len(T[i]) : \E k \in 1 .. Len(t[i]) : T[i][j] = t[i][k]
  <2>1. t \in Tables
    OBVIOUS
  <2> QED BY ONLY <2>1, WithoutIs
<1>10. ASSUME NEW i \in 1 .. Len(T) PROVE Plain(T[i], V)
  <2>1. i \in 1 .. Len(t)
    BY <1>8
  <2>2. Len(T[i]) = V
    <3>1. Len(T[i]) = Cardinality(LeftIn(t, D, i))
      BY <1>9, <2>1
    <3> QED BY <1>6, <1>7, <2>1, <3>1
  <2>3. \A j \in 1 .. Len(T[i]) : \E k \in 1 .. Len(t[i]) : T[i][j] = t[i][k]
    BY <1>9, <2>1
  <2>4. T[i] \in Seq(Cell)
    BY <1>8, TableIs
  <2>5. ASSUME NEW j \in 1 .. V PROVE T[i][j].colSpan = 1 /\ T[i][j].rowSpan = 1
    <3>1. PICK k \in 1 .. Len(t[i]) : T[i][j] = t[i][k]
      BY <2>2, <2>3
    <3> QED BY <1>2, <2>1, <3>1 DEF Plain
  <2> QED BY <2>2, <2>4, <2>5 DEF Plain
<1> HIDE DEF T
<1>11. Simple(T, V)
  BY <1>5, <1>8, <1>10, SimpleRows
<1> DEFINE E == {i \in DOMAIN t : t[i] # <<>> /\ T[i] = <<>>}
<1>12. DeleteColumns(t, S) = WithoutRows(T, E)
  BY <1>3 DEF DeleteCells, D, T
<1> HIDE DEF E
<1> QED BY <1>8, <1>11, <1>12, GridWithoutRows

\* T has the cells of t, which after takes to their places in T, and the cell new.
Grows(T, t, new, before, after) ==
    /\ T \in Tables /\ Len(T) > 0 /\ new \in Places(T)
    /\ \A p \in Places(T) : p # new => before[p] \in Places(t) /\ after[before[p]] = p
    /\ \A q \in Places(t) : after[q] \in Places(T) /\ after[q] # new /\ before[after[q]] = q

\* The new cell of T fills the positions of B, the others those that owner gives to them.
Shared(T, W, t, col, new, c0, after, B, owner) ==
    /\ W \in Nat
    /\ c0 \in Nat \ {0}
    /\ \A q \in Places(t) : col[q] \in Nat \ {0}
    /\ \A x \in (1 .. Len(T)) \X (1 .. W) : x \notin B => owner[x] \in Places(t)
    /\ \A x : Within(x, new[1], c0, CellAt(T, new).rowSpan, CellAt(T, new).colSpan)
             <=> x \in (1 .. Len(T)) \X (1 .. W) /\ x \in B
    /\ \A q \in Places(t) : \A x :
          Within(x, after[q][1], col[q], CellAt(T, after[q]).rowSpan, CellAt(T, after[q]).colSpan)
          <=> x \in (1 .. Len(T)) \X (1 .. W) /\ x \notin B /\ owner[x] = q
    /\ \A p, q \in Places(t) : after[p][1] = after[q][1] /\ after[p][2] < after[q][2] => col[p] < col[q]
    /\ \A q \in Places(t) : after[q][1] = new[1] =>
          /\ after[q][2] < new[2] => col[q] < c0
          /\ after[q][2] > new[2] => c0 < col[q]

\* Such a table has no holes and overlaps.
LEMMA GrownGrid ==
    ASSUME NEW T, NEW t, NEW new, NEW before, NEW after, Grows(T, t, new, before, after),
           NEW W, NEW col, NEW c0, NEW B, NEW owner, Shared(T, W, t, col, new, c0, after, B, owner)
    PROVE  FullGrid(T)
<1> DEFINE P == Places(t)
<1> USE DEF Grows, Shared
<1> DEFINE G == (1 .. Len(T)) \X (1 .. W)
           C == [p \in Places(T) |-> IF p = new THEN c0 ELSE col[before[p]]]
           own == [x \in G |-> IF x \in B THEN new ELSE after[owner[x]]]
<1>1. C \in [Places(T) -> Nat \ {0}]
  OBVIOUS
<1>2. \A x \in G : own[x] \in Places(T)
  OBVIOUS
<1>3. ASSUME NEW p \in Places(T), NEW x
      PROVE  x \in Rect(T, C, p) <=> x \in G /\ own[x] = p
  <2>1. x \in Rect(T, C, p) <=> Within(x, p[1], C[p], CellAt(T, p).rowSpan, CellAt(T, p).colSpan)
    <3> HIDE DEF C
    <3> QED BY <1>1, RectIs
  <2>2. CASE p = new
    <3>1. C[p] = c0
      BY <2>2
    <3>2. x \in Rect(T, C, p) <=> x \in G /\ x \in B
      <4> HIDE DEF C
      <4> QED BY <2>1, <2>2, <3>1
    <3>3. x \in G => (own[x] = p <=> x \in B)
      BY <2>2
    <3> HIDE DEF C, own, G
    <3> QED BY <3>2, <3>3
  <2>3. CASE p # new
    <3> DEFINE q == before[p]
    <3>1. q \in P /\ after[q] = p /\ C[p] = col[q]
      BY <2>3
    <3>2. x \in Rect(T, C, p) <=> x \in G /\ x \notin B /\ owner[x] = q
      <4> HIDE DEF C, q
      <4> QED BY <2>1, <3>1
    <3>3. x \in G => (own[x] = p <=> x \notin B /\ owner[x] = q)
      <4>1. x \in G /\ x \notin B => owner[x] \in P /\ own[x] = after[owner[x]]
        OBVIOUS
      <4>2. x \in G /\ x \in B => own[x] = new
        OBVIOUS
      <4> HIDE DEF C, own, G, q
      <4> QED BY <2>3, <3>1, <4>1, <4>2
    <3> HIDE DEF C, own, G, q
    <3> QED BY <3>2, <3>3
  <2> QED BY <2>2, <2>3
<1>4. ASSUME NEW p \in Places(T), NEW q \in Places(T), p[1] = q[1], p[2] < q[2] PROVE C[p] < C[q]
  <2>1. p # q
    <3>1. p[2] \in Nat
      BY PlacesOf
    <3> QED BY <1>4, <3>1
  <2>2. CASE p = new
    <3>1. C[p] = c0 /\ C[q] = col[before[q]] /\ before[q] \in P /\ after[before[q]] = q
      BY <2>1, <2>2
    <3>2. q[2] > new[2] /\ q[1] = new[1]
      <4>1. p[2] \in Nat /\ q[2] \in Nat
        BY PlacesOf
      <4> QED BY <1>4, <2>2, <4>1
    <3> HIDE DEF C
    <3> QED BY <3>1, <3>2
  <2>3. CASE q = new
    <3>1. C[q] = c0 /\ C[p] = col[before[p]] /\ before[p] \in P /\ after[before[p]] = p
      BY <2>1, <2>3
    <3> HIDE DEF C
    <3> QED BY <1>4, <2>3, <3>1
  <2>4. CASE p # new /\ q # new
    <3>1. /\ C[p] = col[before[p]] /\ before[p] \in P /\ after[before[p]] = p
          /\ C[q] = col[before[q]] /\ before[q] \in P /\ after[before[q]] = q
      BY <2>4
    <3> HIDE DEF C
    <3> QED BY <1>4, <3>1
  <2> QED BY <2>2, <2>3, <2>4
<1>5. \A p \in Places(T) : \A x : x \in Rect(T, C, p) <=> x \in (1 .. Len(T)) \X (1 .. W) /\ own[x] = p
  BY <1>3
<1>6. \A x \in (1 .. Len(T)) \X (1 .. W) : own[x] \in Places(T)
  BY <1>2
<1>7. \A p, q \in Places(T) : p[1] = q[1] /\ p[2] < q[2] => C[p] < C[q]
  BY <1>4
<1>8. T \in Tables /\ Len(T) > 0 /\ W \in Nat
  OBVIOUS
<1> HIDE DEF C, own, G
<1>9. Owned(T, W, C, own)
  BY <1>1, <1>5, <1>6, <1>7, <1>8 DEF Owned
<1> QED BY <1>8, <1>9, OwnedGrid

\* A table without holes and overlaps, its map and the rectangles of its cells.
Gridded(t, map, W) ==
    /\ W \in Nat /\ Len(t) \in Nat
    /\ DOMAIN map = (1 .. Len(t)) \X (1 .. W)
    /\ \A x \in DOMAIN map : map[x] \in Places(t)
    /\ \A p \in Places(t) :
          /\ p = <<p[1], p[2]>> /\ p[1] \in 1 .. Len(t) /\ p[2] \in 1 .. Len(t[p[1]]) /\ Len(t[p[1]]) \in Nat
          /\ CellColumn(map, p) \in 1 .. W
          /\ CellAt(t, p).rowSpan \in Nat \ {0} /\ CellAt(t, p).colSpan \in Nat \ {0}
          /\ p[1] + CellAt(t, p).rowSpan <= Len(t) + 1
          /\ CellColumn(map, p) + CellAt(t, p).colSpan <= W + 1
          /\ \A i, j \in Int :
                <<i, j>> \in DOMAIN map /\ map[<<i, j>>] = p <=>
                    /\ p[1] <= i /\ i < p[1] + CellAt(t, p).rowSpan
                    /\ CellColumn(map, p) <= j /\ j < CellColumn(map, p) + CellAt(t, p).colSpan
    /\ \A p, q \in Places(t) : p[1] = q[1] /\ p[2] < q[2] => CellColumn(map, p) < CellColumn(map, q)
    /\ \A i \in 1 .. Len(t) : RowEnd(map, i) = W

\* What is known of the map of a grid.
LEMMA GriddedIs ==
    ASSUME NEW t \in Tables, FullGrid(t), NEW map, map = CreateTableMap(t)
    PROVE  \E W : Gridded(t, map, W) /\ Laid(map, t) /\ Tiled(t, map)
<1> DEFINE W == RowEnd(map, 1)
<1>1. Laid(map, t) /\ GridOf(t, map, W)
  BY CreateTableMapLays, GridIsTiled
<1> HIDE DEF W
<1>2. W \in Nat /\ DOMAIN map = (1 .. Len(t)) \X (1 .. W) /\ Tiled(t, map) /\ Whole(t, map) /\ Len(t) \in Nat
  BY <1>1, TableIs DEF GridOf, Tiled
<1>3. \A x \in DOMAIN map : map[x] \in Places(t)
  BY <1>1 DEF Laid, IsMap
<1>4. \A p, q \in Places(t) : p[1] = q[1] /\ p[2] < q[2] => CellColumn(map, p) < CellColumn(map, q)
  BY <1>1 DEF Laid
<1>5. ASSUME NEW i \in 1 .. Len(t) PROVE RowEnd(map, i) = W
  <2>1. IsMap(map, Places(t))
    BY <1>1 DEF Laid
  <2> DEFINE e == RowEnd(map, i)
  <2>2. e \in Nat /\ (\A c : <<i, c>> \in DOMAIN map => c \in 1 .. e) /\ (e # 0 => <<i, e>> \in DOMAIN map)
    BY <2>1, RowEndIs
  <2>3. \A c : <<i, c>> \in DOMAIN map <=> c \in 1 .. W
    BY <1>2
  <2> HIDE DEF e
  <2>4. e # 0 => e <= W
    BY <2>2, <2>3
  <2>5. W # 0 => W <= e
    <3> SUFFICES ASSUME W # 0 PROVE W <= e
      OBVIOUS
    <3>1. W \in 1 .. W
      BY <1>2
    <3>2. <<i, W>> \in DOMAIN map
      BY <2>3, <3>1
    <3>3. W \in 1 .. e
      BY <2>2, <3>2
    <3> QED BY <2>2, <3>3
  <2>6. e = W
    BY <1>2, <2>2, <2>4, <2>5
  <2> QED BY <2>6 DEF e
<1>6. ASSUME NEW p \in Places(t)
      PROVE /\ p = <<p[1], p[2]>> /\ p[1] \in 1 .. Len(t) /\ p[2] \in 1 .. Len(t[p[1]]) /\ Len(t[p[1]]) \in Nat
            /\ CellColumn(map, p) \in 1 .. W
            /\ CellAt(t, p).rowSpan \in Nat \ {0} /\ CellAt(t, p).colSpan \in Nat \ {0}
            /\ p[1] + CellAt(t, p).rowSpan <= Len(t) + 1
            /\ CellColumn(map, p) + CellAt(t, p).colSpan <= W + 1
            /\ \A i, j \in Int :
                <<i, j>> \in DOMAIN map /\ map[<<i, j>>] = p <=>
                    /\ p[1] <= i /\ i < p[1] + CellAt(t, p).rowSpan
                    /\ CellColumn(map, p) <= j /\ j < CellColumn(map, p) + CellAt(t, p).colSpan
  <2> DEFINE c == CellColumn(map, p)
             h == CellAt(t, p).rowSpan
             w == CellAt(t, p).colSpan
             x == <<p[1], c>>
  <2>1. p = <<p[1], p[2]>> /\ p[1] \in 1 .. Len(t) /\ p[2] \in 1 .. Len(t[p[1]])
    BY PlacesOf
  <2>2. Len(t[p[1]]) \in Nat
    BY <2>1, TableIs, LenProperties
  <2>3. c \in Nat \ {0} /\ x \in DOMAIN map /\ map[x] = p
    BY <1>1 DEF Laid
  <2>4. h \in Nat \ {0} /\ w \in Nat \ {0}
    BY CellIs
  <2>5. WholeAt(map, p, p[1], c, h, w)
    <3> HIDE DEF x
    <3> QED BY <1>1, <1>2, <2>3, WholeCell
  <2>6. \A i, j \in Int : <<i, j>> \in DOMAIN map /\ map[<<i, j>>] = p <=>
                            p[1] <= i /\ i < p[1] + h /\ c <= j /\ j < c + w
    <3> HIDE DEF c, h, w
    <3> QED BY <2>5 DEF WholeAt, Positions
  <2> DEFINE a == p[1] + h - 1
             b == c + w - 1
  <2>7. a \in Int /\ b \in Int /\ p[1] <= a /\ a < p[1] + h /\ c <= b /\ b < c + w
    <3>1. p[1] \in Nat /\ c \in Nat /\ h \in Nat \ {0} /\ w \in Nat \ {0}
      BY <2>1, <2>3, <2>4
    <3> HIDE DEF c, h, w
    <3> QED BY <3>1
  <2>8. <<a, b>> \in DOMAIN map
    <3> HIDE DEF a, b, c, h, w
    <3> QED BY <2>6, <2>7
  <2>9. a \in 1 .. Len(t) /\ b \in 1 .. W /\ c \in 1 .. W
    <3>1. x \in (1 .. Len(t)) \X (1 .. W) /\ <<a, b>> \in (1 .. Len(t)) \X (1 .. W)
      BY <1>2, <2>3, <2>8
    <3> HIDE DEF a, b, c
    <3> QED BY <3>1
  <2> HIDE DEF c, h, w
  <2>10. p[1] + h <= Len(t) + 1 /\ c + w <= W + 1
    BY <1>2, <2>1, <2>3, <2>4, <2>9
  <2> QED BY <2>1, <2>2, <2>4, <2>6, <2>9, <2>10 DEF c, h, w
<1>7. Gridded(t, map, W)
  BY <1>2, <1>3, <1>4, <1>5, <1>6 DEF Gridded
<1> QED BY <1>1, <1>2, <1>7

\* Where the cells of a table go, and come from, when one is put into a row.
RightOf(q, row, k) == IF q[1] = row /\ q[2] >= k THEN <<q[1], q[2] + 1>> ELSE q
LeftOf(p, row, k) == IF p[1] = row /\ p[2] > k THEN <<p[1], p[2] - 1>> ELSE p
MoveRight(t, row, k) == [q \in Places(t) |-> RightOf(q, row, k)]
MoveLeft(T, row, k) == [p \in Places(T) |-> LeftOf(p, row, k)]

InsertedCell(t, row, k, e) == Inserted(t, {row}, [i \in {row} |-> k], [i \in {row} |-> e])

\* A cell without text grows a table in its row.
LEMMA CellInserted ==
    ASSUME NEW t \in Tables, NEW row \in 1 .. Len(t), NEW k \in 1 .. Len(t[row]) + 1,
           NEW e \in Cell, e.text = {},
           NEW T, T = InsertedCell(t, row, k, e)
    PROVE  /\ Grows(T, t, <<row, k>>, MoveLeft(T, row, k), MoveRight(t, row, k))
           /\ Len(T) = Len(t)
           /\ CellAt(T, <<row, k>>) = e
           /\ \A q \in Places(t) : CellAt(T, MoveRight(t, row, k)[q]) = CellAt(t, q)
<1>1. T \in Tables
  <2> DEFINE at == [i \in {row} |-> k]
             es == [i \in {row} |-> e]
             R == {row}
  <2>1. \A i \in R \cap DOMAIN t : at[i] \in 1 .. Len(t[i]) + 1 /\ es[i] \in Cell /\ es[i].text = {}
    OBVIOUS
  <2> HIDE DEF at, es, R
  <2>2. Keeps(Inserted(t, R, at, es), t)
    BY <2>1, CellsInserted
  <2> QED BY <2>2 DEF Keeps, Inherits, at, es, R, InsertedCell
<1>2. /\ Len(t) \in Nat /\ DOMAIN t = 1 .. Len(t)
      /\ \A i \in 1 .. Len(t) : t[i] \in Seq(Cell) /\ Len(t[i]) \in Nat /\ DOMAIN t[i] = 1 .. Len(t[i])
  BY TableIs, LenProperties
<1>3. DOMAIN T = 1 .. Len(t) /\ T[row] = InsertAt(t[row], k, e) /\ \A i \in 1 .. Len(t) : i # row => T[i] = t[i]
  BY <1>2 DEF Inserted, InsertedCell
<1>4. Len(T) = Len(t) /\ Len(t) > 0 /\ row \in Nat /\ k \in Nat
  BY <1>1, <1>2, <1>3, TableIs
<1>5. /\ Len(T[row]) = Len(t[row]) + 1
      /\ \A j \in 1 .. Len(t[row]) + 1 : j < k => T[row][j] = t[row][j]
      /\ T[row][k] = e
      /\ \A j \in 1 .. Len(t[row]) + 1 : ~ (j < k) /\ j # k => T[row][j] = t[row][j - 1]
  <2> DEFINE s == t[row]
             U == InsertAt(s, k, e)
  <2>1. s \in Seq(Cell) /\ k \in 1 .. Len(s) + 1
    BY <1>2
  <2> HIDE DEF s
  <2>2. /\ Len(U) = Len(s) + 1
        /\ \A j \in 1 .. Len(s) + 1 : U[j] = IF j < k THEN s[j] ELSE IF j = k THEN e ELSE s[j - 1]
    BY <2>1, InsertAtIs
  <2>3. T[row] = U
    BY <1>3 DEF s
  <2> HIDE DEF U
  <2>4. ~ (k < k)
    BY <1>4
  <2> QED BY <2>1, <2>2, <2>3, <2>4 DEF s
<1>6. \A p : p \in Places(T) <=> p = <<p[1], p[2]>> /\ p[1] \in 1 .. Len(t) /\ p[2] \in 1 .. Len(T[p[1]])
  BY <1>1, <1>4, PlacesOf
<1>7. \A p : p \in Places(t) <=> p = <<p[1], p[2]>> /\ p[1] \in 1 .. Len(t) /\ p[2] \in 1 .. Len(t[p[1]])
  BY PlacesOf
<1>8. <<row, k>> \in Places(T) /\ CellAt(T, <<row, k>>) = e
  BY <1>2, <1>4, <1>5, <1>6 DEF CellAt
<1>9. ASSUME NEW q \in Places(t)
      PROVE  /\ RightOf(q, row, k) \in Places(T) /\ RightOf(q, row, k) # <<row, k>>
             /\ LeftOf(RightOf(q, row, k), row, k) = q
             /\ CellAt(T, RightOf(q, row, k)) = CellAt(t, q)
  <2>1. q = <<q[1], q[2]>> /\ q[1] \in 1 .. Len(t) /\ q[2] \in 1 .. Len(t[q[1]]) /\ Len(t[q[1]]) \in Nat
    BY <1>2, <1>7
  <2>2. CASE q[1] # row
    <3>1. RightOf(q, row, k) = q /\ LeftOf(q, row, k) = q
      BY <2>2 DEF RightOf, LeftOf
    <3>2. T[q[1]] = t[q[1]]
      BY <1>3, <2>1, <2>2
    <3>3. q \in Places(T) /\ q # <<row, k>> /\ CellAt(T, q) = CellAt(t, q)
      BY <1>6, <2>1, <2>2, <3>2 DEF CellAt
    <3> QED BY <3>1, <3>3
  <2>3. CASE q[1] = row /\ q[2] < k
    <3>1. RightOf(q, row, k) = q /\ LeftOf(q, row, k) = q
      BY <1>4, <2>1, <2>3 DEF RightOf, LeftOf
    <3>2. T[row][q[2]] = t[row][q[2]] /\ q[2] \in 1 .. Len(T[row])
      <4>1. q[2] \in 1 .. Len(t[row]) + 1
        BY <2>1, <2>3
      <4> QED BY <1>5, <2>3, <4>1
    <3>3. q \in Places(T)
      BY <1>6, <2>1, <2>3, <3>2
    <3>4. q # <<row, k>>
      BY <1>4, <2>1, <2>3
    <3>5. CellAt(T, q) = CellAt(t, q)
      BY <2>3, <3>2 DEF CellAt
    <3> QED BY <3>1, <3>3, <3>4, <3>5
  <2>4. CASE q[1] = row /\ q[2] >= k
    <3> DEFINE s == <<row, q[2] + 1>>
    <3>1. RightOf(q, row, k) = s
      BY <2>1, <2>4 DEF RightOf
    <3>2. LeftOf(s, row, k) = q
      BY <1>4, <2>1, <2>4 DEF LeftOf
    <3>3. q[2] + 1 \in 1 .. Len(t[row]) + 1 /\ ~ (q[2] + 1 < k) /\ q[2] + 1 # k /\ q[2] + 1 - 1 = q[2]
      BY <1>4, <2>1, <2>4
    <3>4. T[row][q[2] + 1] = t[row][q[2]] /\ q[2] + 1 \in 1 .. Len(T[row])
      <4>1. PICK j : j = q[2] + 1
        OBVIOUS
      <4>2. j \in 1 .. Len(t[row]) + 1 /\ ~ (j < k) /\ j # k
        BY <3>3, <4>1
      <4>3. j - 1 = q[2]
        BY <2>1, <4>1
      <4>4. T[row][j] = t[row][j - 1] /\ j \in 1 .. Len(T[row])
        BY <1>5, <4>2
      <4> QED BY <4>1, <4>3, <4>4
    <3>5. s \in Places(T) /\ s # <<row, k>>
      BY <1>6, <3>3, <3>4
    <3>6. CellAt(T, s) = CellAt(t, q)
      BY <2>4, <3>4 DEF CellAt
    <3> QED BY <3>1, <3>2, <3>5, <3>6
  <2> QED BY <1>4, <2>1, <2>2, <2>3, <2>4
<1>10. ASSUME NEW p \in Places(T), p # <<row, k>>
       PROVE  LeftOf(p, row, k) \in Places(t) /\ RightOf(LeftOf(p, row, k), row, k) = p
  <2>1. p = <<p[1], p[2]>> /\ p[1] \in 1 .. Len(t) /\ p[2] \in 1 .. Len(T[p[1]])
    BY <1>6
  <2>2. CASE p[1] # row
    <3>1. RightOf(p, row, k) = p /\ LeftOf(p, row, k) = p
      BY <2>2 DEF RightOf, LeftOf
    <3>2. T[p[1]] = t[p[1]]
      BY <1>3, <2>1, <2>2
    <3>3. p \in Places(t)
      BY <1>7, <2>1, <3>2
    <3> QED BY <3>1, <3>3
  <2>3. CASE p[1] = row /\ p[2] < k
    <3>0. p[2] \in Nat /\ k \in Nat
      BY <1>2, <1>4, <1>5, <2>1, <2>3
    <3>1. RightOf(p, row, k) = p /\ LeftOf(p, row, k) = p
      BY <2>3, <3>0 DEF RightOf, LeftOf
    <3>2. p[2] \in 1 .. Len(t[row])
      BY <1>2, <1>5, <2>1, <2>3
    <3> QED BY <1>7, <2>1, <2>3, <3>1, <3>2
  <2>4. CASE p[1] = row /\ p[2] > k
    <3> DEFINE s == <<row, p[2] - 1>>
    <3>0. p[2] \in 1 .. Len(t[row]) + 1 /\ Len(t[row]) \in Nat
      BY <1>2, <1>5, <2>1, <2>4
    <3>1. LeftOf(p, row, k) = s
      BY <2>1, <2>4 DEF LeftOf
    <3>2. p[2] - 1 >= k /\ p[2] - 1 + 1 = p[2] /\ p[2] - 1 \in 1 .. Len(t[row])
      BY <1>4, <2>4, <3>0
    <3>3. RightOf(s, row, k) = p
      BY <2>1, <2>4, <3>2 DEF RightOf
    <3>4. s \in Places(t)
      BY <1>7, <2>1, <2>4, <3>2
    <3> QED BY <3>1, <3>3, <3>4
  <2>5. p[1] = row => p[2] # k
    BY <1>10, <2>1
  <2>6. p[2] \in Nat
    BY <2>1
  <2> QED BY <1>4, <2>2, <2>3, <2>4, <2>5, <2>6
<1> QED BY <1>1, <1>4, <1>8, <1>9, <1>10 DEF Grows, MoveLeft, MoveRight

\* The same for a row of one cell that is put into the table.
BelowOf(q, i) == IF q[1] >= i THEN <<q[1] + 1, q[2]>> ELSE q
AboveOf(p, i) == IF p[1] > i THEN <<p[1] - 1, p[2]>> ELSE p
MoveDown(t, i) == [q \in Places(t) |-> BelowOf(q, i)]
MoveUp(T, i) == [p \in Places(T) |-> AboveOf(p, i)]

\* A row of one cell without text grows a table.
LEMMA CellBelow ==
    ASSUME NEW t \in Tables, NEW i \in 1 .. Len(t) + 1, NEW e \in Cell, e.text = {},
           NEW T, T = InsertAt(t, i, <<e>>)
    PROVE  /\ Grows(T, t, <<i, 1>>, MoveUp(T, i), MoveDown(t, i))
           /\ Len(T) = Len(t) + 1
           /\ CellAt(T, <<i, 1>>) = e
           /\ \A q \in Places(t) : CellAt(T, MoveDown(t, i)[q]) = CellAt(t, q)
<1>1. <<e>> \in Seq(Cell) /\ Len(<<e>>) = 1 /\ <<e>>[1] = e
  OBVIOUS
<1>2. /\ Len(t) \in Nat /\ DOMAIN t = 1 .. Len(t) /\ t \in Seq(Seq(Cell))
      /\ \A j \in 1 .. Len(t) : t[j] \in Seq(Cell) /\ Len(t[j]) \in Nat
  BY TableIs, LenProperties
<1>3. /\ T \in Tables /\ Len(T) = Len(t) + 1
      /\ \A j \in 1 .. Len(t) + 1 : T[j] = IF j < i THEN t[j] ELSE IF j = i THEN <<e>> ELSE t[j - 1]
  <2> DEFINE row == <<e>>
             U == InsertAt(t, i, row)
             Rows == Seq(Cell)
  <2>1. row \in Rows /\ t \in Seq(Rows) /\ i \in 1 .. Len(t) + 1
    BY <1>1, <1>2
  <2> HIDE DEF row, Rows
  <2>2. /\ U \in Seq(Rows) /\ Len(U) = Len(t) + 1
        /\ \A j \in 1 .. Len(t) + 1 : U[j] = IF j < i THEN t[j] ELSE IF j = i THEN row ELSE t[j - 1]
    BY <2>1, InsertAtIs
  <2>3. T = U
    BY DEF row
  <2> QED BY <2>2, <2>3 DEF row, Rows, Tables
<1>4. i \in Nat \ {0} /\ Len(T) > 0
  BY <1>2, <1>3
<1>5. /\ \A j \in 1 .. Len(t) + 1 : j < i => T[j] = t[j]
      /\ T[i] = <<e>>
      /\ \A j \in 1 .. Len(t) : j >= i => T[j + 1] = t[j]
  <2>1. \A j \in 1 .. Len(t) + 1 : j < i => T[j] = t[j]
    BY <1>3
  <2>2. T[i] = <<e>>
    BY <1>3, <1>4
  <2>3. ASSUME NEW j \in 1 .. Len(t), j >= i PROVE T[j + 1] = t[j]
    <3>1. PICK k : k = j + 1
      OBVIOUS
    <3>2. k \in 1 .. Len(t) + 1 /\ ~ (k < i) /\ k # i
      BY <1>2, <1>4, <2>3, <3>1
    <3>3. k - 1 = j
      BY <3>1
    <3>4. T[k] = t[k - 1]
      BY <1>3, <3>2
    <3> QED BY <3>1, <3>3, <3>4
  <2> QED BY <2>1, <2>2, <2>3
<1>6. \A p : p \in Places(T) <=> p = <<p[1], p[2]>> /\ p[1] \in 1 .. Len(t) + 1 /\ p[2] \in 1 .. Len(T[p[1]])
  BY <1>3, PlacesOf
<1>7. \A p : p \in Places(t) <=> p = <<p[1], p[2]>> /\ p[1] \in 1 .. Len(t) /\ p[2] \in 1 .. Len(t[p[1]])
  BY PlacesOf
<1>8. <<i, 1>> \in Places(T) /\ CellAt(T, <<i, 1>>) = e
  <2>1. Len(T[i]) = 1 /\ T[i][1] = e
    BY <1>1, <1>5
  <2> QED BY <1>6, <2>1 DEF CellAt
<1>9. ASSUME NEW q \in Places(t)
      PROVE  /\ BelowOf(q, i) \in Places(T) /\ BelowOf(q, i) # <<i, 1>>
             /\ AboveOf(BelowOf(q, i), i) = q
             /\ CellAt(T, BelowOf(q, i)) = CellAt(t, q)
  <2>1. q = <<q[1], q[2]>> /\ q[1] \in 1 .. Len(t) /\ q[2] \in 1 .. Len(t[q[1]])
    BY <1>7
  <2>2. CASE q[1] < i
    <3>1. BelowOf(q, i) = q /\ AboveOf(q, i) = q
      BY <1>4, <2>1, <2>2 DEF BelowOf, AboveOf
    <3>2. q[1] \in 1 .. Len(t) + 1 /\ q[1] # i
      BY <1>2, <1>4, <2>1, <2>2
    <3>3. T[q[1]] = t[q[1]]
      BY <1>5, <2>2, <3>2
    <3>4. q \in Places(T) /\ q # <<i, 1>> /\ CellAt(T, q) = CellAt(t, q)
      BY <1>6, <2>1, <3>2, <3>3 DEF CellAt
    <3> QED BY <3>1, <3>4
  <2>3. CASE q[1] >= i
    <3> DEFINE s == <<q[1] + 1, q[2]>>
    <3>1. BelowOf(q, i) = s
      BY <2>3 DEF BelowOf
    <3>2. q[1] + 1 \in 1 .. Len(t) + 1 /\ q[1] + 1 > i /\ q[1] + 1 - 1 = q[1] /\ q[1] + 1 # i
      BY <1>2, <1>4, <2>1, <2>3
    <3>3. AboveOf(s, i) = q
      BY <2>1, <3>2 DEF AboveOf
    <3>4. T[q[1] + 1] = t[q[1]]
      BY <1>5, <2>1, <2>3
    <3>5. s \in Places(T) /\ s # <<i, 1>> /\ CellAt(T, s) = CellAt(t, q)
      BY <1>6, <2>1, <3>2, <3>4 DEF CellAt
    <3> QED BY <3>1, <3>3, <3>5
  <2> QED BY <1>4, <2>1, <2>2, <2>3
<1>10. ASSUME NEW p \in Places(T), p # <<i, 1>>
       PROVE  AboveOf(p, i) \in Places(t) /\ BelowOf(AboveOf(p, i), i) = p
  <2>1. p = <<p[1], p[2]>> /\ p[1] \in 1 .. Len(t) + 1 /\ p[2] \in 1 .. Len(T[p[1]])
    BY <1>6
  <2>2. CASE p[1] < i
    <3>1. BelowOf(p, i) = p /\ AboveOf(p, i) = p
      BY <1>4, <2>1, <2>2 DEF BelowOf, AboveOf
    <3>2. p[1] \in 1 .. Len(t)
      BY <1>2, <1>4, <2>1, <2>2
    <3>3. T[p[1]] = t[p[1]]
      BY <1>5, <2>1, <2>2
    <3> QED BY <1>7, <2>1, <3>1, <3>2, <3>3
  <2>3. CASE p[1] > i
    <3> DEFINE s == <<p[1] - 1, p[2]>>
    <3>1. AboveOf(p, i) = s
      BY <2>3 DEF AboveOf
    <3>2. PICK j : j = p[1] - 1
      OBVIOUS
    <3>3. j \in 1 .. Len(t) /\ j >= i /\ j + 1 = p[1]
      BY <1>2, <1>4, <2>1, <2>3, <3>2
    <3>4. BelowOf(s, i) = p
      BY <2>1, <3>2, <3>3 DEF BelowOf
    <3>5. T[j + 1] = t[j]
      BY <1>5, <3>3
    <3>6. T[p[1]] = t[j]
      BY <3>3, <3>5
    <3>7. s \in Places(t)
      BY <1>7, <2>1, <3>2, <3>3, <3>6
    <3> QED BY <3>1, <3>4, <3>7
  <2>4. p[1] # i
    <3> SUFFICES ASSUME p[1] = i PROVE FALSE
      OBVIOUS
    <3>1. Len(T[i]) = 1
      BY <1>1, <1>5
    <3>2. p[2] \in 1 .. 1
      BY <2>1, <3>1
    <3> QED BY <1>10, <2>1, <3>2
  <2> QED BY <1>4, <2>1, <2>2, <2>3, <2>4
<1> QED BY <1>3, <1>4, <1>8, <1>9, <1>10 DEF Grows, MoveDown, MoveUp

\* A cell of several rows is split where a row of the table begins, and the new cell goes
\* between the cells that begin to its left and to its right.
LEMMA LowerCellStands ==
    ASSUME NEW t \in Tables, NEW map, NEW W, Gridded(t, map, W), NEW ref \in Places(t),
           CellAt(t, ref).rowSpan > 1
    PROVE  /\ LowerRow(t, ref) \in 1 .. Len(t)
           /\ ref[1] < LowerRow(t, ref) /\ LowerRow(t, ref) < ref[1] + CellAt(t, ref).rowSpan
           /\ <<LowerRow(t, ref), CellColumn(map, ref)>> \in DOMAIN map
           /\ map[<<LowerRow(t, ref), CellColumn(map, ref)>>] = ref
           /\ ~ SplitRowsThrows(t, map, ref)
           /\ \A q \in Places(t) : q[1] = LowerRow(t, ref) =>
                 /\ q[2] < LowerIndex(t, map, ref) => CellColumn(map, q) < CellColumn(map, ref)
                 /\ q[2] >= LowerIndex(t, map, ref) => CellColumn(map, ref) < CellColumn(map, q)
<1> DEFINE h == CellAt(t, ref).rowSpan
           c0 == CellColumn(map, ref)
           row == LowerRow(t, ref)
           later == LaterCells(t, map, ref)
           k == LowerIndex(t, map, ref)
<1>1. /\ h \in Nat /\ h > 1 /\ Half(h) \in Nat \ {0} /\ h - Half(h) \in Nat \ {0}
      /\ ref[1] \in 1 .. Len(t) /\ ref[1] + h <= Len(t) + 1 /\ Len(t) \in Nat /\ W \in Nat
      /\ c0 \in 1 .. W /\ c0 \in Int
  <2>1. h \in Nat /\ h > 1
    BY DEF Gridded
  <2> HIDE DEF h
  <2>2. Half(h) \in Nat \ {0} /\ h - Half(h) \in Nat \ {0}
    BY <2>1, HalfIs
  <2>3. /\ ref[1] \in 1 .. Len(t) /\ ref[1] + h <= Len(t) + 1 /\ Len(t) \in Nat /\ W \in Nat
        /\ c0 \in 1 .. W
    BY DEF Gridded, h
  <2>4. c0 \in Int
    BY <2>3
  <2> QED BY <2>1, <2>2, <2>3, <2>4
<1>2. row = ref[1] + Half(h)
  BY DEF LowerRow
<1>3. \A i, j \in Int : <<i, j>> \in DOMAIN map /\ map[<<i, j>>] = ref
                          <=> /\ ref[1] <= i /\ i < ref[1] + h
                              /\ c0 <= j /\ j < c0 + CellAt(t, ref).colSpan
  BY DEF Gridded
<1>4. CellAt(t, ref).colSpan \in Nat \ {0}
  BY DEF Gridded
<1>5. \A c : c \in later <=> /\ c \in c0 + 1 .. RowEnd(map, row)
                             /\ <<row, c>> \in DOMAIN map => map[<<row, c>>][1] = row
  BY DEF LaterCells
<1>6. k = IF later = {} THEN Len(t[row]) + 1 ELSE map[<<row, Min(later)>>][2]
  BY DEF LowerIndex
<1> HIDE DEF h, c0, row, later, k
<1>7. row \in 1 .. Len(t) /\ ref[1] < row /\ row < ref[1] + h
  BY <1>1, <1>2
<1>8. <<row, c0>> \in DOMAIN map /\ map[<<row, c0>>] = ref
  BY <1>1, <1>3, <1>4, <1>7
<1>9. RowEnd(map, row) = W /\ \A c \in 1 .. W : <<row, c>> \in DOMAIN map /\ map[<<row, c>>] \in Places(t)
  BY <1>7 DEF Gridded
<1>10. \A c : c \in later <=> c \in c0 + 1 .. W /\ map[<<row, c>>][1] = row
  BY <1>1, <1>5, <1>9
\* What begins in this row.
<1>11. ASSUME NEW q \in Places(t), q[1] = row
       PROVE  /\ CellColumn(map, q) \in 1 .. W /\ CellColumn(map, q) # c0
              /\ map[<<row, CellColumn(map, q)>>] = q
              /\ CellColumn(map, q) > c0 => CellColumn(map, q) \in later
              /\ q = <<row, q[2]>> /\ q[2] \in 1 .. Len(t[row]) /\ Len(t[row]) \in Nat
              /\ CellColumn(map, q) \in Int /\ q[2] \in Int
  <2>1. /\ CellColumn(map, q) \in 1 .. W
        /\ CellAt(t, q).rowSpan \in Nat \ {0} /\ CellAt(t, q).colSpan \in Nat \ {0}
        /\ \A i, j \in Int : <<i, j>> \in DOMAIN map /\ map[<<i, j>>] = q
                          <=> /\ q[1] <= i /\ i < q[1] + CellAt(t, q).rowSpan
                              /\ CellColumn(map, q) <= j /\ j < CellColumn(map, q) + CellAt(t, q).colSpan
        /\ q = <<q[1], q[2]>> /\ q[2] \in 1 .. Len(t[q[1]]) /\ Len(t[q[1]]) \in Nat
    BY DEF Gridded
  <2>2. map[<<row, CellColumn(map, q)>>] = q
    BY <1>7, <1>11, <2>1
  <2>3. CellColumn(map, q) # c0
    BY <1>7, <1>8, <1>11, <2>2
  <2>4. CellColumn(map, q) > c0 => CellColumn(map, q) \in later
    <3> SUFFICES ASSUME CellColumn(map, q) > c0 PROVE CellColumn(map, q) \in later
      OBVIOUS
    <3>1. CellColumn(map, q) \in c0 + 1 .. W
      BY <1>1, <2>1
    <3> QED BY <1>10, <1>11, <2>2, <3>1
  <2>5. CellColumn(map, q) \in Int /\ q[2] \in Int
    BY <2>1
  <2> QED BY <1>11, <2>1, <2>2, <2>3, <2>4, <2>5
<1>12. ASSUME later = {}
       PROVE  \A q \in Places(t) : q[1] = row => CellColumn(map, q) < c0 /\ q[2] < k
  <2> SUFFICES ASSUME NEW q \in Places(t), q[1] = row PROVE CellColumn(map, q) < c0 /\ q[2] < k
    OBVIOUS
  <2>0. /\ CellColumn(map, q) \in Int /\ CellColumn(map, q) # c0 /\ q[2] \in 1 .. Len(t[row])
        /\ Len(t[row]) \in Nat
    BY <1>11
  <2>1. ~ (CellColumn(map, q) > c0)
    BY <1>11, <1>12
  <2>2. CellColumn(map, q) < c0
    BY <1>1, <2>0, <2>1
  <2>3. k = Len(t[row]) + 1
    BY <1>6, <1>12
  <2>4. q[2] < k
    BY <2>0, <2>3
  <2> QED BY <2>2, <2>4
<1>13. ASSUME later # {}
       PROVE  /\ Min(later) \in 1 .. W
              /\ \A q \in Places(t) : q[1] = row =>
                   /\ q[2] < k => CellColumn(map, q) < c0
                   /\ q[2] >= k => c0 < CellColumn(map, q)
  <2> DEFINE m == Min(later)
             n == map[<<row, m>>]
  <2>1. later \in SUBSET Nat
    <3>1. c0 + 1 .. W \subseteq Nat
      BY <1>1
    <3> QED BY <1>10, <3>1
  <2>2. m \in later /\ \A c \in later : m <= c
    BY <1>13, <2>1, MinOf
  <2>3. m \in c0 + 1 .. W /\ n[1] = row
    BY <1>10, <2>2
  <2>4. m \in 1 .. W /\ m > c0 /\ m \in Int
    BY <1>1, <2>3
  <2>5. n \in Places(t) /\ n[1] = row
    BY <1>9, <2>3, <2>4
  <2>6. k = n[2]
    BY <1>6, <1>13
  <2> HIDE DEF m
  <2>7. <<row, m>> \in DOMAIN map
    BY <1>9, <2>4
  <2> HIDE DEF n
  <2>8. CellColumn(map, n) = m
    <3>1. /\ CellColumn(map, n) \in 1 .. W
          /\ \A i, j \in Int : <<i, j>> \in DOMAIN map /\ map[<<i, j>>] = n
                          <=> /\ n[1] <= i /\ i < n[1] + CellAt(t, n).rowSpan
                              /\ CellColumn(map, n) <= j /\ j < CellColumn(map, n) + CellAt(t, n).colSpan
      BY <2>5 DEF Gridded
    <3>2. CellColumn(map, n) <= m /\ m < CellColumn(map, n) + CellAt(t, n).colSpan
          /\ n[1] <= row /\ row < n[1] + CellAt(t, n).rowSpan
      BY <1>7, <2>4, <2>7, <3>1 DEF n
    <3>3. CellColumn(map, n) > c0
      <4> SUFFICES ASSUME CellColumn(map, n) <= c0 PROVE FALSE
        BY <1>1, <3>1
      <4>1. c0 < CellColumn(map, n) + CellAt(t, n).colSpan
        <5>1. CellAt(t, n).colSpan \in Nat
          BY <2>5 DEF Gridded
        <5> QED BY <1>1, <2>4, <3>1, <3>2, <5>1
      <4>2. map[<<row, c0>>] = n
        BY <1>1, <1>7, <3>1, <3>2, <4>1
      <4>3. n = ref
        BY <1>8, <4>2
      <4> QED BY <1>1, <1>7, <2>5, <4>3
    <3>4. CellColumn(map, n) \in later
      BY <1>11, <2>5, <3>3
    <3>5. m <= CellColumn(map, n)
      BY <2>2, <3>4
    <3> QED BY <2>4, <3>1, <3>2, <3>5
  <2>9. ASSUME NEW q \in Places(t), q[1] = row
        PROVE  /\ q[2] < k => CellColumn(map, q) < c0
               /\ q[2] >= k => c0 < CellColumn(map, q)
    <3>1. q[2] \in Int /\ k \in Int
      BY <1>11, <2>5, <2>6, <2>9
    <3>0. CellColumn(map, q) \in Int /\ CellColumn(map, q) # c0
      BY <1>11, <2>9
    <3>2. \A a, b \in Places(t) : a[1] = b[1] /\ a[2] < b[2] => CellColumn(map, a) < CellColumn(map, b)
      BY DEF Gridded
    <3>3. ASSUME q[2] < k PROVE CellColumn(map, q) < c0
      <4>1. CellColumn(map, q) < m
        BY <2>5, <2>6, <2>8, <2>9, <3>2, <3>3
      <4>2. ~ (CellColumn(map, q) > c0)
        <5> SUFFICES ASSUME CellColumn(map, q) > c0 PROVE FALSE
          OBVIOUS
        <5>1. m <= CellColumn(map, q)
          BY <1>11, <2>2, <2>9
        <5> QED BY <2>4, <3>0, <4>1, <5>1
      <4> QED BY <1>1, <3>0, <4>2
    <3>4. ASSUME q[2] >= k PROVE c0 < CellColumn(map, q)
      <4>1. CASE q[2] = k
        <5>1. q = n
          BY <1>11, <2>5, <2>6, <2>9, <4>1
        <5> QED BY <2>4, <2>8, <5>1
      <4>2. CASE q[2] > k
        <5>1. m < CellColumn(map, q)
          BY <2>5, <2>6, <2>8, <2>9, <3>2, <4>2
        <5> QED BY <1>1, <2>4, <3>0, <5>1
      <4> QED BY <3>1, <3>4, <4>1, <4>2
    <3> QED BY <3>3, <3>4
  <2> QED BY <2>4, <2>9 DEF m
<1>14. ~ (row > Len(t))
  BY <1>1, <1>7
<1>15. ~ (later # {} /\ <<row, Min(later)>> \notin DOMAIN map)
  BY <1>9, <1>13
<1>16. ~ SplitRowsThrows(t, map, ref)
  BY <1>14, <1>15 DEF SplitRowsThrows, row, later
<1>17. ASSUME NEW q \in Places(t), q[1] = row
       PROVE  /\ q[2] < k => CellColumn(map, q) < c0
              /\ q[2] >= k => c0 < CellColumn(map, q)
  <2>1. CASE later = {}
    <3>1. q[2] \in Int /\ Len(t[row]) \in Nat
      BY <1>11, <1>17
    <3>2. k \in Int
      BY <1>6, <2>1, <3>1
    <3>3. CellColumn(map, q) < c0 /\ q[2] < k
      BY <1>12, <1>17, <2>1
    <3> QED BY <3>1, <3>2, <3>3
  <2>2. CASE later # {}
    BY <1>13, <1>17, <2>2
  <2> QED BY <2>1, <2>2
<1> QED BY <1>7, <1>8, <1>16, <1>17 DEF row, h, c0, k

\* When a cell of one column and several rows is split, the new cell has the lower half.
LEMMA RowsSplitGrid ==
    ASSUME NEW t \in Tables, NEW map, Laid(map, t), NEW W, Gridded(t, map, W), NEW ref \in Places(t),
           CellAt(t, ref).rowSpan > 1, CellAt(t, ref).colSpan = 1
    PROVE  FullGrid(SplitRows(t, map, ref))
<1> DEFINE h == CellAt(t, ref).rowSpan
           c0 == CellColumn(map, ref)
           row == LowerRow(t, ref)
           k == LowerIndex(t, map, ref)
           e == LowerCell(t, ref)
           H == Shortened(t, ref)
           T == SplitRows(t, map, ref)
           G == (1 .. Len(t)) \X (1 .. W)
           B == {x \in G : map[x] = ref /\ x[1] >= row}
           col == [q \in Places(t) |-> CellColumn(map, q)]
           after == MoveRight(t, row, k)
           before == MoveLeft(T, row, k)
           new == <<row, k>>
<1>1. /\ row \in 1 .. Len(t) /\ ref[1] < row /\ row < ref[1] + h
      /\ map[<<row, c0>>] = ref
      /\ ~ SplitRowsThrows(t, map, ref)
      /\ \A q \in Places(t) : q[1] = row =>
            /\ q[2] < k => CellColumn(map, q) < c0
            /\ q[2] >= k => c0 < CellColumn(map, q)
  BY LowerCellStands
<1>2. /\ k \in 1 .. Len(t[row]) + 1
      /\ T = InsertedCell(H, row, k, e)
  BY <1>1, SplitRowsIs DEF InsertedCell
<1>3. /\ h \in Nat /\ h > 1 /\ Half(h) \in Nat \ {0} /\ h - Half(h) \in Nat \ {0}
      /\ ref[1] \in 1 .. Len(t) /\ ref[1] + h <= Len(t) + 1 /\ Len(t) \in Nat /\ W \in Nat
      /\ c0 \in 1 .. W /\ c0 \in Nat \ {0} /\ ref[1] \in Int /\ row \in Int
  <2>1. h \in Nat /\ h > 1
    BY DEF Gridded
  <2> HIDE DEF h
  <2>2. Half(h) \in Nat \ {0} /\ h - Half(h) \in Nat \ {0}
    BY <2>1, HalfIs
  <2>3. /\ ref[1] \in 1 .. Len(t) /\ ref[1] + h <= Len(t) + 1 /\ Len(t) \in Nat /\ W \in Nat
        /\ c0 \in 1 .. W
    BY DEF Gridded, h
  <2> HIDE DEF c0, row
  <2>4. c0 \in Nat \ {0} /\ ref[1] \in Int /\ row \in Int
    BY <1>1, <2>3
  <2> QED BY <2>1, <2>2, <2>3, <2>4
<1>4. row = ref[1] + Half(h)
  BY DEF LowerRow
<1>5. e \in Cell /\ e.text = {} /\ e.rowSpan = h - Half(h) /\ e.colSpan = 1
  BY <1>3 DEF LowerCell, Cell, TableCell, Place
<1>6. /\ H \in Tables /\ Places(H) = Places(t) /\ Len(H) = Len(t)
      /\ \A i \in 1 .. Len(t) : Len(H[i]) = Len(t[i])
      /\ \A p \in Places(t) : /\ CellAt(H, p).rowSpan = IF p = ref THEN Half(h) ELSE CellAt(t, p).rowSpan
                              /\ CellAt(H, p).colSpan = CellAt(t, p).colSpan
  <2> DEFINE hs == [p \in Places(t) |-> IF p = ref THEN Half(h) ELSE CellAt(t, p).rowSpan]
  <2>1. \A p \in Places(t) : hs[p] \in Nat \ {0}
    BY <1>3, CellIs
  <2>2. H = Heights(t, hs)
    BY DEF Shortened
  <2> HIDE DEF hs, H
  <2>3. /\ Keeps(H, t) /\ Places(H) = Places(t) /\ Len(H) = Len(t)
        /\ \A i \in 1 .. Len(t) : Len(H[i]) = Len(t[i])
        /\ \A p \in Places(t) : /\ CellAt(H, p).rowSpan = hs[p]
                                /\ CellAt(H, p).colSpan = CellAt(t, p).colSpan
    BY <2>1, <2>2, HeightsAre
  <2> QED BY <2>3 DEF hs, Keeps, Inherits
<1>7. MoveRight(H, row, k) = after
  BY <1>6 DEF MoveRight
<1> HIDE DEF H, T, e, k, row, h, c0
<1>8. /\ Grows(T, H, new, before, after)
      /\ Len(T) = Len(t)
      /\ CellAt(T, new) = e
      /\ \A q \in Places(t) : CellAt(T, after[q]) = CellAt(H, q)
  <2>1. /\ H \in Tables /\ row \in 1 .. Len(H) /\ k \in 1 .. Len(H[row]) + 1
        /\ e \in Cell /\ e.text = {} /\ T = InsertedCell(H, row, k, e)
    BY <1>1, <1>2, <1>5, <1>6
  <2>2. /\ Grows(T, H, <<row, k>>, MoveLeft(T, row, k), MoveRight(H, row, k))
        /\ Len(T) = Len(H)
        /\ CellAt(T, <<row, k>>) = e
        /\ \A q \in Places(H) : CellAt(T, MoveRight(H, row, k)[q]) = CellAt(H, q)
    BY ONLY <2>1, CellInserted
  <2> QED BY <1>6, <1>7, <2>2
<1>9. Grows(T, t, new, before, after)
  BY <1>6, <1>8 DEF Grows
\* Where the cells stand.
<1>10. ASSUME NEW q \in Places(t)
       PROVE  /\ q[1] \in Int /\ q[2] \in Int /\ CellColumn(map, q) \in Nat \ {0}
              /\ CellAt(t, q).rowSpan \in Nat \ {0} /\ CellAt(t, q).colSpan \in Nat \ {0}
              /\ after[q] = RightOf(q, row, k) /\ after[q][1] = q[1]
              /\ after[q][2] = IF q[1] = row /\ q[2] >= k THEN q[2] + 1 ELSE q[2]
              /\ \A i, j \in Int :
                    <<i, j>> \in G /\ map[<<i, j>>] = q <=>
                        /\ q[1] <= i /\ i < q[1] + CellAt(t, q).rowSpan
                        /\ CellColumn(map, q) <= j /\ j < CellColumn(map, q) + CellAt(t, q).colSpan
  <2>1. /\ q[1] \in 1 .. Len(t) /\ q[2] \in 1 .. Len(t[q[1]]) /\ CellColumn(map, q) \in 1 .. W
        /\ CellAt(t, q).rowSpan \in Nat \ {0} /\ CellAt(t, q).colSpan \in Nat \ {0}
        /\ \A i, j \in Int :
              <<i, j>> \in G /\ map[<<i, j>>] = q <=>
                 /\ q[1] <= i /\ i < q[1] + CellAt(t, q).rowSpan
                 /\ CellColumn(map, q) <= j /\ j < CellColumn(map, q) + CellAt(t, q).colSpan
    BY DEF Gridded
  <2>2. q[1] \in Int /\ q[2] \in Int /\ CellColumn(map, q) \in Nat \ {0}
    BY <2>1
  <2>3. after[q] = RightOf(q, row, k)
    BY DEF MoveRight
  <2>4. after[q][1] = q[1] /\ after[q][2] = IF q[1] = row /\ q[2] >= k THEN q[2] + 1 ELSE q[2]
    BY <2>3 DEF RightOf
  <2> QED BY <2>1, <2>2, <2>3, <2>4
<1>11. \A i, j \in Int : <<i, j>> \in G /\ map[<<i, j>>] = ref
                            <=> ref[1] <= i /\ i < ref[1] + h /\ c0 <= j /\ j < c0 + 1
  <2> HIDE DEF G
  <2>1. \A i, j \in Int : <<i, j>> \in G /\ map[<<i, j>>] = ref <=>
                            /\ ref[1] <= i /\ i < ref[1] + CellAt(t, ref).rowSpan
                            /\ CellColumn(map, ref) <= j /\ j < CellColumn(map, ref) + CellAt(t, ref).colSpan
    BY <1>10
  <2>2. CellAt(t, ref).rowSpan = h /\ CellColumn(map, ref) = c0 /\ CellAt(t, ref).colSpan = 1
    BY DEF h, c0
  <2> QED BY <2>1, <2>2
<1>12. \A x \in G : x = <<x[1], x[2]>> /\ x[1] \in Nat /\ x[2] \in Nat /\ map[x] \in Places(t)
  <2>1. G = DOMAIN map /\ \A x \in DOMAIN map : map[x] \in Places(t)
    BY DEF Gridded
  <2>2. \A x \in G : x = <<x[1], x[2]>> /\ x[1] \in Nat /\ x[2] \in Nat
    BY <1>3
  <2> QED BY <2>1, <2>2
<1>13. k \in Int
  <2>1. Len(t[row]) \in Nat
    BY <1>1, TableIs, LenProperties
  <2> QED BY <1>2, <2>1
<1> HIDE DEF after, before, G
<1>14. ASSUME NEW x
       PROVE  Within(x, row, c0, h - Half(h), 1) <=> x \in G /\ x \in B
  <2>1. ASSUME Within(x, row, c0, h - Half(h), 1) PROVE x \in G /\ x \in B
    <3>1. /\ x = <<x[1], x[2]>> /\ x[1] \in Int /\ x[2] \in Int
          /\ row <= x[1] /\ x[1] < row + (h - Half(h)) /\ c0 <= x[2] /\ x[2] < c0 + 1
      BY <2>1 DEF Within
    <3>2. ref[1] <= x[1] /\ x[1] < ref[1] + h
      <4> DEFINE n == Half(h)
      <4>1. ref[1] < row /\ h \in Int /\ n \in Int /\ row = ref[1] + n
        BY <1>1, <1>3, <1>4
      <4>2. x[1] < row + (h - n)
        BY <3>1
      <4>3. ref[1] \in Int /\ x[1] \in Int /\ row <= x[1]
        BY <1>3, <3>1
      <4> HIDE DEF n
      <4> QED BY <4>1, <4>2, <4>3
    <3>3. x \in G /\ map[x] = ref
      BY <1>11, <3>1, <3>2
    <3> QED BY <1>3, <3>1, <3>3
  <2>2. ASSUME x \in G, x \in B PROVE Within(x, row, c0, h - Half(h), 1)
    <3>1. x = <<x[1], x[2]>> /\ x[1] \in Nat /\ x[2] \in Nat
      BY <1>12, <2>2
    <3>2. map[x] = ref /\ x[1] >= row
      BY <2>2
    <3>3. x[1] < ref[1] + h /\ c0 <= x[2] /\ x[2] < c0 + 1
      BY <1>11, <2>2, <3>1, <3>2
    <3>4. row <= x[1] /\ x[1] < row + (h - Half(h))
      BY <1>3, <1>4, <3>1, <3>2, <3>3
    <3> QED BY <3>1, <3>3, <3>4 DEF Within
  <2> QED BY <2>1, <2>2
<1>15. ASSUME NEW q \in Places(t), NEW x
       PROVE  Within(x, q[1], CellColumn(map, q), CellAt(H, q).rowSpan, CellAt(H, q).colSpan)
                <=> x \in G /\ x \notin B /\ map[x] = q
  <2>1. CASE q # ref
    <3>1. CellAt(H, q).rowSpan = CellAt(t, q).rowSpan /\ CellAt(H, q).colSpan = CellAt(t, q).colSpan
      BY <1>6, <2>1
    <3>2. Within(x, q[1], CellColumn(map, q), CellAt(t, q).rowSpan, CellAt(t, q).colSpan)
            <=> x \in G /\ map[x] = q
      BY <1>10, <1>12 DEF Within
    <3>3. map[x] = q => x \notin B
      BY <2>1
    <3> HIDE DEF B
    <3> QED BY <3>1, <3>2, <3>3
  <2>2. CASE q = ref
    <3>1. CellAt(H, q).rowSpan = Half(h) /\ CellAt(H, q).colSpan = 1
      BY <1>6, <2>2
    <3>2. x \in G /\ map[x] = ref => (x \notin B <=> x[1] < row)
      BY <1>3, <1>12
    <3> HIDE DEF B
    <3>3. ASSUME Within(x, ref[1], c0, Half(h), 1) PROVE x \in G /\ x \notin B /\ map[x] = ref
      <4>1. /\ x = <<x[1], x[2]>> /\ x[1] \in Int /\ x[2] \in Int
            /\ ref[1] <= x[1] /\ x[1] < ref[1] + Half(h) /\ c0 <= x[2] /\ x[2] < c0 + 1
        BY <3>3 DEF Within
      <4>2. x[1] < ref[1] + h /\ x[1] < row
        BY <1>1, <1>3, <1>4, <4>1
      <4> QED BY <1>11, <3>2, <4>1, <4>2
    <3>4. ASSUME x \in G, x \notin B, map[x] = ref PROVE Within(x, ref[1], c0, Half(h), 1)
      <4>1. x = <<x[1], x[2]>> /\ x[1] \in Nat /\ x[2] \in Nat /\ x[1] < row
        BY <1>12, <3>2, <3>4
      <4>2. ref[1] <= x[1] /\ c0 <= x[2] /\ x[2] < c0 + 1
        BY <1>11, <3>4, <4>1
      <4> QED BY <1>4, <4>1, <4>2 DEF Within
    <3>5. CellColumn(map, q) = c0
      BY <2>2 DEF c0
    <3> QED BY <2>2, <3>1, <3>3, <3>4, <3>5
  <2> QED BY <2>1, <2>2
<1>16. ASSUME NEW p \in Places(t), NEW q \in Places(t), after[p][1] = after[q][1], after[p][2] < after[q][2]
       PROVE  col[p] < col[q]
  <2>1. p[1] = q[1] /\ p[2] < q[2]
    BY <1>10, <1>13, <1>16
  <2> QED BY <2>1 DEF Gridded
<1>17. ASSUME NEW q \in Places(t), after[q][1] = row
       PROVE  /\ after[q][2] < k => col[q] < c0
              /\ after[q][2] > k => c0 < col[q]
  <2>1. q[1] = row /\ q[2] \in Int
    BY <1>10, <1>17
  <2>2. /\ after[q][2] < k => q[2] < k
        /\ after[q][2] > k => q[2] >= k
    BY <1>10, <1>13, <2>1
  <2> QED BY <1>1, <2>1, <2>2
<1>18. Shared(T, W, t, col, new, c0, after, B, map)
  <2>1. G = (1 .. Len(T)) \X (1 .. W)
    BY <1>8 DEF G
  <2>2. \A q \in Places(t) : col[q] \in Nat \ {0} /\ col[q] = CellColumn(map, q)
    BY <1>10
  <2>3. new[1] = row /\ new[2] = k
    OBVIOUS
  <2>4. CellAt(T, new).rowSpan = h - Half(h) /\ CellAt(T, new).colSpan = 1
    BY <1>5, <1>8
  <2>5. \A q \in Places(t) : CellAt(T, after[q]) = CellAt(H, q) /\ after[q][1] = q[1]
    BY <1>8, <1>10
  <2> HIDE DEF col, new, B
  <2>6. \A x \in (1 .. Len(T)) \X (1 .. W) : x \notin B => map[x] \in Places(t)
    BY <1>12, <2>1
  <2>7. \A x : Within(x, new[1], c0, CellAt(T, new).rowSpan, CellAt(T, new).colSpan)
             <=> x \in (1 .. Len(T)) \X (1 .. W) /\ x \in B
    BY <1>14, <2>1, <2>3, <2>4
  <2>8. \A q \in Places(t) : \A x :
          Within(x, after[q][1], col[q], CellAt(T, after[q]).rowSpan, CellAt(T, after[q]).colSpan)
          <=> x \in (1 .. Len(T)) \X (1 .. W) /\ x \notin B /\ map[x] = q
    BY <1>15, <2>1, <2>2, <2>5
  <2>9. \A q \in Places(t) : after[q][1] = new[1] =>
          /\ after[q][2] < new[2] => col[q] < c0
          /\ after[q][2] > new[2] => c0 < col[q]
    BY <1>17, <2>3
  <2> QED BY <1>3, <1>16, <2>2, <2>6, <2>7, <2>8, <2>9 DEF Shared
<1> HIDE DEF col, new, B
<1>19. FullGrid(T)
  BY <1>9, <1>18, GrownGrid
<1> QED BY <1>19 DEF T

\* The loop over a row comes to the first columns of the cells that cross it, and ends behind
\* the last one.
LEMMA GridVisited ==
    ASSUME NEW t \in Tables, NEW map, Laid(map, t), Tiled(t, map), NEW W, Gridded(t, map, W),
           NEW r \in 1 .. Len(t), W > 0
    PROVE  /\ \A d \in 1 .. W : d \in VisitedColumns(t, map, r) <=> d = CellColumn(map, map[<<r, d>>])
           /\ VisitedColumns(t, map, r) \in SUBSET (1 .. W + 1)
           /\ Max(VisitedColumns(t, map, r)) = W + 1
<1> DEFINE V == VisitedColumns(t, map, r)
           b == CellBricks(map, t)
           P == Places(t)
           width == WidthsIn(map, r)
           width2 == [c \in 1 .. RowEnd(map, r) |->
                        IF <<r, c>> \in DOMAIN map THEN CellAt(t, map[<<r, c>>]).colSpan ELSE 0]
<1>1. IsMap(map, P) /\ Bricks(map, b) /\ ~HasHole(map)
  BY WholeIs DEF Laid, Tiled
<1>2. /\ RowEnd(map, r) = W /\ W \in Nat
      /\ \A d \in 1 .. W : <<r, d>> \in DOMAIN map /\ map[<<r, d>>] \in P
  BY DEF Gridded
<1>3. \A q \in P : b[q].w = CellAt(t, q).colSpan /\ b[q].c = CellColumn(map, q)
  BY DEF CellBricks
<1>4. ASSUME NEW d \in 1 .. W PROVE width[d] = width2[d] /\ width[d] = CellAt(t, map[<<r, d>>]).colSpan
  <2> DEFINE x == <<r, d>>
  <2>1. x \in DOMAIN map /\ map[x] \in P
    BY <1>2
  <2> HIDE DEF x, b, P
  <2>2. ColSpan(map, map[x]) = b[map[x]].w
    BY <1>1, <2>1, BrickSpans
  <2>3. ColSpan(map, map[x]) = CellAt(t, map[x]).colSpan
    BY <1>3, <2>1, <2>2
  <2>4. width[d] = ColSpan(map, map[x])
    BY <1>2 DEF WidthsIn, x
  <2>5. width2[d] = CellAt(t, map[x]).colSpan
    BY <1>2, <2>1 DEF x
  <2> QED BY <2>3, <2>4, <2>5 DEF x
<1>5. width = width2
  <2>1. width = [c \in 1 .. W |-> width[c]]
    BY <1>2 DEF WidthsIn
  <2>2. width2 = [c \in 1 .. W |-> width2[c]]
    BY <1>2
  <2> HIDE DEF width, width2
  <2> QED BY <1>4, <2>1, <2>2
<1>6. V = VisitedIn(map, r)
  BY <1>5 DEF VisitedColumns, VisitedIn
<1>7. \A d \in 1 .. W : d \in V <=> d = CellColumn(map, map[<<r, d>>])
  <2> HIDE DEF b, P
  <2>1. \A d \in 1 .. RowEnd(map, r) : d \in VisitedIn(map, r) <=> d = b[map[<<r, d>>]].c
    BY <1>1, BrickVisited
  <2> HIDE DEF V
  <2> QED BY <1>2, <1>3, <1>6, <2>1
<1>8. LoopColumns(V, W, width)
  BY <1>1, <1>2, <1>6, AppendedAre
<1> HIDE DEF V, b, P, width2, width
\* The cell at a position of the row.
<1>9. ASSUME NEW d \in 1 .. W
      PROVE  LET q == map[<<r, d>>]
             IN  /\ width[d] = CellAt(t, q).colSpan /\ width[d] \in Nat \ {0}
                 /\ CellColumn(map, q) \in 1 .. W
                 /\ CellColumn(map, q) + width[d] <= W + 1
                 /\ CellColumn(map, q) <= d /\ d < CellColumn(map, q) + width[d]
                 /\ map[<<r, CellColumn(map, q)>>] = q
                 /\ width[CellColumn(map, q)] = width[d]
  <2> DEFINE q == map[<<r, d>>]
             c == CellColumn(map, q)
             w == CellAt(t, q).colSpan
  <2>1. q \in P /\ <<r, d>> \in DOMAIN map /\ width[d] = w
    BY <1>2, <1>4
  <2> HIDE DEF q
  <2>2. /\ c \in 1 .. W /\ c + w <= W + 1 /\ w \in Nat \ {0}
        /\ \A i, j \in Int : <<i, j>> \in DOMAIN map /\ map[<<i, j>>] = q
              <=> q[1] <= i /\ i < q[1] + CellAt(t, q).rowSpan /\ c <= j /\ j < c + w
    BY <2>1 DEF Gridded, P
  <2> HIDE DEF c, w
  <2>3. /\ c <= d /\ d < c + w
        /\ q[1] <= r /\ r < q[1] + CellAt(t, q).rowSpan
    BY <2>1, <2>2 DEF q
  <2>4. map[<<r, c>>] = q
    BY <2>2, <2>3
  <2>5. width[c] = w
    BY <1>4, <2>2, <2>4 DEF w
  <2> QED BY <2>1, <2>2, <2>3, <2>4, <2>5 DEF q, c, w
<1>10. ASSUME NEW d \in V PROVE d \in 1 .. W + 1
  <2>1. CASE d = 1
    BY <1>2, <2>1
  <2>2. CASE d # 1
    <3>1. PICK a \in V : a <= W /\ d = a + width[a]
      BY <1>8, <2>2 DEF LoopColumns
    <3>2. a \in 1 .. W
      BY <1>2, <1>8, <3>1 DEF LoopColumns
    <3>3. a = CellColumn(map, map[<<r, a>>])
      BY <1>7, <3>1, <3>2
    <3>4. a + width[a] <= W + 1 /\ width[a] \in Nat \ {0}
      BY <1>9, <3>2, <3>3
    <3> QED BY <1>2, <3>1, <3>2, <3>4
  <2> QED BY <2>1, <2>2
<1>11. W + 1 \in V
  <2> DEFINE q == map[<<r, W>>]
             c == CellColumn(map, q)
  <2>1. W \in 1 .. W
    BY <1>2
  <2>2. /\ width[W] \in Nat \ {0} /\ c \in 1 .. W /\ c + width[W] <= W + 1 /\ W < c + width[W]
        /\ map[<<r, c>>] = q /\ width[c] = width[W]
    BY <1>9, <2>1
  <2>3. c \in V
    BY <1>7, <2>2
  <2> HIDE DEF c
  <2>4. c + width[c] \in V
    BY <1>8, <2>2, <2>3 DEF LoopColumns
  <2>5. c + width[c] = W + 1
    BY <1>2, <2>2
  <2> QED BY <2>4, <2>5
<1>12. V \in SUBSET (1 .. W + 1)
  BY <1>10
<1>13. Max(V) = W + 1
  <2>1. V \in SUBSET Nat /\ V # {}
    <3>1. 1 .. W + 1 \subseteq Nat
      BY <1>2
    <3> QED BY <1>11, <1>12, <3>1
  <2>2. IsFiniteSet(V)
    <3>1. 1 \in Int /\ W + 1 \in Int
      BY <1>2
    <3>2. IsFiniteSet(1 .. W + 1)
      BY <3>1, FS_Interval
    <3> QED BY <1>12, <3>2, FS_Subset
  <2>3. Max(V) \in V /\ \A x \in V : x <= Max(V)
    BY <2>1, <2>2, MaxOf
  <2>4. Max(V) \in 1 .. W + 1 /\ W + 1 <= Max(V)
    BY <1>11, <1>12, <2>3
  <2> QED BY <1>2, <2>4
<1> QED BY <1>7, <1>12, <1>13 DEF V

\* What crosses the row of a cell of one row and one column.
LEMMA CrossingIs ==
    ASSUME NEW t \in Tables, NEW map, Laid(map, t), Tiled(t, map), NEW W, Gridded(t, map, W),
           NEW ref \in Places(t), CellAt(t, ref).rowSpan = 1, CellAt(t, ref).colSpan = 1
    PROVE  /\ ~ SplitRowThrows(t, map, ref)
           /\ \A q \in Places(t) : q \in CrossingRow(t, map, ref)
                <=> q # ref /\ q[1] <= ref[1] /\ ref[1] < q[1] + CellAt(t, q).rowSpan
<1> DEFINE r == ref[1]
           c0 == CellColumn(map, ref)
           V == VisitedColumns(t, map, r)
           X == CrossingRow(t, map, ref)
<1>1. /\ r \in 1 .. Len(t) /\ c0 \in 1 .. W /\ W \in Nat /\ W > 0 /\ RowEnd(map, r) = W
      /\ r \in Int /\ c0 \in Int
  <2>1. r \in 1 .. Len(t) /\ c0 \in 1 .. W /\ W \in Nat /\ Len(t) \in Nat
    BY DEF Gridded
  <2>2. RowEnd(map, r) = W
    BY <2>1 DEF Gridded
  <2> HIDE DEF r, c0
  <2> QED BY <2>1, <2>2
<1>2. /\ \A d \in 1 .. W : d \in V <=> d = CellColumn(map, map[<<r, d>>])
      /\ V \in SUBSET (1 .. W + 1)
      /\ Max(V) = W + 1
  <2> HIDE DEF r
  <2> QED BY <1>1, GridVisited
<1>3. ~ SplitRowThrows(t, map, ref)
  <2>1. ~ (W + 1 <= W)
    BY <1>1
  <2> QED BY <1>1, <1>2, <2>1 DEF SplitRowThrows
<1>4. \A d \in 1 .. W : <<r, d>> \in DOMAIN map /\ map[<<r, d>>] \in Places(t)
  BY <1>1 DEF Gridded
<1>5. ASSUME NEW q \in Places(t)
      PROVE  /\ CellColumn(map, q) \in 1 .. W
             /\ \A d \in 1 .. W : map[<<r, d>>] = q
                   => q[1] <= r /\ r < q[1] + CellAt(t, q).rowSpan
             /\ q[1] <= r /\ r < q[1] + CellAt(t, q).rowSpan => map[<<r, CellColumn(map, q)>>] = q
  <2> DEFINE c == CellColumn(map, q)
             w == CellAt(t, q).colSpan
             h == CellAt(t, q).rowSpan
  <2>1. /\ c \in 1 .. W /\ w \in Nat \ {0}
        /\ \A i, j \in Int : <<i, j>> \in DOMAIN map /\ map[<<i, j>>] = q
              <=> q[1] <= i /\ i < q[1] + h /\ c <= j /\ j < c + w
    BY DEF Gridded
  <2> HIDE DEF c, w, h, r
  <2>2. \A d \in 1 .. W : map[<<r, d>>] = q => q[1] <= r /\ r < q[1] + h
    BY <1>1, <1>4, <2>1
  <2>3. c \in Int /\ c <= c /\ c < c + w
    BY <2>1
  <2>4. q[1] <= r /\ r < q[1] + h => map[<<r, c>>] = q
    BY <1>1, <2>1, <2>3
  <2> QED BY <2>1, <2>2, <2>4 DEF c, h
<1>6. map[<<r, c0>>] = ref
  <2>1. r <= r /\ r < r + CellAt(t, ref).rowSpan
    BY <1>1
  <2> QED BY <1>5, <2>1
<1>7. \A q : q \in X <=> \E d \in V : d # c0 /\ <<r, d>> \in DOMAIN map /\ q = map[<<r, d>>]
  BY DEF CrossingRow
<1>8. \A d : <<r, d>> \in DOMAIN map => d \in 1 .. W
  BY DEF Gridded
<1> HIDE DEF r, c0, V, X
<1>9. ASSUME NEW q \in Places(t)
      PROVE  q \in X <=> q # ref /\ q[1] <= r /\ r < q[1] + CellAt(t, q).rowSpan
  <2>1. ASSUME q \in X PROVE q # ref /\ q[1] <= r /\ r < q[1] + CellAt(t, q).rowSpan
    <3>1. PICK d \in V : d # c0 /\ <<r, d>> \in DOMAIN map /\ q = map[<<r, d>>]
      BY <1>7, <2>1
    <3>2. d \in 1 .. W
      BY <1>8, <3>1
    <3>3. d = CellColumn(map, q)
      BY <1>2, <3>1, <3>2
    <3>4. q # ref
      BY <3>1, <3>3 DEF c0
    <3> QED BY <1>5, <3>1, <3>2, <3>4
  <2>2. ASSUME q # ref, q[1] <= r, r < q[1] + CellAt(t, q).rowSpan PROVE q \in X
    <3> DEFINE d == CellColumn(map, q)
    <3>1. d \in 1 .. W /\ map[<<r, d>>] = q
      BY <1>5, <2>2
    <3>2. d \in V /\ <<r, d>> \in DOMAIN map
      BY <1>2, <1>4, <3>1
    <3>3. d # c0
      BY <1>6, <2>2, <3>1
    <3> HIDE DEF d
    <3> QED BY <1>7, <3>1, <3>2, <3>3
  <2> QED BY <2>1, <2>2
<1> QED BY <1>3, <1>9 DEF r, X

\* When a cell of one row and one column is split, its lower half is a row of its own, through
\* which all that crosses the row of the cell goes on.
DoubledRow(t, map, r, W) ==
    [x \in (1 .. Len(t) + 1) \X (1 .. W) |-> IF x[1] <= r THEN map[x] ELSE map[<<x[1] - 1, x[2]>>]]

\* A grid in which a cell of one row and one column is split vertically is a grid again.
LEMMA RowSplitGrid ==
    ASSUME NEW t \in Tables, NEW map, Laid(map, t), Tiled(t, map), NEW W, Gridded(t, map, W),
           NEW ref \in Places(t), CellAt(t, ref).rowSpan = 1, CellAt(t, ref).colSpan = 1
    PROVE  FullGrid(SplitRow(t, map, ref))
<1> DEFINE r == ref[1]
           i == r + 1
           c0 == CellColumn(map, ref)
           X == CrossingRow(t, map, ref)
           e == EmptyCell
           H == Higher(t, map, ref)
           T == SplitRow(t, map, ref)
           G == (1 .. Len(t) + 1) \X (1 .. W)
           B == {<<i, c0>>}
           col == [q \in Places(t) |-> CellColumn(map, q)]
           owner == DoubledRow(t, map, r, W)
           after == MoveDown(t, i)
           before == MoveUp(T, i)
           new == <<i, 1>>
<1>1. /\ T = InsertAt(H, i, <<e>>)
      /\ \A q \in Places(t) : q \in X <=> q # ref /\ q[1] <= r /\ r < q[1] + CellAt(t, q).rowSpan
  BY CrossingIs, SplitRowIs
<1>2. /\ Len(t) \in Nat /\ W \in Nat /\ r \in 1 .. Len(t) /\ r \in Nat /\ i \in 1 .. Len(t) + 1
      /\ c0 \in 1 .. W /\ c0 \in Nat \ {0}
  <2>1. Len(t) \in Nat /\ W \in Nat /\ r \in 1 .. Len(t) /\ c0 \in 1 .. W
    BY DEF Gridded
  <2> HIDE DEF r, c0
  <2> QED BY <2>1
<1>3. e \in Cell /\ e.text = {} /\ e.rowSpan = 1 /\ e.colSpan = 1
  BY DEF EmptyCell, Cell, TableCell, Place
<1>4. /\ H \in Tables /\ Places(H) = Places(t) /\ Len(H) = Len(t)
      /\ \A q \in Places(t) : /\ CellAt(H, q).rowSpan = IF q \in X THEN CellAt(t, q).rowSpan + 1
                                                        ELSE CellAt(t, q).rowSpan
                              /\ CellAt(H, q).colSpan = CellAt(t, q).colSpan
  <2> DEFINE hs == [q \in Places(t) |-> IF q \in X THEN CellAt(t, q).rowSpan + 1 ELSE CellAt(t, q).rowSpan]
  <2>1. \A q \in Places(t) : hs[q] \in Nat \ {0}
    <3> HIDE DEF X
    <3> QED BY CellIs
  <2>2. H = Heights(t, hs)
    BY DEF Higher
  <2> HIDE DEF hs, H
  <2>3. /\ Keeps(H, t) /\ Places(H) = Places(t) /\ Len(H) = Len(t)
        /\ \A q \in Places(t) : /\ CellAt(H, q).rowSpan = hs[q]
                                /\ CellAt(H, q).colSpan = CellAt(t, q).colSpan
    BY <2>1, <2>2, HeightsAre
  <2> QED BY <2>3 DEF hs, Keeps, Inherits
<1>5. MoveDown(H, i) = after
  BY <1>4 DEF MoveDown
<1> HIDE DEF H, T, e, X
<1>6. /\ Grows(T, H, new, before, after)
      /\ Len(T) = Len(t) + 1
      /\ CellAt(T, new) = e
      /\ \A q \in Places(t) : CellAt(T, after[q]) = CellAt(H, q)
  <2>1. /\ H \in Tables /\ i \in 1 .. Len(H) + 1
        /\ e \in Cell /\ e.text = {} /\ T = InsertAt(H, i, <<e>>)
    BY <1>1, <1>2, <1>3, <1>4
  <2> HIDE DEF i
  <2>2. /\ Grows(T, H, <<i, 1>>, MoveUp(T, i), MoveDown(H, i))
        /\ Len(T) = Len(H) + 1
        /\ CellAt(T, <<i, 1>>) = e
        /\ \A q \in Places(H) : CellAt(T, MoveDown(H, i)[q]) = CellAt(H, q)
    BY ONLY <2>1, CellBelow
  <2> QED BY <1>4, <1>5, <2>2
<1>7. Grows(T, t, new, before, after)
  BY <1>4, <1>6 DEF Grows
<1>8. ASSUME NEW q \in Places(t)
      PROVE  /\ q[1] \in Int /\ q[2] \in Int /\ CellColumn(map, q) \in Nat \ {0}
             /\ CellAt(t, q).rowSpan \in Nat \ {0} /\ CellAt(t, q).colSpan \in Nat \ {0}
             /\ after[q] = BelowOf(q, i)
             /\ after[q][1] = IF q[1] >= i THEN q[1] + 1 ELSE q[1]
             /\ after[q][2] = q[2]
             /\ \A k, j \in Int :
                   <<k, j>> \in DOMAIN map /\ map[<<k, j>>] = q <=>
                       /\ q[1] <= k /\ k < q[1] + CellAt(t, q).rowSpan
                       /\ CellColumn(map, q) <= j /\ j < CellColumn(map, q) + CellAt(t, q).colSpan
  <2>1. /\ q[1] \in 1 .. Len(t) /\ q[2] \in 1 .. Len(t[q[1]]) /\ CellColumn(map, q) \in 1 .. W
        /\ CellAt(t, q).rowSpan \in Nat \ {0} /\ CellAt(t, q).colSpan \in Nat \ {0}
        /\ \A k, j \in Int :
                   <<k, j>> \in DOMAIN map /\ map[<<k, j>>] = q <=>
                       /\ q[1] <= k /\ k < q[1] + CellAt(t, q).rowSpan
                       /\ CellColumn(map, q) <= j /\ j < CellColumn(map, q) + CellAt(t, q).colSpan
    BY DEF Gridded
  <2>2. q[1] \in Int /\ q[2] \in Int /\ CellColumn(map, q) \in Nat \ {0}
    BY <2>1
  <2> HIDE DEF i
  <2>3. after[q] = BelowOf(q, i)
    BY DEF MoveDown
  <2>4. after[q][1] = (IF q[1] >= i THEN q[1] + 1 ELSE q[1]) /\ after[q][2] = q[2]
    BY <2>3 DEF BelowOf
  <2> QED BY <2>1, <2>2, <2>3, <2>4
<1>9. DOMAIN map = (1 .. Len(t)) \X (1 .. W) /\ \A x \in DOMAIN map : map[x] \in Places(t)
  BY DEF Gridded
<1>10. ASSUME NEW x \in G
       PROVE  /\ x = <<x[1], x[2]>> /\ x[1] \in 1 .. Len(t) + 1 /\ x[2] \in 1 .. W
              /\ x[1] \in Nat /\ x[2] \in Nat
              /\ x[1] <= r => x \in DOMAIN map /\ owner[x] = map[x]
              /\ x[1] > r => <<x[1] - 1, x[2]>> \in DOMAIN map /\ owner[x] = map[<<x[1] - 1, x[2]>>]
              /\ owner[x] \in Places(t)
  <2>1. x = <<x[1], x[2]>> /\ x[1] \in 1 .. Len(t) + 1 /\ x[2] \in 1 .. W
    OBVIOUS
  <2>2. owner[x] = IF x[1] <= r THEN map[x] ELSE map[<<x[1] - 1, x[2]>>]
    BY DEF DoubledRow
  <2>3. x[1] \in Nat /\ x[2] \in Nat
    BY <2>1
  <2> HIDE DEF r, G, owner
  <2>4. x[1] <= r => x[1] \in 1 .. Len(t)
    BY <1>2, <2>1
  <2>5. x[1] <= r => x \in DOMAIN map
    BY <1>9, <2>1, <2>4
  <2>6. x[1] > r => x[1] - 1 \in 1 .. Len(t)
    BY <1>2, <2>1, <2>3
  <2>7. x[1] > r => <<x[1] - 1, x[2]>> \in DOMAIN map
    BY <1>9, <2>1, <2>6
  <2>8. x[1] <= r \/ x[1] > r
    BY <1>2, <2>3
  <2>9. x[1] > r => ~ (x[1] <= r)
    BY <1>2, <2>3
  <2> QED BY <1>9, <2>1, <2>2, <2>3, <2>5, <2>7, <2>8, <2>9
<1>11. \A k \in 1 .. Len(t) + 1 : \A j \in 1 .. W : <<k, j>> \in G
  OBVIOUS
<1>12. ASSUME NEW x
       PROVE  Within(x, i, c0, 1, 1) <=> x \in G /\ x \in B
  <2>1. <<i, c0>> \in G
    BY <1>2, <1>11
  <2> HIDE DEF G, i, c0
  <2>2. i \in Nat /\ c0 \in Nat
    BY <1>2 DEF i
  <2>3. ASSUME Within(x, i, c0, 1, 1) PROVE x = <<i, c0>>
    <3>1. x = <<x[1], x[2]>> /\ x[1] = i /\ x[2] = c0
      BY <2>2, <2>3 DEF Within
    <3> QED BY <3>1
  <2>4. ASSUME x = <<i, c0>> PROVE Within(x, i, c0, 1, 1)
    BY <2>2, <2>4 DEF Within
  <2> QED BY <2>1, <2>3, <2>4
<1> HIDE DEF after, before, G, owner
<1>13. ASSUME NEW q \in Places(t), NEW x
       PROVE  Within(x, after[q][1], CellColumn(map, q), CellAt(H, q).rowSpan, CellAt(H, q).colSpan)
                <=> x \in G /\ x \notin B /\ owner[x] = q
  <2> DEFINE a == q[1]
             c == CellColumn(map, q)
             h == CellAt(t, q).rowSpan
             w == CellAt(t, q).colSpan
  <2>1. /\ a \in Int /\ c \in Nat \ {0} /\ h \in Nat \ {0} /\ w \in Nat \ {0}
        /\ \A k, j \in Int : <<k, j>> \in DOMAIN map /\ map[<<k, j>>] = q
              <=> a <= k /\ k < a + h /\ c <= j /\ j < c + w
        /\ after[q][1] = IF a >= i THEN a + 1 ELSE a
        /\ a >= 1
    <3>1. a \in 1 .. Len(t)
      BY DEF Gridded
    <3>2. a >= 1
      BY <1>2, <3>1
    <3> QED BY <1>8, <3>2
  <2>2. CellAt(H, q).colSpan = w /\ CellAt(H, q).rowSpan = IF q \in X THEN h + 1 ELSE h
    BY <1>4
  <2>3. q \in X <=> q # ref /\ a <= r /\ r < a + h
    BY <1>1
  <2>4. q = ref => a = r /\ h = 1 /\ w = 1 /\ c = c0
    OBVIOUS
  <2>5. x \in B <=> x = <<r + 1, c0>>
    OBVIOUS
  <2> HIDE DEF a, c, h, w, B
  <2>6. CASE a > r
    <3>1. after[q][1] = a + 1 /\ q \notin X
      BY <1>2, <2>1, <2>3, <2>6
    <3>2. ASSUME Within(x, a + 1, c, h, w) PROVE x \in G /\ x \notin B /\ owner[x] = q
      <4>1. /\ x = <<x[1], x[2]>> /\ x[1] \in Nat /\ x[2] \in Nat
            /\ a + 1 <= x[1] /\ x[1] < a + 1 + h /\ c <= x[2] /\ x[2] < c + w
        BY <3>2 DEF Within
      <4>2. x[1] - 1 \in Int /\ a <= x[1] - 1 /\ x[1] - 1 < a + h
        BY <2>1, <4>1
      <4>3. <<x[1] - 1, x[2]>> \in DOMAIN map /\ map[<<x[1] - 1, x[2]>>] = q
        BY <2>1, <4>1, <4>2
      <4>4. x[1] - 1 \in 1 .. Len(t) /\ x[2] \in 1 .. W
        BY <1>9, <4>3
      <4>5. x[1] \in 1 .. Len(t) + 1
        BY <1>2, <4>1, <4>4
      <4>6. x \in G
        BY <1>11, <4>1, <4>4, <4>5
      <4>7. x[1] > r + 1
        BY <1>2, <2>1, <2>6, <4>1
      <4>8. x \notin B /\ x[1] > r
        BY <1>2, <2>5, <4>1, <4>7
      <4> QED BY <1>10, <4>3, <4>6, <4>8
    <3>3. ASSUME x \in G, x \notin B, owner[x] = q PROVE Within(x, a + 1, c, h, w)
      <4>1. x = <<x[1], x[2]>> /\ x[1] \in Nat /\ x[2] \in Nat
        BY <1>10, <3>3
      <4>2. ~ (x[1] <= r)
        <5> SUFFICES ASSUME x[1] <= r PROVE FALSE
          OBVIOUS
        <5>1. <<x[1], x[2]>> \in DOMAIN map /\ map[<<x[1], x[2]>>] = q
          BY <1>10, <3>3, <4>1
        <5>2. a <= x[1]
          BY <2>1, <4>1, <5>1
        <5> QED BY <1>2, <2>1, <2>6, <4>1, <5>2
      <4>3. x[1] > r
        BY <1>2, <4>1, <4>2
      <4>4. <<x[1] - 1, x[2]>> \in DOMAIN map /\ map[<<x[1] - 1, x[2]>>] = q
        BY <1>10, <3>3, <4>3
      <4>5. x[1] - 1 \in Int
        BY <4>1
      <4>6. a <= x[1] - 1 /\ x[1] - 1 < a + h /\ c <= x[2] /\ x[2] < c + w
        BY <2>1, <4>1, <4>4, <4>5
      <4> QED BY <2>1, <4>1, <4>6 DEF Within
    <3> QED BY <2>2, <3>1, <3>2, <3>3 DEF c
  <2>7. CASE a <= r
    <3>1. after[q][1] = a
      BY <1>2, <2>1, <2>7
    \* A position of the rows up to r, and one below.
    <3>2. ASSUME x = <<x[1], x[2]>>, x[1] \in Nat, x[2] \in Nat, x[1] <= r
          PROVE  Within(x, a, c, CellAt(H, q).rowSpan, CellAt(H, q).colSpan)
                    <=> x \in G /\ x \notin B /\ owner[x] = q
      <4>1. x \notin B
        BY <1>2, <2>5, <3>2
      <4>2. x \in G => x \in DOMAIN map /\ owner[x] = map[x]
        BY <1>10, <3>2
      <4>3. x \in DOMAIN map => x \in G
        <5> SUFFICES ASSUME x \in DOMAIN map PROVE x \in G
          OBVIOUS
        <5>1. <<x[1], x[2]>> \in (1 .. Len(t)) \X (1 .. W)
          BY <1>9, <3>2
        <5>2. x[1] \in 1 .. Len(t) + 1 /\ x[2] \in 1 .. W
          BY <1>2, <5>1
        <5> QED BY <1>11, <3>2, <5>2
      <4>4. x \in G /\ x \notin B /\ owner[x] = q <=> a <= x[1] /\ x[1] < a + h /\ c <= x[2] /\ x[2] < c + w
        BY <2>1, <3>2, <4>1, <4>2, <4>3
      <4>5. q \in X => x[1] < a + h
        BY <1>2, <2>1, <2>3, <3>2
      <4>6. x[1] < a + CellAt(H, q).rowSpan <=> x[1] < a + h
        BY <2>1, <2>2, <3>2, <4>5
      <4> QED BY <2>2, <3>2, <4>4, <4>6 DEF Within
    <3>3. ASSUME x = <<x[1], x[2]>>, x[1] \in Nat, x[2] \in Nat, x[1] > r
          PROVE  Within(x, a, c, CellAt(H, q).rowSpan, CellAt(H, q).colSpan)
                    <=> x \in G /\ x \notin B /\ owner[x] = q
      <4> DEFINE y == <<x[1] - 1, x[2]>>
      <4>1. x[1] - 1 \in Int /\ a <= x[1]
        BY <1>2, <2>1, <2>7, <3>3
      <4>2. x \in G => y \in DOMAIN map /\ owner[x] = map[y]
        BY <1>10, <3>3
      <4>3. y \in DOMAIN map => x \in G
        <5> SUFFICES ASSUME y \in DOMAIN map PROVE x \in G
          OBVIOUS
        <5>1. <<x[1] - 1, x[2]>> \in (1 .. Len(t)) \X (1 .. W)
          BY <1>9
        <5>2. x[1] - 1 \in 1 .. Len(t) /\ x[2] \in 1 .. W
          BY <5>1
        <5>3. x[1] \in 1 .. Len(t) + 1
          BY <1>2, <3>3, <5>2
        <5> QED BY <1>11, <3>3, <5>2, <5>3
      <4>4. y \in DOMAIN map /\ map[y] = q <=> a <= x[1] - 1 /\ x[1] - 1 < a + h /\ c <= x[2] /\ x[2] < c + w
        BY <2>1, <3>3, <4>1
      <4>5. x \in G /\ owner[x] = q <=> x[1] < a + h + 1 /\ c <= x[2] /\ x[2] < c + w
        <5>1. a <= x[1] - 1
          BY <1>2, <2>1, <2>7, <3>3
        <5>2. x[1] - 1 < a + h <=> x[1] < a + h + 1
          BY <2>1, <3>3
        <5> QED BY <4>2, <4>3, <4>4, <5>1, <5>2
      <4> HIDE DEF y
      <4>6. CASE q = ref
        <5>1. a = r /\ h = 1 /\ w = 1 /\ c = c0 /\ q \notin X
          BY <2>3, <2>4, <4>6
        <5>2. x \in G /\ owner[x] = q => x \in B
          BY <1>2, <2>5, <3>3, <4>5, <5>1
        <5>3. ~ Within(x, a, c, CellAt(H, q).rowSpan, CellAt(H, q).colSpan)
          BY <1>2, <2>2, <3>3, <5>1 DEF Within
        <5> QED BY <5>2, <5>3
      <4>7. CASE q # ref
        <5>1. ASSUME x \in B PROVE ~ (x \in G /\ owner[x] = q)
          <6>1. x[1] = r + 1 /\ x[2] = c0
            BY <2>5, <5>1
          <6>2. ASSUME x \in G, owner[x] = q PROVE FALSE
            <7>1. y = <<r, c0>>
              BY <1>2, <6>1 DEF y
            <7>2. map[<<r, c0>>] = q
              BY <4>2, <6>2, <7>1
            <7>3. map[<<r, c0>>] = ref
              <8>1. /\ r <= r /\ r < r + CellAt(t, ref).rowSpan
                    /\ c0 <= c0 /\ c0 < c0 + CellAt(t, ref).colSpan
                BY <1>2
              <8> QED BY <1>2, <1>8, <8>1
            <7> QED BY <4>7, <7>2, <7>3
          <6> QED BY <6>2
        <5>2. CASE q \in X
          <6>1. Within(x, a, c, h + 1, w) <=> x[1] < a + h + 1 /\ c <= x[2] /\ x[2] < c + w
            BY <2>1, <3>3, <4>1 DEF Within
          <6> QED BY <2>2, <4>5, <5>1, <5>2, <6>1
        <5>3. CASE q \notin X
          <6>1. a + h <= r
            BY <1>2, <2>1, <2>3, <2>7, <4>7, <5>3
          <6>2. ~ (x[1] < a + h + 1) /\ ~ (x[1] < a + h)
            BY <1>2, <2>1, <3>3, <6>1
          <6>3. ~ Within(x, a, c, h, w)
            BY <6>2 DEF Within
          <6> QED BY <2>2, <4>5, <5>3, <6>2, <6>3
        <5> QED BY <5>2, <5>3
      <4> QED BY <4>6, <4>7
    <3>4. Within(x, a, c, CellAt(H, q).rowSpan, CellAt(H, q).colSpan)
            => x = <<x[1], x[2]>> /\ x[1] \in Nat /\ x[2] \in Nat
      BY DEF Within
    <3>5. x \in G => x = <<x[1], x[2]>> /\ x[1] \in Nat /\ x[2] \in Nat
      BY <1>10
    <3>6. x[1] \in Nat => x[1] <= r \/ x[1] > r
      BY <1>2
    <3> HIDE DEF r
    <3>7. Within(x, a, c, CellAt(H, q).rowSpan, CellAt(H, q).colSpan)
            <=> x \in G /\ x \notin B /\ owner[x] = q
      BY <3>2, <3>3, <3>4, <3>5, <3>6
    <3> QED BY <3>1, <3>7 DEF c
  <2>8. a > r \/ a <= r
    BY <1>2, <2>1
  <2> QED BY <2>6, <2>7, <2>8
<1>14. ASSUME NEW p \in Places(t), NEW q \in Places(t), after[p][1] = after[q][1], after[p][2] < after[q][2]
       PROVE  col[p] < col[q]
  <2>1. /\ p[1] \in Int /\ q[1] \in Int /\ p[2] < q[2]
        /\ after[p][1] = IF p[1] >= i THEN p[1] + 1 ELSE p[1]
        /\ after[q][1] = IF q[1] >= i THEN q[1] + 1 ELSE q[1]
    BY <1>8, <1>14
  <2>2. i \in Int
    BY <1>2
  <2> HIDE DEF i
  <2>3. p[1] = q[1]
    <3>1. CASE p[1] >= i /\ q[1] >= i
      <4>1. p[1] + 1 = q[1] + 1
        BY <1>14, <2>1, <3>1
      <4> QED BY <2>1, <4>1
    <3>2. CASE p[1] >= i /\ ~ (q[1] >= i)
      <4>1. p[1] + 1 = q[1]
        BY <1>14, <2>1, <3>2
      <4> QED BY <2>1, <2>2, <3>2, <4>1
    <3>3. CASE ~ (p[1] >= i) /\ q[1] >= i
      <4>1. p[1] = q[1] + 1
        BY <1>14, <2>1, <3>3
      <4> QED BY <2>1, <2>2, <3>3, <4>1
    <3>4. CASE ~ (p[1] >= i) /\ ~ (q[1] >= i)
      BY <1>14, <2>1, <3>4
    <3> QED BY <3>1, <3>2, <3>3, <3>4
  <2> QED BY <2>1, <2>3 DEF Gridded
<1>15. \A q \in Places(t) : after[q][1] # i
  <2> SUFFICES ASSUME NEW q \in Places(t) PROVE after[q][1] # i
    OBVIOUS
  <2>1. q[1] \in Int /\ i \in Int /\ after[q][1] = IF q[1] >= i THEN q[1] + 1 ELSE q[1]
    BY <1>2, <1>8
  <2> HIDE DEF i
  <2> QED BY <2>1
<1>16. Shared(T, W, t, col, new, c0, after, B, owner)
  <2>1. G = (1 .. Len(T)) \X (1 .. W)
    BY <1>6 DEF G
  <2>2. \A q \in Places(t) : col[q] \in Nat \ {0} /\ col[q] = CellColumn(map, q)
    BY <1>8
  <2>3. new[1] = i
    OBVIOUS
  <2>4. CellAt(T, new).rowSpan = 1 /\ CellAt(T, new).colSpan = 1
    BY <1>3, <1>6
  <2> HIDE DEF i, c0
  <2>5. \A q \in Places(t) : CellAt(T, after[q]) = CellAt(H, q)
    BY <1>6
  <2> HIDE DEF col, new, B
  <2>6. \A x \in (1 .. Len(T)) \X (1 .. W) : x \notin B => owner[x] \in Places(t)
    BY <1>10, <2>1
  <2>7. \A x : Within(x, new[1], c0, CellAt(T, new).rowSpan, CellAt(T, new).colSpan)
             <=> x \in (1 .. Len(T)) \X (1 .. W) /\ x \in B
    BY <1>12, <2>1, <2>3, <2>4
  <2>8. \A q \in Places(t) : \A x :
          Within(x, after[q][1], col[q], CellAt(T, after[q]).rowSpan, CellAt(T, after[q]).colSpan)
          <=> x \in (1 .. Len(T)) \X (1 .. W) /\ x \notin B /\ owner[x] = q
    BY <1>13, <2>1, <2>2, <2>5
  <2>9. \A q \in Places(t) : after[q][1] = new[1] =>
          /\ after[q][2] < new[2] => col[q] < c0
          /\ after[q][2] > new[2] => c0 < col[q]
    BY <1>15, <2>3
  <2> QED BY <1>2, <1>14, <2>2, <2>6, <2>7, <2>8, <2>9 DEF Shared
<1> HIDE DEF col, new, B, i, c0
<1>17. FullGrid(T)
  BY <1>7, <1>16, GrownGrid
<1> QED BY <1>17 DEF T

\* What a command makes of a table without holes and overlaps, if it meets nothing it ignores.
LEMMA GridStep ==
    ASSUME TextIs, FullGrid(table), TableNext, ~crude', table' # <<>>
    PROVE  FullGrid(table')
<1>1. table \in Tables
  BY DEF TextIs
<1>2. ASSUME NEW map, map = CreateTableMap(table)
      PROVE  Laid(map, table) /\ Tiled(table, map) /\ \E W : GridOf(table, map, W)
  BY <1>1, <1>2, CreateTableMapLays, GridIsTiled DEF GridOf
<1>3. TableDelete => FALSE
  BY DEF TableDelete, Command
<1>4. ASSUME NEW S \in Selections, TableDeleteRows(S) PROVE FullGrid(table')
  <2> DEFINE rows == {p[1] : p \in S}
  <2>1. table' = WithoutRows(table, rows) /\ ~HasSpans(table)
    BY <1>4 DEF TableDeleteRows, Command, Crude, DeleteRows
  <2>2. PICK W : Simple(table, W)
    BY <1>1, <2>1, GridIsSimple
  <2> HIDE DEF rows
  <2>3. WithoutRows(table, rows) # <<>>
    BY <2>1
  <2>4. FullGrid(WithoutRows(table, rows))
    BY <1>1, <2>2, <2>3, GridWithoutRows
  <2> QED BY <2>1, <2>4
<1>5. ASSUME NEW S \in Selections, TableDeleteColumns(S) PROVE FullGrid(table')
  <2>1. table' = DeleteColumns(table, S) /\ ~HasSpans(table) /\ S \in SUBSET Places(table)
    BY <1>5 DEF TableDeleteColumns, Command, Crude, Selections
  <2>2. DeleteColumns(table, S) # <<>>
    BY <2>1
  <2>3. FullGrid(DeleteColumns(table, S))
    BY <1>1, <2>1, <2>2, GridWithoutColumns
  <2> QED BY <2>1, <2>3
<1>6. ASSUME NEW S \in Selections, TableDeleteCells(S) PROVE FALSE
  BY <1>6 DEF TableDeleteCells, Crude
<1>7. ASSUME NEW ref \in Places(table), NEW before \in BOOLEAN, TableInsertRow(ref, before)
      PROVE  FullGrid(table')
  <2>1. table' = InsertRow(table, ref[1], before) /\ ~HasSpans(table)
    BY <1>7 DEF TableInsertRow, Command, Crude
  <2>2. ref[1] \in 1 .. Len(table)
    BY <1>1, PlacesOf
  <2>3. FullGrid(InsertRow(table, ref[1], before))
    BY <1>1, <2>1, <2>2, RowOfGrid
  <2> QED BY <2>1, <2>3
<1>8. ASSUME NEW ref \in Places(table), NEW before \in BOOLEAN, TableInsertColumn(ref, before)
      PROVE  FullGrid(table')
  <2>1. table' = InsertColumn(table, ref, before) /\ ~HasSpans(table)
    BY <1>8 DEF TableInsertColumn, Command, Crude
  <2>2. FullGrid(InsertColumn(table, ref, before))
    BY <1>1, <2>1, ColumnOfGrid
  <2> QED BY <2>1, <2>2
<1>9. ASSUME NEW ref \in Places(table), NEW before \in BOOLEAN, TableInsertCell(ref, before) PROVE FALSE
  BY <1>9 DEF TableInsertCell, Crude
<1>10. ASSUME NEW map, map = CreateTableMap(table), NEW S \in Selections, TableMergeCells(map, S)
       PROVE  FullGrid(table')
  <2>1. table' = MergeCells(table, map, S) /\ Fills(map, S)
    BY <1>10 DEF TableMergeCells, Command, Crude
  <2>2. S \in SUBSET Places(table) /\ S # {}
    BY DEF Selections
  <2>3. PICK W : GridOf(table, map, W)
    BY <1>2, <1>10
  <2>4. FullGrid(MergeCells(table, map, S))
    BY <1>1, <1>2, <1>10, <2>1, <2>2, <2>3, FilledIs
  <2> QED BY <2>1, <2>4
<1>11. ASSUME NEW map, map = CreateTableMap(table), NEW ref \in Places(table), NEW target,
              target # NoTarget => target \in Places(table) /\ Rectangle(map, {ref, target}),
              TableMerge(map, ref, target)
       PROVE  FullGrid(table')
  <2> DEFINE S == {ref, target}
  <2>1. target # NoTarget /\ table' = MergeInto(table, map, S, ref, S, {})
    BY <1>11 DEF TableMerge, Command
  <2>2. S \in SUBSET Places(table) /\ ref \in S /\ Rectangle(map, S)
    BY <1>11, <2>1
  <2> HIDE DEF S
  <2>3. PICK r, c, h, w \in Nat \ {0} : \A y : y \in Positions(map, S) <=> Within(y, r, c, h, w)
    BY <2>2 DEF Rectangle
  <2>4. PICK W : GridOf(table, map, W)
    BY <1>2, <1>11
  <2>5. Laid(map, table) /\ Tiled(table, map)
    BY <1>2, <1>11
  <2>6. FullGrid(MergeInto(table, map, S, ref, S, {}))
    BY <1>1, <2>2, <2>3, <2>4, <2>5, MergedBrickIs
  <2> QED BY <2>1, <2>6
<1>12. ASSUME NEW map, map = CreateTableMap(table), NEW ref \in Places(table), TableMergeRight(map, ref)
       PROVE  FullGrid(table')
  <2> DEFINE target == MergeRightTarget(table, map, ref)
  <2>1. target # NoTarget => target \in Places(table) /\ Rectangle(map, {ref, target})
    BY <1>1, <1>2, <1>12, MergeRightFills
  <2>2. TableMerge(map, ref, target)
    BY <1>12 DEF TableMergeRight
  <2> HIDE DEF target
  <2> QED BY <1>11, <1>12, <2>1, <2>2
<1>13. ASSUME NEW map, map = CreateTableMap(table), NEW ref \in Places(table), TableMergeDown(map, ref)
       PROVE  FullGrid(table')
  <2> DEFINE target == MergeDownTarget(table, map, ref)
  <2>1. target # NoTarget => target \in Places(table) /\ Rectangle(map, {ref, target})
    BY <1>1, <1>2, <1>13, MergeDownFills
  <2>2. TableMerge(map, ref, target)
    BY <1>13 DEF TableMergeDown
  <2> HIDE DEF target
  <2> QED BY <1>11, <1>13, <2>1, <2>2
<1>14. ASSUME NEW map, map = CreateTableMap(table), NEW ref \in Places(table),
              TableHorizontalSplitCell(map, ref)
       PROVE  FullGrid(table')
  <2>1. table' = HorizontalSplitCell(table, map, ref)
    BY <1>14 DEF TableHorizontalSplitCell, Command
  <2>2. PICK W : GridOf(table, map, W)
    BY <1>2, <1>14
  <2>3. FullGrid(HorizontalSplitCell(table, map, ref))
    BY <1>1, <1>2, <1>14, <2>2, SplitBrickIs
  <2> QED BY <2>1, <2>3
<1>15. ASSUME NEW map, map = CreateTableMap(table), NEW ref \in Places(table),
              TableVerticalSplitCell(map, ref)
       PROVE  FullGrid(table')
  <2>1. table' = VerticalSplitCell(table, map, ref) /\ ~ (CellAt(table, ref).colSpan > 1)
    BY <1>15 DEF TableVerticalSplitCell, Command, Crude
  <2>2. CellAt(table, ref).colSpan \in Nat \ {0} /\ CellAt(table, ref).rowSpan \in Nat \ {0}
    BY <1>1, CellIs
  <2>3. CellAt(table, ref).colSpan = 1
    BY <2>1, <2>2
  <2>4. PICK W : Gridded(table, map, W) /\ Laid(map, table) /\ Tiled(table, map)
    BY <1>1, <1>15, GriddedIs
  <2>5. CASE CellAt(table, ref).rowSpan > 1
    <3>1. table' = SplitRows(table, map, ref)
      BY <2>1, <2>5 DEF VerticalSplitCell
    <3>2. FullGrid(SplitRows(table, map, ref))
      BY <1>1, <2>3, <2>4, <2>5, RowsSplitGrid
    <3> QED BY <3>1, <3>2
  <2>6. CASE ~ (CellAt(table, ref).rowSpan > 1)
    <3>1. table' = SplitRow(table, map, ref)
      BY <2>1, <2>6 DEF VerticalSplitCell
    <3>2. CellAt(table, ref).rowSpan = 1
      BY <2>2, <2>6
    <3>3. FullGrid(SplitRow(table, map, ref))
      BY <1>1, <2>3, <2>4, <3>2, RowSplitGrid
    <3> QED BY <3>1, <3>3
  <2> QED BY <2>5, <2>6
<1> QED BY <1>3, <1>4, <1>5, <1>6, <1>7, <1>8, <1>9, <1>10, <1>12, <1>13, <1>14, <1>15 DEF TableNext

\* No command runs without a table.
LEMMA TableStays ==
    ASSUME TableNext, table = <<>>
    PROVE  FALSE
<1>1. Places(table) = {} /\ Selections = {}
  BY EmptyTable DEF Selections
<1>2. ~ TableDelete
  BY DEF TableDelete
<1> QED BY <1>1, <1>2 DEF TableNext

\* A step does not unset what the history says of commands that ignore spans.
LEMMA CrudeStays ==
    ASSUME TableNext
    PROVE  crude => crude'
BY DEF TableNext, TableDelete, TableDeleteRows, TableDeleteColumns, TableDeleteCells, TableInsertRow,
       TableInsertColumn, TableInsertCell, TableMergeCells, TableMergeRight, TableMergeDown, TableMerge,
       TableHorizontalSplitCell, TableVerticalSplitCell, Crude

\* A table without holes and overlaps stays one, whatever is merged, split, inserted or deleted,
\* until a command meets spans it ignores, or such cells are merged as fill no rectangle.
THEOREM GridIsKept == TableSafety => []GridKept
<1>1. TableInit \/ NoTable => GridKept
  BY FirstTablesAssumption DEF TableInit, NoTable, GridKept
<1>2. ASSUME TextInvariant, GridKept, [TableNext]_tableVars PROVE GridKept'
  <2>1. CASE UNCHANGED tableVars
    <3>1. table' = table /\ crude' = crude
      BY <2>1 DEF tableVars
    <3> QED BY <1>2, <3>1 DEF GridKept, FullGrid
  <2>2. CASE TableNext
    <3> SUFFICES ASSUME ~crude', table' # <<>> PROVE FullGrid(table')
      BY DEF GridKept, FullGrid
    <3>1. ~crude /\ table # <<>>
      BY <2>2, CrudeStays, TableStays
    <3>2. FullGrid(table) /\ TextIs
      BY <1>2, <3>1 DEF GridKept, TextInvariant
    <3> QED BY <2>2, <3>2, GridStep
  <2> QED BY <1>2, <2>1, <2>2
<1> QED BY <1>1, <1>2, TextAlways, PTL DEF TableSafety

----------------------------------------------------------------------------
(* What is offered for merging                                             *)

\* Neighbours, and a part of a set that has the neighbours of its elements.
Nearby(x, y) == <<x[1] - y[1], x[2] - y[2]>> \in Directions
Neighbours(M, A) == {x \in M : \E y \in A : Nearby(x, y)}
Closed(M, R) ==
    /\ R \in SUBSET M /\ R # {}
    /\ \A x \in M : \A y \in R : Nearby(x, y) \/ Nearby(y, x) => x \in R

\* A connected set has no other such part than itself.
LEMMA ConnectedIs ==
    ASSUME NEW map, NEW S, IsFiniteSet(Positions(map, S)), Connected(map, S),
           NEW R, Closed(Positions(map, S), R)
    PROVE  R = Positions(map, S)
<1> DEFINE M == Positions(map, S)
           N == Cardinality(M)
           x0 == CHOOSE x \in M : TRUE
           D == SUBSET M
           Recursive(g) == g = [k \in 1 .. N |->
                IF k = 1 THEN {x0} ELSE g[k - 1] \cup Neighbours(M, g[k - 1])]
           step == [k \in 1 .. N - 1 |-> [A \in D |-> A \cup Neighbours(M, A)]]
<1>1. IsFiniteSet(M) /\ M # {} /\ R \in SUBSET M /\ R # {}
  BY DEF Closed
<1>2. N \in Nat \ {0}
  BY <1>1, FS_CardinalityType, FS_EmptySet
<1>3. x0 \in M
  BY <1>1
<1>4. (CHOOSE g : Recursive(g))[N] = M
  BY DEF Connected, Nearby, Neighbours, Directions
<1> HIDE DEF M, N, x0
<1>5. PICK f : Solves(f, N - 1, D, {x0}, step)
  <2>1. N - 1 \in Nat /\ {x0} \in D
    BY <1>2, <1>3
  <2>2. \A A \in D : A \cup Neighbours(M, A) \in D
    BY DEF Neighbours
  <2>3. step \in [1 .. N - 1 -> [D -> D]]
    BY <2>2
  <2> HIDE DEF step, D
  <2> QED BY <2>1, <2>3, RecursionHasSolution
<1>6. f[0] = {x0} /\ f \in [0 .. N - 1 -> D]
  BY <1>5 DEF Solves
<1>7. ASSUME NEW k \in 1 .. N - 1 PROVE f[k] = f[k - 1] \cup Neighbours(M, f[k - 1])
  <2>1. k - 1 \in 0 .. N - 1
    BY <1>2
  <2>2. f[k - 1] \in D /\ f[k] = step[k][f[k - 1]]
    BY <1>5, <2>1 DEF Solves
  <2> HIDE DEF D
  <2> QED BY <2>2
<1> HIDE DEF D, step
<1> DEFINE h == [k \in 1 .. N |-> f[k - 1]]
<1>8. Recursive(h)
  <2>1. h[1] = {x0}
    BY <1>2, <1>6
  <2>2. ASSUME NEW k \in 1 .. N, k # 1 PROVE h[k] = h[k - 1] \cup Neighbours(M, h[k - 1])
    <3>1. k - 1 \in 1 .. N - 1 /\ k - 1 \in 1 .. N
      BY <1>2, <2>2
    <3>2. h[k] = f[k - 1] /\ h[k - 1] = f[k - 1 - 1]
      BY <3>1
    <3> HIDE DEF h
    <3> QED BY <1>7, <3>1, <3>2
  <2>3. h = [k \in 1 .. N |-> h[k]]
    OBVIOUS
  <2> HIDE DEF h
  <2> QED BY <2>1, <2>2, <2>3
<1> HIDE DEF h
<1> DEFINE g == CHOOSE e : Recursive(e)
<1>9. Recursive(g) /\ g[N] = M
  <2> HIDE DEF Recursive
  <2> QED BY <1>4, <1>8
<1> HIDE DEF g
<1>10. /\ g[1] = {x0}
       /\ \A k \in 1 .. N : k # 1 => g[k] = g[k - 1] \cup Neighbours(M, g[k - 1])
  <2>1. \A k \in 1 .. N : g[k] = IF k = 1 THEN {x0} ELSE g[k - 1] \cup Neighbours(M, g[k - 1])
    <3>1. g = [k \in 1 .. N |-> IF k = 1 THEN {x0} ELSE g[k - 1] \cup Neighbours(M, g[k - 1])]
      BY <1>9
    <3> QED BY <3>1
  <2>2. 1 \in 1 .. N
    BY <1>2
  <2> QED BY <2>1, <2>2
<1> HIDE DEF Recursive
<1>11. \A x \in M : \A y \in R : Nearby(x, y) \/ Nearby(y, x) => x \in R
  BY DEF Closed, M
\* The part in which the search begins is all that it reaches.
<1>12. ASSUME NEW Q, x0 \in Q, Q \in SUBSET M,
              \A x \in M : \A y \in Q : Nearby(x, y) => x \in Q
       PROVE  Q = M
  <2> DEFINE I == {k \in 1 .. N : g[k] \subseteq Q}
  <2>1. 1 \in I
    BY <1>2, <1>10, <1>12
  <2>2. ASSUME NEW k \in 1 + 1 .. N, k - 1 \in I PROVE k \in I
    <3>1. k \in 1 .. N /\ k # 1
      BY <1>2
    <3>2. g[k] = g[k - 1] \cup Neighbours(M, g[k - 1]) /\ g[k - 1] \subseteq Q
      BY <1>10, <2>2, <3>1
    <3>3. Neighbours(M, g[k - 1]) \subseteq Q
      BY <1>12, <3>2 DEF Neighbours
    <3> QED BY <3>1, <3>2, <3>3
  <2>3. \A k \in 1 .. N : k \in I
    <3>1. 1 \in Nat /\ N \in Nat
      BY <1>2
    <3> HIDE DEF I
    <3> QED BY <2>1, <2>2, <3>1, UpTo
  <2>4. N \in 1 .. N
    BY <1>2
  <2> QED BY <1>9, <1>12, <2>3, <2>4
<1>13. CASE x0 \in R
  <2>1. R = M
    BY <1>1, <1>11, <1>12, <1>13
  <2> QED BY <2>1 DEF M
<1>14. CASE x0 \notin R
  <2> DEFINE Q == M \ R
  <2>1. \A x \in M : \A y \in Q : Nearby(x, y) => x \in Q
    BY <1>11
  <2>2. x0 \in Q /\ Q \in SUBSET M
    BY <1>3, <1>14
  <2> HIDE DEF Q
  <2>3. Q = M
    BY <1>12, <2>1, <2>2
  <2> QED BY <1>1, <2>3 DEF Q
<1> QED BY <1>13, <1>14
\* The indexes of a column, and of a row.
Upright(M, j) == {a \in Int : <<a, j>> \in M}
Across(M, i) == {a \in Int : <<i, a>> \in M}

\* From i - u to i + d - 1 is a longest run of A.
Run(A, i, u, d) ==
    /\ u \in Nat /\ d \in Nat
    /\ \A a \in Int : i - u <= a /\ a < i + d => a \in A
    /\ i - u - 1 \notin A /\ i + d \notin A

Sized(M, i, j, h, w) ==
    /\ \E u, d : Run(Upright(M, j), i, u, d) /\ u + d = h
    /\ \E l, e : Run(Across(M, i), j, l, e) /\ l + e = w

\* A longest run that begins at p.
LEMMA RunFrom ==
    ASSUME NEW A, NEW i \in Int, NEW u, NEW d, Run(A, i, u, d), NEW p \in Int, p <= i,
           p - 1 \notin A, \A a \in Int : p <= a /\ a < i => a \in A
    PROVE  /\ u = i - p
           /\ \A a \in Int : p <= a /\ a < p + (u + d) => a \in A
           /\ p + (u + d) \notin A
<1>1. u \in Nat /\ d \in Nat /\ i - u - 1 \notin A /\ i + d \notin A
  BY DEF Run
<1>2. \A a \in Int : i - u <= a /\ a < i + d => a \in A
  BY DEF Run
<1>3. ~(p <= i - u - 1)
  <2>1. i - u - 1 \in Int /\ i - u - 1 < i
    BY <1>1
  <2> QED BY <1>1, <2>1
<1>4. ~(i - u <= p - 1)
  <2>1. p - 1 \in Int /\ p - 1 < i + d
    BY <1>1
  <2> QED BY <1>2, <2>1
<1>5. u = i - p /\ i + d = p + (u + d) /\ i - u = p
  BY <1>1, <1>3, <1>4
<1> QED BY <1>1, <1>2, <1>5

\* A longest run is all there is to the left and the right of a run of its length.
LEMMA RunIs ==
    ASSUME NEW A, NEW i \in Int, NEW u, NEW d, Run(A, i, u, d), NEW p \in Int, NEW q \in Int,
           p <= i, i < q, u + d = q - p, \A a \in Int : p <= a /\ a < q => a \in A
    PROVE  p - 1 \notin A /\ q \notin A
<1>1. u \in Nat /\ d \in Nat /\ i - u - 1 \notin A /\ i + d \notin A
  BY DEF Run
<1>2. ~(p <= i - u - 1)
  <2>1. i - u - 1 \in Int /\ i - u - 1 < q
    BY <1>1
  <2> QED BY <1>1, <2>1
<1>3. ~(i + d < q)
  <2>1. i + d \in Int /\ p <= i + d
    BY <1>1
  <2> QED BY <1>1, <2>1
<1>4. i - u - 1 = p - 1 /\ i + d = q
  BY <1>1, <1>2, <1>3
<1> QED BY <1>1, <1>4

\* What _GetMarkerGeometry counts are the longest runs through a position.
LEMMA GeometryIs ==
    ASSUME NEW map, NEW S, IsFiniteSet(Positions(map, S)), NEW i \in Int, NEW j \in Int
    PROVE  \E u, d, l, e :
              /\ Run(Upright(Positions(map, S), j), i, u, d)
              /\ Run(Across(Positions(map, S), i), j, l, e)
              /\ MarkerGeometry(map, <<i, j>>, S).height = u + d
              /\ MarkerGeometry(map, <<i, j>>, S).y = u
              /\ MarkerGeometry(map, <<i, j>>, S).width = l + e
              /\ MarkerGeometry(map, <<i, j>>, S).x = l
<1> DEFINE M == Positions(map, S)
           x == <<i, j>>
           above == <<i - 1, j>>
           before == <<i, j - 1>>
           u == RunLength(M, above, -1, 0)
           d == RunLength(M, x, 1, 0)
           l == RunLength(M, before, 0, -1)
           e == RunLength(M, x, 0, 1)
<1>1. /\ MarkerGeometry(map, x, S).height = u + d /\ MarkerGeometry(map, x, S).y = u
      /\ MarkerGeometry(map, x, S).width = l + e /\ MarkerGeometry(map, x, S).x = l
  BY DEF MarkerGeometry
<1>2. /\ <<-1, 0>> \in Directions /\ <<1, 0>> \in Directions
      /\ <<0, -1>> \in Directions /\ <<0, 1>> \in Directions
  BY DEF Directions
<1>3. x \in Int \X Int /\ above \in Int \X Int /\ before \in Int \X Int
  OBVIOUS
<1>4. ASSUME NEW k \in Int
      PROVE  /\ At(above, k, -1, 0) = <<i - 1 - k, j>> /\ At(x, k, 1, 0) = <<i + k, j>>
             /\ At(before, k, 0, -1) = <<i, j - 1 - k>> /\ At(x, k, 0, 1) = <<i, j + k>>
  <2>1. /\ i - 1 + k * (-1) = i - 1 - k /\ i + k * 1 = i + k /\ k * 0 = 0
        /\ j - 1 + k * (-1) = j - 1 - k /\ j + k * 1 = j + k /\ i + 0 = i /\ j + 0 = j
    OBVIOUS
  <2> QED BY <2>1 DEF At
<1>5. IsFiniteSet(M)
  OBVIOUS
<1> HIDE DEF M, x, above, before
<1>6. /\ RunOf(u, M, above, -1, 0) /\ RunOf(d, M, x, 1, 0)
      /\ RunOf(l, M, before, 0, -1) /\ RunOf(e, M, x, 0, 1)
  BY <1>2, <1>3, <1>5, RunLengthIs
<1> HIDE DEF u, d, l, e
<1>7. u \in Nat /\ d \in Nat /\ l \in Nat /\ e \in Nat
  BY <1>6 DEF RunOf
<1>8. ASSUME NEW k \in Int, 0 <= k
      PROVE  /\ k < u => <<i - 1 - k, j>> \in M
             /\ k < d => <<i + k, j>> \in M
             /\ k < l => <<i, j - 1 - k>> \in M
             /\ k < e => <<i, j + k>> \in M
  <2>1. /\ k < u => k \in 0 .. u - 1
        /\ k < d => k \in 0 .. d - 1
        /\ k < l => k \in 0 .. l - 1
        /\ k < e => k \in 0 .. e - 1
    BY <1>7, <1>8
  <2>2. /\ k < u => At(above, k, -1, 0) \in M
        /\ k < d => At(x, k, 1, 0) \in M
        /\ k < l => At(before, k, 0, -1) \in M
        /\ k < e => At(x, k, 0, 1) \in M
    BY <1>6, <2>1 DEF RunOf
  <2> QED BY <1>4, <2>2
<1>9. /\ <<i - 1 - u, j>> \notin M /\ <<i + d, j>> \notin M
      /\ <<i, j - 1 - l>> \notin M /\ <<i, j + e>> \notin M
  <2>1. u \in Int /\ d \in Int /\ l \in Int /\ e \in Int
    BY <1>7
  <2>2. /\ At(above, u, -1, 0) \notin M /\ At(x, d, 1, 0) \notin M
        /\ At(before, l, 0, -1) \notin M /\ At(x, e, 0, 1) \notin M
    BY <1>6 DEF RunOf
  <2> QED BY <1>4, <2>1, <2>2
<1>10. Run(Upright(M, j), i, u, d)
  <2>1. ASSUME NEW a \in Int, i - u <= a, a < i + d PROVE <<a, j>> \in M
    <3>1. CASE a < i
      <4>1. i - 1 - a \in Int /\ 0 <= i - 1 - a /\ i - 1 - a < u /\ i - 1 - (i - 1 - a) = a
        BY <1>7, <2>1, <3>1
      <4>2. PICK k : k = i - 1 - a
        OBVIOUS
      <4>3. k \in Int /\ 0 <= k /\ k < u /\ i - 1 - k = a
        BY <4>1, <4>2
      <4> QED BY <1>8, <4>3
    <3>2. CASE a >= i
      <4>1. a - i \in Int /\ 0 <= a - i /\ a - i < d /\ i + (a - i) = a
        BY <1>7, <2>1, <3>2
      <4>2. PICK k : k = a - i
        OBVIOUS
      <4>3. k \in Int /\ 0 <= k /\ k < d /\ i + k = a
        BY <4>1, <4>2
      <4> QED BY <1>8, <4>3
    <3> QED BY <2>1, <3>1, <3>2
  <2>2. i - u - 1 = i - 1 - u
    BY <1>7
  <2> QED BY <1>7, <1>9, <2>1, <2>2 DEF Run, Upright
<1>11. Run(Across(M, i), j, l, e)
  <2>1. ASSUME NEW a \in Int, j - l <= a, a < j + e PROVE <<i, a>> \in M
    <3>1. CASE a < j
      <4>1. j - 1 - a \in Int /\ 0 <= j - 1 - a /\ j - 1 - a < l /\ j - 1 - (j - 1 - a) = a
        BY <1>7, <2>1, <3>1
      <4>2. PICK k : k = j - 1 - a
        OBVIOUS
      <4>3. k \in Int /\ 0 <= k /\ k < l /\ j - 1 - k = a
        BY <4>1, <4>2
      <4> QED BY <1>8, <4>3
    <3>2. CASE a >= j
      <4>1. a - j \in Int /\ 0 <= a - j /\ a - j < e /\ j + (a - j) = a
        BY <1>7, <2>1, <3>2
      <4>2. PICK k : k = a - j
        OBVIOUS
      <4>3. k \in Int /\ 0 <= k /\ k < e /\ j + k = a
        BY <4>1, <4>2
      <4> QED BY <1>8, <4>3
    <3> QED BY <2>1, <3>1, <3>2
  <2>2. j - l - 1 = j - 1 - l
    BY <1>7
  <2> QED BY <1>7, <1>9, <2>1, <2>2 DEF Run, Across
<1> QED BY <1>1, <1>10, <1>11 DEF M, x

\* The first cell of a selection has nothing selected above it, and nothing to its left in its row.
LEMMA StartIsCorner ==
    ASSUME NEW t \in Tables, NEW map, Laid(map, t), NEW S \in SUBSET Places(t), S # {}
    PROVE  \A y \in Positions(map, S) :
              /\ SelectionStart(t, map, S)[1] <= y[1]
              /\ y[1] = SelectionStart(t, map, S)[1] => SelectionStart(t, map, S)[2] <= y[2]
<1> DEFINE p == InOrder(S)[1]
           c == CellColumn(map, p)
<1>1. p \in S /\ p \in Places(t) /\ \A q \in S : p # q => Precedes(p, q)
  BY FirstSelected
<1>2. SelectionStart(t, map, S) = <<p[1], c>>
  BY DEF SelectionStart
<1> HIDE DEF p, c
<1>3. p[1] \in Nat /\ p[2] \in Nat /\ c \in Nat
  <2>1. Places(t) \in SUBSET Position
    BY PlacesOf
  <2>2. CellColumn(map, p) \in Nat
    BY <1>1, CellBlockIs
  <2> QED BY <1>1, <2>1, <2>2 DEF Position, c
<1>4. ASSUME NEW y \in Positions(map, S)
      PROVE  p[1] <= y[1] /\ (y[1] = p[1] => c <= y[2])
  <2> DEFINE q == map[y]
  <2>1. q \in S /\ q \in Places(t) /\ y \in Positions(map, {q})
    BY DEF Positions
  <2> HIDE DEF q
  <2>2. /\ q[1] \in Nat /\ q[2] \in Nat /\ CellColumn(map, q) \in Nat
        /\ y[1] \in Nat /\ y[2] \in Nat /\ q[1] <= y[1] /\ CellColumn(map, q) <= y[2]
    <3>1. Within(y, q[1], CellColumn(map, q), CellAt(t, q).rowSpan, CellAt(t, q).colSpan)
      BY <2>1, CellBlockIs
    <3>2. q[1] \in Nat /\ q[2] \in Nat /\ CellColumn(map, q) \in Nat
      <4>1. Places(t) \in SUBSET Position
        BY PlacesOf
      <4>2. CellColumn(map, q) \in Nat
        BY <2>1, CellBlockIs
      <4> QED BY <2>1, <4>1, <4>2 DEF Position
    <3> QED BY <3>1, <3>2 DEF Within
  <2>3. CASE q = p
    BY <2>2, <2>3 DEF c
  <2>4. CASE q # p
    <3>1. p[1] < q[1] \/ (p[1] = q[1] /\ p[2] < q[2])
      BY <1>1, <2>1, <2>4 DEF Precedes
    <3>2. CASE p[1] < q[1]
      BY <1>3, <2>2, <3>2
    <3>3. CASE p[1] = q[1] /\ p[2] < q[2]
      <4>1. c < CellColumn(map, q)
        BY <1>1, <2>1, <3>3 DEF Laid, c
      <4> QED BY <1>3, <2>2, <3>3, <4>1
    <3> QED BY <3>1, <3>2, <3>3
  <2> QED BY <2>3, <2>4
<1> QED BY <1>2, <1>4

\* Where the diagonal begins, and what the positions on it have in common.
BeginsAt(M, r, c) ==
    <<r, c>> \in M /\ \A a, b \in Int : <<a, b>> \in M => r <= a /\ (a = r => c <= b)

Regular(M, r, c, h, w) ==
    /\ w >= h => \A k \in 0 .. w - 1 : Sized(M, r + (k % h), c + k, h, w)
    /\ h > w => \A k \in 0 .. h - 1 : Sized(M, r + k, c + (k % w), h, w)

\* A block of M that nothing of M touches.
Apart(M, r, c, h, w) ==
    /\ \A i, j \in Int : r <= i /\ i < r + h /\ c <= j /\ j < c + w => <<i, j>> \in M
    /\ \A j \in Int : c <= j /\ j < c + w => <<r - 1, j>> \notin M /\ <<r + h, j>> \notin M
    /\ \A i \in Int : r <= i /\ i < r + h => <<i, c - 1>> \notin M /\ <<i, c + w>> \notin M

\* A column that goes up to the first row is h long from there.
LEMMA ColumnFromTop ==
    ASSUME NEW M, NEW r \in Nat \ {0}, NEW c \in Nat \ {0}, BeginsAt(M, r, c),
           NEW h \in Nat, NEW w \in Nat, NEW i \in Int, NEW j \in Int, r <= i, Sized(M, i, j, h, w),
           \A a \in Int : r <= a /\ a < i => <<a, j>> \in M
    PROVE  /\ \A a \in Int : r <= a /\ a < r + h => <<a, j>> \in M
           /\ <<r - 1, j>> \notin M /\ <<r + h, j>> \notin M
<1> DEFINE A == Upright(M, j)
<1>1. PICK u, d : Run(A, i, u, d) /\ u + d = h
  BY DEF Sized
<1>2. <<r - 1, j>> \notin M
  <2>1. r - 1 \in Int /\ ~(r <= r - 1)
    OBVIOUS
  <2> QED BY <2>1 DEF BeginsAt
<1>3. r - 1 \notin A /\ \A a \in Int : r <= a /\ a < i => a \in A
  BY <1>2 DEF Upright
<1>4. \A a \in Int : a \in A <=> <<a, j>> \in M
  BY DEF Upright
<1> HIDE DEF A
<1>5. (\A a \in Int : r <= a /\ a < r + (u + d) => a \in A) /\ r + (u + d) \notin A
  <2>1. r \in Int
    OBVIOUS
  <2> QED BY <1>1, <1>3, <2>1, RunFrom
<1>6. r + h \in Int
  OBVIOUS
<1> QED BY <1>1, <1>2, <1>4, <1>5, <1>6

\* The first row is w long from the first column on.
LEMMA RowFromCorner ==
    ASSUME NEW M, NEW r \in Nat \ {0}, NEW c \in Nat \ {0}, BeginsAt(M, r, c),
           NEW h \in Nat, NEW w \in Nat, Sized(M, r, c, h, w)
    PROVE  /\ \A b \in Int : c <= b /\ b < c + w => <<r, b>> \in M
           /\ <<r, c - 1>> \notin M /\ <<r, c + w>> \notin M
<1> DEFINE A == Across(M, r)
<1>1. PICK l, e : Run(A, c, l, e) /\ l + e = w
  BY DEF Sized
<1>2. <<r, c - 1>> \notin M
  <2>1. c - 1 \in Int /\ ~(c <= c - 1) /\ r \in Int
    OBVIOUS
  <2> QED BY <2>1 DEF BeginsAt
<1>3. c - 1 \notin A /\ \A a \in Int : c <= a /\ a < c => a \in A
  BY <1>2 DEF Across
<1>4. \A a \in Int : a \in A <=> <<r, a>> \in M
  BY DEF Across
<1> HIDE DEF A
<1>5. (\A a \in Int : c <= a /\ a < c + (l + e) => a \in A) /\ c + (l + e) \notin A
  <2>1. c \in Int /\ c <= c
    OBVIOUS
  <2> QED BY <1>1, <1>3, <2>1, RunFrom
<1>6. c + w \in Int
  OBVIOUS
<1> QED BY <1>1, <1>2, <1>4, <1>5, <1>6

\* A row that is full from c on for w columns has nothing beside them.
LEMMA RowIsAll ==
    ASSUME NEW M, NEW c \in Nat \ {0}, NEW h \in Nat, NEW w \in Nat, NEW i \in Int, NEW j \in Int,
           c <= j, j < c + w, Sized(M, i, j, h, w),
           \A b \in Int : c <= b /\ b < c + w => <<i, b>> \in M
    PROVE  <<i, c - 1>> \notin M /\ <<i, c + w>> \notin M
<1> DEFINE A == Across(M, i)
<1>1. PICK l, e : Run(A, j, l, e) /\ l + e = w
  BY DEF Sized
<1>2. \A a \in Int : a \in A <=> <<i, a>> \in M
  BY DEF Across
<1> HIDE DEF A
<1>3. c - 1 \notin A /\ c + w \notin A
  <2>1. PICK q : q = c + w
    OBVIOUS
  <2>2. c \in Int /\ q \in Int /\ l + e = q - c /\ c <= j /\ j < q
    BY <1>1, <2>1
  <2>3. \A a \in Int : c <= a /\ a < q => a \in A
    BY <1>2, <2>1
  <2>4. c - 1 \notin A /\ q \notin A
    BY ONLY <1>1, <2>2, <2>3, RunIs, j \in Int
  <2> QED BY <2>1, <2>4
<1>4. c - 1 \in Int /\ c + w \in Int
  OBVIOUS
<1> QED BY <1>2, <1>3, <1>4

\* While a block has one or two rows or columns, the diagonal meets each of its rows and columns.
LEMMA NarrowIsApart ==
    ASSUME NEW M, NEW r \in Nat \ {0}, NEW c \in Nat \ {0}, NEW h \in Nat \ {0}, NEW w \in Nat \ {0},
           BeginsAt(M, r, c), Regular(M, r, c, h, w), w <= 2 \/ h <= 2
    PROVE  Apart(M, r, c, h, w)
<1>1. Sized(M, r, c, h, w)
  <2>1. CASE w >= h
    <3>1. 0 \in 0 .. w - 1 /\ 0 % h = 0 /\ r + 0 = r /\ c + 0 = c
      OBVIOUS
    <3>2. Sized(M, r + (0 % h), c + 0, h, w)
      BY <2>1, <3>1 DEF Regular
    <3> QED BY <3>1, <3>2
  <2>2. CASE h > w
    <3>1. 0 \in 0 .. h - 1 /\ 0 % w = 0 /\ r + 0 = r /\ c + 0 = c
      OBVIOUS
    <3>2. Sized(M, r + 0, c + (0 % w), h, w)
      BY <2>2, <3>1 DEF Regular
    <3> QED BY <3>1, <3>2
  <2> QED BY <2>1, <2>2
<1>2. /\ \A b \in Int : c <= b /\ b < c + w => <<r, b>> \in M
      /\ <<r, c - 1>> \notin M /\ <<r, c + w>> \notin M
  BY <1>1, RowFromCorner
<1>3. /\ \A a \in Int : r <= a /\ a < r + h => <<a, c>> \in M
      /\ <<r - 1, c>> \notin M /\ <<r + h, c>> \notin M
  <2>1. r \in Int /\ c \in Int /\ r <= r /\ \A a \in Int : ~(r <= a /\ a < r)
    OBVIOUS
  <2> QED BY <1>1, <2>1, ColumnFromTop
\* One row: nothing is above or below any of its positions.
<1>4. CASE h = 1
  <2>1. ASSUME NEW j \in Int, c <= j, j < c + w
        PROVE  <<r - 1, j>> \notin M /\ <<r + h, j>> \notin M
    <3>1. j - c \in 0 .. w - 1 /\ w >= h /\ (j - c) % h = 0 /\ r + 0 = r /\ c + (j - c) = j /\ r \in Int
      BY <1>4, <2>1
    <3>2. Sized(M, r + ((j - c) % h), c + (j - c), h, w)
      BY <3>1 DEF Regular
    <3>3. Sized(M, r, j, h, w)
      BY <3>1, <3>2
    <3>4. r <= r /\ \A a \in Int : ~(r <= a /\ a < r)
      OBVIOUS
    <3> QED BY <3>1, <3>3, <3>4, ColumnFromTop
  <2>2. \A i \in Int : r <= i /\ i < r + h => i = r
    BY <1>4
  <2> QED BY <1>2, <2>1, <2>2 DEF Apart
\* Two rows: where the diagonal meets the second, the first has a position above.
<1>5. CASE h = 2 /\ w >= 2
  <2>1. ASSUME NEW j \in Int, c <= j, j < c + w
        PROVE  <<r + 1, j>> \in M /\ <<r - 1, j>> \notin M /\ <<r + h, j>> \notin M
    <3>1. j - c \in 0 .. w - 1 /\ w >= h /\ c + (j - c) = j
      BY <1>5, <2>1
    <3>2. PICK m : m = (j - c) % h
      OBVIOUS
    <3>3. m = 0 \/ m = 1
      BY <1>5, <3>1, <3>2
    <3>4. Sized(M, r + m, j, h, w)
      <4>1. Sized(M, r + ((j - c) % h), c + (j - c), h, w)
        BY <3>1 DEF Regular
      <4> QED BY <3>1, <3>2, <4>1
    <3>5. r <= r + m /\ r + m \in Int
      BY <3>3
    <3>6. \A a \in Int : r <= a /\ a < r + m => <<a, j>> \in M
      <4>1. \A a \in Int : r <= a /\ a < r + m => a = r
        BY <3>3
      <4>2. <<r, j>> \in M
        BY <1>2, <2>1
      <4> QED BY <4>1, <4>2
    <3>7. /\ \A a \in Int : r <= a /\ a < r + h => <<a, j>> \in M
          /\ <<r - 1, j>> \notin M /\ <<r + h, j>> \notin M
      BY <3>4, <3>5, <3>6, ColumnFromTop
    <3>8. r + 1 \in Int /\ r <= r + 1 /\ r + 1 < r + h
      BY <1>5
    <3> QED BY <3>7, <3>8
  <2>2. <<r + 1, c - 1>> \notin M /\ <<r + 1, c + w>> \notin M
    <3>1. 1 \in 0 .. w - 1 /\ w >= h /\ 1 % h = 1
      BY <1>5
    <3>2. Sized(M, r + 1, c + 1, h, w)
      <4>1. Sized(M, r + (1 % h), c + 1, h, w)
        BY <3>1 DEF Regular
      <4> QED BY <3>1, <4>1
    <3>3. r + 1 \in Int /\ c + 1 \in Int /\ c <= c + 1 /\ c + 1 < c + w
      BY <1>5
    <3> QED BY <2>1, <3>2, <3>3, RowIsAll
  <2>3. \A i \in Int : r <= i /\ i < r + h => i = r \/ i = r + 1
    BY <1>5
  <2> QED BY <1>2, <2>1, <2>2, <2>3 DEF Apart
\* One column: nothing is beside any of its positions.
<1>6. CASE w = 1 /\ h > w
  <2>1. ASSUME NEW i \in Int, r <= i, i < r + h
        PROVE  <<i, c - 1>> \notin M /\ <<i, c + w>> \notin M
    <3>1. i - r \in 0 .. h - 1 /\ (i - r) % w = 0 /\ c + 0 = c /\ r + (i - r) = i /\ c \in Int
      BY <1>6, <2>1
    <3>2. Sized(M, r + (i - r), c + ((i - r) % w), h, w)
      BY <1>6, <3>1 DEF Regular
    <3>3. Sized(M, i, c, h, w)
      BY <3>1, <3>2
    <3>4. c <= c /\ c < c + w
      BY <1>6
    <3>5. \A b \in Int : c <= b /\ b < c + w => <<i, b>> \in M
      <4>1. \A b \in Int : c <= b /\ b < c + w => b = c
        BY <1>6
      <4> QED BY <1>3, <2>1, <4>1
    <3> QED BY <3>1, <3>3, <3>4, <3>5, RowIsAll
  <2>2. \A j \in Int : c <= j /\ j < c + w => j = c
    BY <1>6
  <2> QED BY <1>3, <2>1, <2>2 DEF Apart
\* Two columns: the diagonal meets the second in the second row, below the first.
<1>7. CASE w = 2 /\ h > w
  <2>1. /\ \A a \in Int : r <= a /\ a < r + h => <<a, c + 1>> \in M
        /\ <<r - 1, c + 1>> \notin M /\ <<r + h, c + 1>> \notin M
    <3>1. 1 \in 0 .. h - 1 /\ 1 % w = 1
      BY <1>7
    <3>2. Sized(M, r + 1, c + 1, h, w)
      <4>1. Sized(M, r + 1, c + (1 % w), h, w)
        BY <1>7, <3>1 DEF Regular
      <4> QED BY <3>1, <4>1
    <3>3. r + 1 \in Int /\ c + 1 \in Int /\ r <= r + 1
      OBVIOUS
    <3>4. \A a \in Int : r <= a /\ a < r + 1 => <<a, c + 1>> \in M
      <4>1. \A a \in Int : r <= a /\ a < r + 1 => a = r
        OBVIOUS
      <4>2. c + 1 \in Int /\ c <= c + 1 /\ c + 1 < c + w
        BY <1>7
      <4> QED BY <1>2, <4>1, <4>2
    <3> QED BY <3>2, <3>3, <3>4, ColumnFromTop
  <2>2. \A j \in Int : c <= j /\ j < c + w => j = c \/ j = c + 1
    BY <1>7
  <2>3. ASSUME NEW i \in Int, r <= i, i < r + h
        PROVE  <<i, c - 1>> \notin M /\ <<i, c + w>> \notin M
    <3>1. i - r \in 0 .. h - 1 /\ r + (i - r) = i
      BY <2>3
    <3>2. PICK m : m = (i - r) % w
      OBVIOUS
    <3>3. m = 0 \/ m = 1
      BY <1>7, <3>1, <3>2
    <3>4. Sized(M, i, c + m, h, w)
      <4>1. Sized(M, r + (i - r), c + ((i - r) % w), h, w)
        BY <1>7, <3>1 DEF Regular
      <4> QED BY <3>1, <3>2, <4>1
    <3>5. c + m \in Int /\ c <= c + m /\ c + m < c + w
      BY <1>7, <3>3
    <3>6. \A b \in Int : c <= b /\ b < c + w => <<i, b>> \in M
      BY <1>3, <2>1, <2>2, <2>3
    <3> QED BY <3>4, <3>5, <3>6, RowIsAll
  <2>4. \A i, j \in Int : r <= i /\ i < r + h /\ c <= j /\ j < c + w => <<i, j>> \in M
    BY <1>3, <2>1, <2>2
  <2>5. \A j \in Int : c <= j /\ j < c + w => <<r - 1, j>> \notin M /\ <<r + h, j>> \notin M
    BY <1>3, <2>1, <2>2
  <2> QED BY <2>3, <2>4, <2>5 DEF Apart
<1>8. h = 1 \/ (h = 2 /\ w >= 2) \/ (w = 1 /\ h > w) \/ (w = 2 /\ h > w)
  OBVIOUS
<1> QED BY <1>4, <1>5, <1>6, <1>7, <1>8

\* What touches no other position and hangs together is all there is.
LEMMA ApartIsAll ==
    ASSUME NEW map, NEW S, IsFiniteSet(Positions(map, S)), Positions(map, S) \in SUBSET Position,
           NEW r \in Nat \ {0}, NEW c \in Nat \ {0}, NEW h \in Nat \ {0}, NEW w \in Nat \ {0},
           Apart(Positions(map, S), r, c, h, w), Connected(map, S)
    PROVE  /\ \A i, j \in Int : <<i, j>> \in Positions(map, S) <=>
                                    r <= i /\ i < r + h /\ c <= j /\ j < c + w
           /\ Fills(map, S)
<1> DEFINE M == Positions(map, S)
           R == {y \in M : r <= y[1] /\ y[1] < r + h /\ c <= y[2] /\ y[2] < c + w}
<1>1. \A i, j \in Int : r <= i /\ i < r + h /\ c <= j /\ j < c + w => <<i, j>> \in M
  BY DEF Apart
<1>2. /\ \A j \in Int : c <= j /\ j < c + w => <<r - 1, j>> \notin M /\ <<r + h, j>> \notin M
      /\ \A i \in Int : r <= i /\ i < r + h => <<i, c - 1>> \notin M /\ <<i, c + w>> \notin M
  BY DEF Apart
<1>3. M \in SUBSET Position
  OBVIOUS
<1> HIDE DEF M
<1>4. \A y \in M : y = <<y[1], y[2]>> /\ y[1] \in Int /\ y[2] \in Int /\ y[1] \in Nat /\ y[2] \in Nat
  BY <1>3 DEF Position
<1>5. R # {}
  <2>1. r \in Int /\ c \in Int /\ r <= r /\ r < r + h /\ c <= c /\ c < c + w
    OBVIOUS
  <2>2. <<r, c>> \in M
    BY <1>1, <2>1
  <2>3. <<r, c>>[1] = r /\ <<r, c>>[2] = c
    OBVIOUS
  <2>4. <<r, c>> \in R
    BY <2>1, <2>2, <2>3
  <2> QED BY <2>4
<1>6. ASSUME NEW x \in M, NEW y \in R, Nearby(x, y) \/ Nearby(y, x) PROVE x \in R
  <2>1. /\ x = <<x[1], x[2]>> /\ x[1] \in Int /\ x[2] \in Int
        /\ y[1] \in Int /\ y[2] \in Int /\ r <= y[1] /\ y[1] < r + h /\ c <= y[2] /\ y[2] < c + w
    BY <1>4
  <2>2. PICK i : i = x[1]
    OBVIOUS
  <2>3. PICK j : j = x[2]
    OBVIOUS
  <2>4. PICK a : a = y[1]
    OBVIOUS
  <2>5. PICK b : b = y[2]
    OBVIOUS
  <2>6. /\ i \in Int /\ j \in Int /\ a \in Int /\ b \in Int /\ <<i, j>> \in M
        /\ r <= a /\ a < r + h /\ c <= b /\ b < c + w
    BY <2>1, <2>2, <2>3, <2>4, <2>5
  <2>7. <<i - a, j - b>> \in Directions \/ <<a - i, b - j>> \in Directions
    BY <1>6, <2>2, <2>3, <2>4, <2>5 DEF Nearby
  <2>8. \/ i = a /\ (j = b + 1 \/ j = b - 1)
        \/ j = b /\ (i = a + 1 \/ i = a - 1)
    BY <2>6, <2>7 DEF Directions
  <2>9. ~(i = a /\ (j = c + w \/ j = c - 1))
    BY <1>2, <2>6
  <2>10. ~(j = b /\ (i = r + h \/ i = r - 1))
    BY <1>2, <2>6
  <2>11. r <= i /\ i < r + h /\ c <= j /\ j < c + w
    BY <2>6, <2>8, <2>9, <2>10
  <2> QED BY <2>2, <2>3, <2>11
<1>7. Closed(M, R)
  BY <1>5, <1>6 DEF Closed
<1> HIDE DEF R
<1>8. R = M
  BY <1>7, ConnectedIs DEF M
<1>9. \A i, j \in Int : <<i, j>> \in M <=> r <= i /\ i < r + h /\ c <= j /\ j < c + w
  <2>1. ASSUME NEW i \in Int, NEW j \in Int, <<i, j>> \in M
        PROVE  r <= i /\ i < r + h /\ c <= j /\ j < c + w
    <3>1. <<i, j>> \in R /\ <<i, j>>[1] = i /\ <<i, j>>[2] = j
      BY <1>8, <2>1
    <3> QED BY <3>1 DEF R
  <2> QED BY <1>1, <2>1
<1> DEFINE rows == {x[1] : x \in M}
           columns == {x[2] : x \in M}
<1>10. rows = r .. r + h - 1
  <2>1. ASSUME NEW i \in rows PROVE i \in r .. r + h - 1
    <3>1. PICK x \in M : i = x[1]
      OBVIOUS
    <3>2. x[1] \in Int /\ x[2] \in Int /\ <<x[1], x[2]>> \in M
      BY <1>4
    <3>3. r <= x[1] /\ x[1] < r + h
      BY <1>9, <3>2
    <3> QED BY <3>1, <3>2, <3>3
  <2>2. ASSUME NEW i \in r .. r + h - 1 PROVE i \in rows
    <3>1. i \in Int /\ c \in Int /\ r <= i /\ i < r + h /\ c <= c /\ c < c + w
      OBVIOUS
    <3>2. <<i, c>> \in M /\ <<i, c>>[1] = i
      BY <1>9, <3>1
    <3> QED BY <3>2
  <2> HIDE DEF rows
  <2> QED BY <2>1, <2>2
<1>11. columns = c .. c + w - 1
  <2>1. ASSUME NEW j \in columns PROVE j \in c .. c + w - 1
    <3>1. PICK x \in M : j = x[2]
      OBVIOUS
    <3>2. x[1] \in Int /\ x[2] \in Int /\ <<x[1], x[2]>> \in M
      BY <1>4
    <3>3. c <= x[2] /\ x[2] < c + w
      BY <1>9, <3>2
    <3> QED BY <3>1, <3>2, <3>3
  <2>2. ASSUME NEW j \in c .. c + w - 1 PROVE j \in columns
    <3>1. j \in Int /\ r \in Int /\ r <= r /\ r < r + h /\ c <= j /\ j < c + w
      OBVIOUS
    <3>2. <<r, j>> \in M /\ <<r, j>>[2] = j
      BY <1>9, <3>1
    <3> QED BY <3>2
  <2> HIDE DEF columns
  <2> QED BY <2>1, <2>2
<1> HIDE DEF rows, columns
<1>12. /\ Min(rows) = r /\ Max(rows) = r + h - 1
       /\ Min(columns) = c /\ Max(columns) = c + w - 1
  <2>1. ASSUME NEW a \in Nat \ {0}, NEW n \in Nat \ {0}
        PROVE  Min(a .. a + n - 1) = a /\ Max(a .. a + n - 1) = a + n - 1
    <3> DEFINE I == a .. a + n - 1
    <3>1. I \in SUBSET Nat /\ a \in I /\ a + n - 1 \in I /\ \A x \in I : a <= x /\ x <= a + n - 1
      OBVIOUS
    <3>2. IsFiniteSet(I)
      BY FS_Interval
    <3> HIDE DEF I
    <3>3. Min(I) \in I /\ Max(I) \in I /\ Min(I) <= a /\ a + n - 1 <= Max(I)
      BY <3>1, <3>2, MinOf, MaxOf
    <3>4. Min(I) \in Nat /\ Max(I) \in Nat /\ a <= Min(I) /\ Max(I) <= a + n - 1
      BY <3>1, <3>3
    <3>5. Min(I) = a /\ Max(I) = a + n - 1
      BY <3>3, <3>4
    <3> QED BY <3>5 DEF I
  <2> QED BY <1>10, <1>11, <2>1
<1>13. M = (r .. r + h - 1) \X (c .. c + w - 1)
  <2>1. ASSUME NEW x \in M PROVE x \in (r .. r + h - 1) \X (c .. c + w - 1)
    <3>1. x = <<x[1], x[2]>> /\ x[1] \in Int /\ x[2] \in Int /\ <<x[1], x[2]>> \in M
      BY <1>4
    <3>2. r <= x[1] /\ x[1] < r + h /\ c <= x[2] /\ x[2] < c + w
      BY <1>9, <3>1
    <3>3. x[1] \in r .. r + h - 1 /\ x[2] \in c .. c + w - 1
      BY <3>1, <3>2
    <3> QED BY <3>1, <3>3
  <2>2. ASSUME NEW x \in (r .. r + h - 1) \X (c .. c + w - 1) PROVE x \in M
    <3>1. x = <<x[1], x[2]>> /\ x[1] \in r .. r + h - 1 /\ x[2] \in c .. c + w - 1
      OBVIOUS
    <3>2. x[1] \in Int /\ x[2] \in Int /\ r <= x[1] /\ x[1] < r + h /\ c <= x[2] /\ x[2] < c + w
      BY <3>1
    <3> QED BY <1>9, <3>1, <3>2
  <2> QED BY <2>1, <2>2
<1>14. Fills(map, S)
  BY <1>12, <1>13 DEF Fills, M, rows, columns
<1> QED BY <1>9, <1>14 DEF M

\* Cells that hang together, pass the check and are narrow fill a rectangle.
LEMMA RecognisedFills ==
    ASSUME NEW t \in Tables, NEW map, Laid(map, t), NEW S \in SUBSET Places(t), S # {},
           CheckIsSelectionRectangular(t, map, S), Connected(map, S),
           Min({SelectionGeometry(t, map, S).width, SelectionGeometry(t, map, S).height}) <= 2
    PROVE  Fills(map, S)
<1> DEFINE M == Positions(map, S)
           x == SelectionStart(t, map, S)
           g == SelectionGeometry(t, map, S)
<1>1. IsFiniteSet(M) /\ M \in SUBSET Position
  <2>1. IsMap(map, Places(t))
    BY DEF Laid
  <2> QED BY <2>1, PositionsAre
<1>2. PICK r \in Nat \ {0}, c \in Nat \ {0} : x = <<r, c>> /\ x[1] = r /\ x[2] = c /\ <<r, c>> \in M
  <2>1. x \in M /\ x = <<x[1], x[2]>> /\ x[1] \in Nat \ {0} /\ x[2] \in Nat \ {0}
    BY StartIs
  <2> HIDE DEF M, x
  <2> QED BY <2>1
<1>3. BeginsAt(M, r, c)
  <2>1. ASSUME NEW a \in Int, NEW b \in Int, <<a, b>> \in M PROVE r <= a /\ (a = r => c <= b)
    <3>1. x[1] <= <<a, b>>[1] /\ (<<a, b>>[1] = x[1] => x[2] <= <<a, b>>[2])
      BY <2>1, StartIsCorner
    <3>2. <<a, b>>[1] = a /\ <<a, b>>[2] = b
      OBVIOUS
    <3> HIDE DEF x
    <3> QED BY <1>2, <3>1, <3>2
  <2> QED BY <1>2, <2>1 DEF BeginsAt
<1>4. g = MarkerGeometry(map, <<r, c>>, S)
  BY <1>2 DEF SelectionGeometry
<1>5. r \in Int /\ c \in Int
  OBVIOUS
<1>6. PICK u, d, l, e :
              /\ Run(Upright(M, c), r, u, d)
              /\ Run(Across(M, r), c, l, e)
              /\ g.height = u + d
              /\ g.y = u
              /\ g.width = l + e
              /\ g.x = l
  BY <1>1, <1>4, <1>5, GeometryIs
<1>7. CheckIsSelectionRectangular(t, map, S) /\ Min({g.width, g.height}) <= 2
  OBVIOUS
<1> HIDE DEF g, M
<1>8. u = 0 /\ l = 0
  <2>1. r - 1 \notin Upright(M, c) /\ c - 1 \notin Across(M, r)
    <3>1. r - 1 \in Int /\ ~(r <= r - 1) /\ c - 1 \in Int /\ ~(c <= c - 1)
      OBVIOUS
    <3> QED BY <1>3, <1>5, <3>1 DEF BeginsAt, Upright, Across
  <2>2. /\ \A a \in Int : r <= a /\ a < r => a \in Upright(M, c)
        /\ \A a \in Int : c <= a /\ a < c => a \in Across(M, r)
    OBVIOUS
  <2>3. u = r - r
    BY <1>5, <1>6, <2>1, <2>2, RunFrom
  <2>4. l = c - c
    BY <1>5, <1>6, <2>1, <2>2, RunFrom
  <2> QED BY <2>3, <2>4
<1>9. d \in Nat \ {0} /\ e \in Nat \ {0}
  <2>1. d \in Nat /\ e \in Nat /\ r + d \notin Upright(M, c) /\ c + e \notin Across(M, r)
    BY <1>6 DEF Run
  <2>2. r \in Upright(M, c) /\ c \in Across(M, r)
    BY <1>2 DEF Upright, Across
  <2>3. r + 0 = r /\ c + 0 = c
    OBVIOUS
  <2> QED BY <2>1, <2>2, <2>3
<1>10. g.height = d /\ g.width = e /\ g.x = 0 /\ g.y = 0
  BY <1>6, <1>8, <1>9
<1>11. d <= 2 \/ e <= 2
  <2>1. {e, d} \in SUBSET Nat /\ {e, d} # {}
    BY <1>9
  <2>2. Min({e, d}) \in {e, d}
    BY <2>1, MinOf
  <2>3. Min({e, d}) <= 2
    BY <1>7, <1>10
  <2> QED BY <2>2, <2>3
<1>12. Max({e, d}) \in Nat /\ d <= Max({e, d}) /\ e <= Max({e, d})
  <2>1. {e, d} \in SUBSET Nat /\ {e, d} # {} /\ IsFiniteSet({e, d})
    <3>1. IsFiniteSet({e})
      BY FS_Singleton
    <3>2. {e, d} = {e} \cup {d}
      OBVIOUS
    <3> QED BY <1>9, <3>1, <3>2, FS_AddElement
  <2>2. Max({e, d}) \in {e, d} /\ \A y \in {e, d} : y <= Max({e, d})
    BY <2>1, MaxOf
  <2> QED BY <1>9, <2>2
<1> DEFINE Spot(k) == IF e >= d THEN <<r - 0 + (k % d), c - 0 + k>>
                                ELSE <<r - 0 + k, c - 0 + (k % e)>>
<1>13. ASSUME NEW k \in 0 .. Max({e, d}) - 1
       PROVE  /\ MarkerGeometry(map, Spot(k), S).width = e
              /\ MarkerGeometry(map, Spot(k), S).height = d
  <2>1. LET Diagonal(n) == IF g.width >= g.height
                THEN <<x[1] - g.y + (n % g.height), x[2] - g.x + n>>
                ELSE <<x[1] - g.y + n, x[2] - g.x + (n % g.width)>>
            Size(y) == LET h == MarkerGeometry(map, y, S) IN <<h.width, h.height>>
        IN \A n \in 0 .. Max({g.width, g.height}) - 1 :
              Diagonal(n) \in DOMAIN map /\ Size(Diagonal(n)) = Size(x)
    BY <1>7 DEF CheckIsSelectionRectangular, g
  <2>2. MarkerGeometry(map, x, S).width = e /\ MarkerGeometry(map, x, S).height = d
    BY <1>2, <1>4, <1>10
  <2> HIDE DEF x
  <2>3. \A n \in 0 .. Max({e, d}) - 1 :
            << MarkerGeometry(map, Spot(n), S).width, MarkerGeometry(map, Spot(n), S).height >>
            = << MarkerGeometry(map, x, S).width, MarkerGeometry(map, x, S).height >>
    BY <1>2, <1>10, <2>1
  <2> HIDE DEF Spot
  <2>4. << MarkerGeometry(map, Spot(k), S).width, MarkerGeometry(map, Spot(k), S).height >> = <<e, d>>
    BY <2>2, <2>3
  <2> QED BY <2>4
<1>14. ASSUME NEW i \in Int, NEW j \in Int,
              MarkerGeometry(map, <<i, j>>, S).width = e, MarkerGeometry(map, <<i, j>>, S).height = d
       PROVE  Sized(M, i, j, d, e)
  BY <1>1, <1>14, GeometryIs DEF Sized, M
<1> HIDE DEF x
<1>15. Regular(M, r, c, d, e)
  <2>1. ASSUME e >= d, NEW k \in 0 .. e - 1 PROVE Sized(M, r + (k % d), c + k, d, e)
    <3>1. k \in 0 .. Max({e, d}) - 1
      BY <1>9, <1>12
    <3>2. Spot(k) = <<r + (k % d), c + k>>
      <4>1. r - 0 = r /\ c - 0 = c
        OBVIOUS
      <4> QED BY <2>1, <4>1
    <3>3. r + (k % d) \in Int /\ c + k \in Int
      BY <1>9
    <3> HIDE DEF Spot
    <3> QED BY <1>13, <1>14, <3>1, <3>2, <3>3
  <2>2. ASSUME d > e, NEW k \in 0 .. d - 1 PROVE Sized(M, r + k, c + (k % e), d, e)
    <3>1. k \in 0 .. Max({e, d}) - 1
      BY <1>9, <1>12
    <3>2. Spot(k) = <<r + k, c + (k % e)>>
      <4>1. r - 0 = r /\ c - 0 = c /\ ~(e >= d)
        BY <1>9, <2>2
      <4> QED BY <4>1
    <3>3. r + k \in Int /\ c + (k % e) \in Int
      BY <1>9
    <3> HIDE DEF Spot
    <3> QED BY <1>13, <1>14, <3>1, <3>2, <3>3
  <2> QED BY <2>1, <2>2 DEF Regular
<1>16. Apart(M, r, c, d, e)
  BY <1>3, <1>9, <1>11, <1>15, NarrowIsApart
<1> QED BY <1>1, <1>9, <1>16, ApartIsAll DEF M

\* Cells that fill a rectangle are offered for merging; others that hang together are not, unless
\* the row and the column through the first of them are both longer than two.
THEOREM RectanglesAreRecognised == TableSafety => []RectangleRecognised
<1>1. TextInvariant => RectangleRecognised
  <2> SUFFICES ASSUME TextInvariant PROVE RectangleRecognised
    OBVIOUS
  <2>1. table \in Tables
    BY DEF TextInvariant, TextIs
  <2> DEFINE map == CreateTableMap(table)
  <2>2. Laid(map, table)
    BY <2>1, CreateTableMapLays
  <2>3. ASSUME NEW S \in Selections
        PROVE  LET recognised == CheckIsSelectionRectangular(table, map, S)
                   g == SelectionGeometry(table, map, S)
               IN /\ Fills(map, S) => recognised
                  /\ recognised /\ Min({g.width, g.height}) <= 2 /\ Connected(map, S) => Fills(map, S)
    <3>1. S \in SUBSET Places(table) /\ S # {}
      BY DEF Selections
    <3> HIDE DEF map
    <3>2. Fills(map, S) => CheckIsSelectionRectangular(table, map, S)
      BY <2>1, <2>2, <3>1, FilledArea
    <3>3. /\ CheckIsSelectionRectangular(table, map, S)
          /\ Min({SelectionGeometry(table, map, S).width, SelectionGeometry(table, map, S).height}) <= 2
          /\ Connected(map, S)
          => Fills(map, S)
      BY <2>1, <2>2, <3>1, RecognisedFills
    <3> QED BY <3>2, <3>3
  <2> QED BY <2>3 DEF RectangleRecognised
<1> QED BY <1>1, TextAlways, PTL
============================================================================
