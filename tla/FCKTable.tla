------------------------------ MODULE FCKTable ------------------------------
(***************************************************************************)
(* The table commands of the HTML editor (fcktablehandler.js).  The merge  *)
(* and split commands make a map of the table, in which every cell stands  *)
(* at each position it spans, change the map and install it as the table   *)
(* again; the others work on the rows and ignore the spans.                *)
(*                                                                         *)
(* A table is a sequence of rows of cells.  A cell is named by its place   *)
(* in the table a command began with, a cell made by the command by NewId. *)
(* The text of a cell is a set of nodes: text nodes, and elements with     *)
(* text.  The line breaks a merge inserts are left out.                    *)
(***************************************************************************)
EXTENDS Integers, FiniteSets, SequencesExt

CONSTANTS
    FirstTables, \* tables of the document: rows of the spans <<columns, rows>> of cells
    Enclosed,    \* nodes that are elements without the mark _moz_dirty of the browser
    MaxCells,    \* bound: cells of a table, if a command adds some
    MaxCommands  \* bound: commands, for each of the first tables

ASSUME TableAssumption ==
    /\ FirstTables \subseteq Seq(Seq((Nat \ {0}) \X (Nat \ {0}))) \ {<<>>}
    /\ FirstTables # {}
    /\ Enclosed \subseteq Nat \X Nat
    /\ MaxCells \in Nat
    /\ MaxCommands \in [FirstTables -> Nat]

VARIABLES
    table,     \* <<>> when it was deleted, or lost
    commands,  \* bound: commands that are left
    due,       \* history: the nodes nobody asked to delete, and no merge left out
    crude,     \* history: a command that ignores spans met some
    ragged     \* history: such cells were merged as fill no rectangle, or a map was
               \* installed that has holes or covered positions

tableVars == <<table, commands, due, crude, ragged>>

----------------------------------------------------------------------------

TableCell(cs, rs, text) == [colSpan |-> cs, rowSpan |-> rs, text |-> text]
EmptyCell == TableCell(1, 1, {})
NewId(k) == <<0, k>>

Place == Nat \X Nat

TableTypeOK ==
    /\ \A i \in DOMAIN table : \A j \in DOMAIN table[i] :
            table[i][j] \in [colSpan : Nat \ {0}, rowSpan : Nat \ {0}, text : SUBSET Place]
    /\ commands \in Nat
    /\ due \subseteq Place
    /\ {crude, ragged} \subseteq BOOLEAN

\* Row by row, and from the left to the right in a row.
Precedes(x, y) == x[1] < y[1] \/ (x[1] = y[1] /\ x[2] < y[2])
InOrder(S) ==
    LET before == [x \in S |-> Cardinality({y \in S : Precedes(y, x)})]
    IN [k \in 1 .. Cardinality(S) |-> CHOOSE x \in S : before[x] = k - 1]

Places(t) == UNION {{i} \X DOMAIN t[i] : i \in DOMAIN t}
CellAt(t, p) == t[p[1]][p[2]]
CellsText(t, S) == UNION {CellAt(t, p).text : p \in S}
AllText(t) == UNION {CellAt(t, p).text : p \in Places(t)}
HasSpans(t) == \E p \in Places(t) : CellAt(t, p).colSpan > 1 \/ CellAt(t, p).rowSpan > 1

\* A table with these spans, and a node with text in each cell.
TableOf(spans) ==
    [i \in DOMAIN spans |-> [j \in DOMAIN spans[i] |->
        TableCell(spans[i][j][1], spans[i][j][2], {<<i, j>>})]]

TableInit ==
    /\ \E spans \in FirstTables : table = TableOf(spans) /\ commands = MaxCommands[spans]
    /\ due = AllText(table)
    /\ crude = FALSE
    /\ ragged = FALSE

\* A document without a table.
NoTable ==
    /\ table = <<>>
    /\ commands = 0
    /\ due = {}
    /\ crude = FALSE
    /\ ragged = FALSE

----------------------------------------------------------------------------
(* The map: a function from positions to cells, without the holes. *)

FirstFree(map, r) ==
    CHOOSE c \in 1 .. Cardinality(DOMAIN map) + 1 :
        <<r, c>> \notin DOMAIN map /\ \A d \in 1 .. c - 1 : <<r, d>> \in DOMAIN map

\* f, and g where f is not defined.  (The choice from one function makes TLC compute
\* it here, and not at every use.)
Over(f, g) ==
    CHOOSE h \in {[x \in DOMAIN f \cup DOMAIN g |-> IF x \in DOMAIN f THEN f[x] ELSE g[x]]} : h = h

Block(r, c, height, width) == (r .. r + height - 1) \X (c .. c + width - 1)

\* A cell goes to the first free column of its row, and over whatever its
\* spans meet from there.
CreateTableMap(t) ==
    LET cells == InOrder(Places(t))
        map[n \in 0 .. Len(cells)] ==
            IF n = 0 THEN <<>>
            ELSE LET p == cells[n]
                     cell == CellAt(t, p)
                     before == map[n - 1]
                     block == Block(p[1], FirstFree(before, p[1]), cell.rowSpan, cell.colSpan)
                 IN Over([x \in block |-> p], before)
    IN map[Len(cells)]

Positions(map, S) == {x \in DOMAIN map : map[x] \in S}
RowEnd(map, r) == Max({0} \cup {x[2] : x \in {y \in DOMAIN map : y[1] = r}})
MapRows(map, t) == Max({Len(t)} \cup {x[1] : x \in DOMAIN map})
HasHole(map) == \E x \in DOMAIN map : \E c \in 1 .. x[2] : <<x[1], c>> \notin DOMAIN map

\* Nothing covers a position that a cell spans.
Whole(t, map) ==
    \A p \in Places(t) :
        Cardinality(Positions(map, {p})) = CellAt(t, p).colSpan * CellAt(t, p).rowSpan

Tiled(t, map) == Whole(t, map) /\ ~HasHole(map)

\* Every position of the rows and columns belongs to a cell, and to one only.
FullGrid(t) ==
    LET map == CreateTableMap(t)
    IN DOMAIN map = (1 .. Len(t)) \X (1 .. RowEnd(map, 1)) /\ Whole(t, map)

ASSUME FirstTablesAssumption == \A spans \in FirstTables : FullGrid(TableOf(spans))

\* The cells fill a rectangle of the map.
Fills(map, S) ==
    LET M == Positions(map, S)
        R == {x[1] : x \in M}
        C == {x[2] : x \in M}
    IN M = (Min(R) .. Max(R)) \X (Min(C) .. Max(C))

\* _GetCellIndexSpan: the first column of a cell in its row.
CellColumn(map, p) == Min({x[2] : x \in {y \in Positions(map, {p}) : y[1] = p[1]}})

\* Marked positions in a row from x on, to the right, left, down or up.
RunLength(M, x, dr, dc) ==
    Cardinality({k \in 1 .. Cardinality(M) :
        \A l \in 0 .. k - 1 : <<x[1] + l * dr, x[2] + l * dc>> \in M})

\* _GetMarkerGeometry
MarkerGeometry(map, x, S) ==
    LET M == Positions(map, S)
        left == RunLength(M, <<x[1], x[2] - 1>>, 0, -1)
        up == RunLength(M, <<x[1] - 1, x[2]>>, -1, 0)
    IN [width |-> left + RunLength(M, x, 0, 1), height |-> up + RunLength(M, x, 1, 0),
        x |-> left, y |-> up]

\* Where both the check and the merge begin, and the row and column through it.
SelectionStart(t, map, S) ==
    LET first == InOrder(S)[1]
    IN <<first[1], CellColumn(map, first)>>
SelectionGeometry(t, map, S) == MarkerGeometry(map, SelectionStart(t, map, S), S)

\* Mutant: the first row and the first column decide.
MutCheckIsSelectionRectangular(t, map, S) ==
    LET g == SelectionGeometry(t, map, S)
    IN Cardinality(Positions(map, S)) >= g.width * g.height

\* The row and the column through each position of a diagonal must be as long
\* as those through the first cell; where they begin is not compared.
CheckIsSelectionRectangular(t, map, S) ==
    LET start == SelectionStart(t, map, S)
        g == SelectionGeometry(t, map, S)
        Diagonal(k) == IF g.width >= g.height
            THEN <<start[1] - g.y + (k % g.height), start[2] - g.x + k>>
            ELSE <<start[1] - g.y + k, start[2] - g.x + (k % g.width)>>
        Size(x) == LET h == MarkerGeometry(map, x, S) IN <<h.width, h.height>>
    IN \A k \in 0 .. Max({g.width, g.height}) - 1 :
            Diagonal(k) \in DOMAIN map /\ Size(Diagonal(k)) = Size(start)

----------------------------------------------------------------------------
(* _InstallTableMap *)

\* The spans are the lengths of the first run in a row, and in a column.
ColSpan(map, p) ==
    LET M == Positions(map, {p})
        r == Min({x[1] : x \in M})
    IN RunLength(M, <<r, Min({x[2] : x \in {y \in M : y[1] = r}})>>, 0, 1)

RowSpan(map, p) ==
    LET M == Positions(map, {p})
        c == Min({x[2] : x \in M})
    IN RunLength(M, <<Min({x[1] : x \in {y \in M : y[2] = c}}), c>>, 1, 0)

\* The columns a loop comes to that begins with the first and goes on by width.
Columns(last, width) ==
    LET come[c \in 0 .. last] ==
            IF c = 0 THEN {1}
            ELSE come[c - 1] \cup (IF c \in come[c - 1] THEN {c + width[c]} ELSE {})
    IN come[last]

\* Where cells are appended to a row: the scan steps over each by its colSpan, and
\* leaves out what stands in the row above as well.
AppendedColumns(map, r) ==
    LET width == [c \in 1 .. RowEnd(map, r) |-> ColSpan(map, map[<<r, c>>])]
    IN {c \in Columns(RowEnd(map, r), width) :
            /\ c <= RowEnd(map, r)
            /\ ~ (<<r - 1, c>> \in DOMAIN map /\ map[<<r - 1, c>>] = map[<<r, c>>])}

\* A hole throws when the rows have already been taken out: the table is lost.
\* A cell that is appended twice stays where it was appended last.
InstallTableMap(map, n, text) ==
    LET appended == UNION {{r} \X AppendedColumns(map, r) : r \in 1 .. n}
        stay == {x \in appended : \A y \in appended : Precedes(x, y) => map[x] # map[y]}
        Cell(p) == TableCell(ColSpan(map, p), RowSpan(map, p), text[p])
    IN IF HasHole(map) THEN <<>>
       ELSE [r \in 1 .. n |->
                LET row == InOrder({x \in stay : x[1] = r})
                IN [k \in DOMAIN row |-> Cell(map[row[k]])]]

----------------------------------------------------------------------------
(* Merging and splitting *)

\* Mutant: the text of the other cells is forgotten.
MutMergedText(t, ref, taken) == CellAt(t, ref).text

MergedText(t, ref, taken) == CellsText(t, taken)

\* The cells of S become one, the cell ref, into which the text of those in taken
\* is moved, but for what is lost on the way.
MergeInto(t, map, S, ref, taken, lost) ==
    LET merged == Over([x \in Positions(map, S) |-> ref], map)
        text == [p \in Range(merged) |->
                    IF p = ref THEN MergedText(t, ref, taken) \ lost
                    ELSE IF p \in taken THEN {} ELSE CellAt(t, p).text]
    IN InstallTableMap(merged, MapRows(map, t), text)

Emptied(t, S) ==
    [i \in DOMAIN t |-> [j \in DOMAIN t[i] |->
        IF <<i, j>> \in S THEN [t[i][j] EXCEPT !.text = {}] ELSE t[i][j]]]

\* The text comes from the rectangle around the first cell, selected or not, and no
\* element goes with it that does not bear the mark; all that is selected is
\* replaced by this cell.  A position without a cell throws when the cells before
\* it have been emptied.
MergeCells(t, map, S) ==
    LET start == SelectionStart(t, map, S)
        g == SelectionGeometry(t, map, S)
        area == Block(start[1] - g.y, start[2] - g.x, g.height, g.width)
        reached == {x \in area : \A y \in area \ DOMAIN map : Precedes(x, y)}
        taken == {map[x] : x \in reached}
    IN IF area \subseteq DOMAIN map THEN MergeInto(t, map, S, InOrder(S)[1], taken, Enclosed)
       ELSE Emptied(t, taken)

NoTarget == <<>>

\* GetMergeRightTarget: the next cell, if it is as high.
MergeRightTarget(t, map, ref) ==
    LET start == <<ref[1], CellColumn(map, ref)>>
        next == <<start[1], start[2] + CellAt(t, ref).colSpan>>
        Geometry(x) == MarkerGeometry(map, x, {ref, map[next]})
    IN IF /\ next \in DOMAIN map
          /\ Geometry(start).height = Geometry(next).height
          /\ Geometry(start).y = Geometry(next).y
       THEN map[next] ELSE NoTarget

\* GetMergeDownTarget: the cell below, if it is as wide.
MergeDownTarget(t, map, ref) ==
    LET start == <<ref[1], CellColumn(map, ref)>>
        next == <<start[1] + CellAt(t, ref).rowSpan, start[2]>>
        Geometry(x) == MarkerGeometry(map, x, {ref, map[next]})
    IN IF /\ next \in DOMAIN map
          /\ Geometry(start).width = Geometry(next).width
          /\ Geometry(start).x = Geometry(next).x
       THEN map[next] ELSE NoTarget

Half(n) == (n + 1) \div 2

\* A cell of one column gets a new cell beside it in each of its rows, and the
\* other cells of its column become wider; a wider one gives half its columns
\* to one new cell.
HorizontalSplitCell(t, map, ref) ==
    LET col == CellColumn(map, ref)
        span == CellAt(t, ref).colSpan
        given == Block(ref[1], col + Half(span), CellAt(t, ref).rowSpan, span - Half(span))
        wider == Over([x \in given |-> NewId(0)], map)
        old == [x \in {y \in DOMAIN map : y[2] <= col} |-> map[x]]
        moved == [x \in {<<y[1], y[2] + 1>> : y \in {z \in DOMAIN map : z[2] >= col}} |->
                    IF x[2] = col + 1 /\ map[<<x[1], col>>] = ref THEN NewId(x[1])
                    ELSE map[<<x[1], x[2] - 1>>]]
        longer == Over(old, moved)
        split == IF span > 1 THEN wider ELSE longer
        text == [p \in Range(split) |-> IF p[1] = 0 THEN {} ELSE CellAt(t, p).text]
    IN InstallTableMap(split, MapRows(map, t), text)

\* A cell of several rows gives the lower half of them to a new cell, which is
\* one column wide and goes before the next cell of that row.
SplitRows(t, map, ref) ==
    LET span == CellAt(t, ref).rowSpan
        row == ref[1] + Half(span)
        shorter == [t EXCEPT ![ref[1]][ref[2]].rowSpan = Half(span)]
        later == {c \in CellColumn(map, ref) + 1 .. RowEnd(map, row) :
                    <<row, c>> \in DOMAIN map => map[<<row, c>>][1] = row}
        new == TableCell(1, span - Half(span), {})
    IN IF row > Len(t) \/ (later # {} /\ <<row, Min(later)>> \notin DOMAIN map)
       THEN shorter \* throws
       ELSE [shorter EXCEPT ![row] =
                InsertAt(@, IF later = {} THEN Len(@) + 1 ELSE map[<<row, Min(later)>>][2], new)]

\* The columns a loop over the cells of a row comes to, up to the end of the row
\* or a hole.
VisitedColumns(t, map, r) ==
    LET width == [c \in 1 .. RowEnd(map, r) |->
                    IF <<r, c>> \in DOMAIN map THEN CellAt(t, map[<<r, c>>]).colSpan ELSE 0]
    IN Columns(RowEnd(map, r), width)

\* Mutant: the cells that cross the row keep their height.
MutCrossingRow(t, map, ref) == {}

\* The other cells that cross the row of a cell.
CrossingRow(t, map, ref) ==
    {map[<<ref[1], c>>] : c \in {d \in VisitedColumns(t, map, ref[1]) :
                                    d # CellColumn(map, ref) /\ <<ref[1], d>> \in DOMAIN map}}

\* A cell of one row gets a new row with one new cell below it, and the other
\* cells of its row become higher.
SplitRow(t, map, ref) ==
    LET r == ref[1]
        higher == CrossingRow(t, map, ref)
        grown == [i \in DOMAIN t |-> [j \in DOMAIN t[i] |->
                    IF <<i, j>> \in higher THEN [t[i][j] EXCEPT !.rowSpan = @ + 1] ELSE t[i][j]]]
        holes == Max(VisitedColumns(t, map, r)) <= RowEnd(map, r)
    IN InsertAt(grown, r + 1, IF holes THEN <<>> ELSE <<EmptyCell>>) \* a hole throws

VerticalSplitCell(t, map, ref) ==
    IF CellAt(t, ref).rowSpan > 1 THEN SplitRows(t, map, ref) ELSE SplitRow(t, map, ref)

----------------------------------------------------------------------------
(* The commands on rows, columns and cells *)

Without(t, S) ==
    [i \in DOMAIN t |->
        LET keep == InOrder({p \in Places(t) : p[1] = i /\ p \notin S})
        IN [k \in DOMAIN keep |-> CellAt(t, keep[k])]]

Cleared(row) == [j \in DOMAIN row |-> [row[j] EXCEPT !.text = {}]]

\* The row is copied with its spans, and the copy or the original cleared.
InsertRow(t, r, before) ==
    [InsertAt(t, r, t[r]) EXCEPT ![IF before THEN r ELSE r + 1] = Cleared(@)]

\* The table goes with its last row.
WithoutRows(t, rows) ==
    LET keep == InOrder((DOMAIN t \ rows) \X {0})
    IN [k \in DOMAIN keep |-> t[keep[k][1]]]

DeleteRows(t, S) == WithoutRows(t, {p[1] : p \in S})

\* Each row that has as many cells gets a copy of the cell with this index, not
\* of the one in this column.
InsertColumn(t, p, before) ==
    [i \in DOMAIN t |->
        IF Len(t[i]) < p[2] THEN t[i]
        ELSE InsertAt(t[i], IF before THEN p[2] ELSE p[2] + 1, [t[i][p[2]] EXCEPT !.text = {}])]

InsertCell(t, p, before) ==
    [t EXCEPT ![p[1]] = InsertAt(@, IF before THEN p[2] ELSE p[2] + 1, EmptyCell)]

\* A row goes with its last cell.
DeleteCells(t, S) ==
    LET emptied == {i \in DOMAIN t : t[i] # <<>> /\ Without(t, S)[i] = <<>>}
    IN WithoutRows(Without(t, S), emptied)

\* From the last selected cell to the first, the cell with its index is taken
\* out of each row.  A cell that is gone by then ends this with an error.
DeleteColumns(t, S) ==
    LET order == Reverse(InOrder(S))
        \* the places of the cells that are left in each row after n of them
        left[n \in 0 .. Len(order)] ==
            IF n = 0
            THEN [failed |-> FALSE, rows |-> [i \in DOMAIN t |-> [j \in DOMAIN t[i] |-> <<i, j>>]]]
            ELSE LET acc == left[n - 1]
                     p == order[n]
                     row == acc.rows[p[1]]
                     index == CHOOSE j \in DOMAIN row : row[j] = p
                 IN IF acc.failed \/ p \notin Range(row) THEN [acc EXCEPT !.failed = TRUE]
                    ELSE [acc EXCEPT !.rows = [i \in DOMAIN t |->
                            IF index <= Len(acc.rows[i]) THEN RemoveAt(acc.rows[i], index)
                            ELSE acc.rows[i]]]
        rows == left[Len(order)].rows
    IN DeleteCells(t, Places(t) \ UNION {Range(rows[i]) : i \in DOMAIN t})

----------------------------------------------------------------------------
(* FCKTableCommand.Execute; GetState enables the commands. *)

Command(after) ==
    /\ Cardinality(Places(after)) <= Max({MaxCells, Cardinality(Places(table))})
    /\ table' = after
    /\ commands' = commands - 1

Crude(met) == crude' = (crude \/ met)
Ragged(met) == ragged' = (ragged \/ met)
NothingToDelete == due' = due
Deleted == due' = due \cap AllText(table')

TableMergeCells(map, S) ==
    /\ Cardinality(S) > 1
    /\ CheckIsSelectionRectangular(table, map, S)
    /\ Command(MergeCells(table, map, S))
    /\ Ragged(~Tiled(table, map) \/ ~Fills(map, S))
    /\ Crude(~Fills(map, S))
    /\ due' = due \ (Enclosed \cap CellsText(table, S))

TableMerge(map, ref, target) ==
    /\ target # NoTarget
    /\ Command(MergeInto(table, map, {ref, target}, ref, {ref, target}, {}))
    /\ Ragged(~Tiled(table, map))
    /\ Crude(FALSE)
    /\ NothingToDelete

TableMergeRight(map, ref) == TableMerge(map, ref, MergeRightTarget(table, map, ref))
TableMergeDown(map, ref) == TableMerge(map, ref, MergeDownTarget(table, map, ref))

TableHorizontalSplitCell(map, ref) ==
    /\ Command(HorizontalSplitCell(table, map, ref))
    /\ Ragged(~Tiled(table, map))
    /\ Crude(FALSE)
    /\ NothingToDelete

TableVerticalSplitCell(map, ref) ==
    /\ Command(VerticalSplitCell(table, map, ref))
    /\ Crude(CellAt(table, ref).colSpan > 1)
    /\ NothingToDelete
    /\ UNCHANGED ragged

TableInsertRow(ref, before) ==
    /\ Command(InsertRow(table, ref[1], before))
    /\ Crude(HasSpans(table))
    /\ NothingToDelete
    /\ UNCHANGED ragged

TableInsertColumn(ref, before) ==
    /\ Command(InsertColumn(table, ref, before))
    /\ Crude(HasSpans(table))
    /\ NothingToDelete
    /\ UNCHANGED ragged

TableInsertCell(ref, before) ==
    /\ Command(InsertCell(table, ref, before))
    /\ Crude(TRUE)
    /\ NothingToDelete
    /\ UNCHANGED ragged

TableDeleteRows(S) ==
    /\ Command(DeleteRows(table, S))
    /\ Crude(HasSpans(table))
    /\ Deleted
    /\ UNCHANGED ragged

TableDeleteColumns(S) ==
    /\ Command(DeleteColumns(table, S))
    /\ Crude(HasSpans(table))
    /\ Deleted
    /\ UNCHANGED ragged

TableDeleteCells(S) ==
    /\ Command(DeleteCells(table, S))
    /\ Crude(TRUE)
    /\ Deleted
    /\ UNCHANGED ragged

TableDelete ==
    /\ table # <<>>
    /\ Command(<<>>)
    /\ Crude(FALSE)
    /\ Deleted
    /\ UNCHANGED ragged

Selections == (SUBSET Places(table)) \ {{}}

\* What a command with one cell sees of a selection is its first or last cell.
TableNext ==
    /\ commands > 0
    /\ \/ TableDelete
       \/ \E S \in Selections : TableDeleteRows(S) \/ TableDeleteColumns(S) \/ TableDeleteCells(S)
       \/ \E ref \in Places(table), before \in BOOLEAN :
            \/ TableInsertRow(ref, before) \/ TableInsertColumn(ref, before)
            \/ TableInsertCell(ref, before)
       \/ \E map \in {CreateTableMap(table)} :
            \/ \E S \in Selections : TableMergeCells(map, S)
            \/ \E ref \in Places(table) :
                \/ TableMergeRight(map, ref) \/ TableMergeDown(map, ref)
                \/ TableHorizontalSplitCell(map, ref) \/ TableVerticalSplitCell(map, ref)

TableSpec == TableInit /\ [][TableNext]_tableVars

----------------------------------------------------------------------------
(* Properties *)

\* The cells hang together.
Connected(map, S) ==
    LET M == Positions(map, S)
        Near(x, y) == <<x[1] - y[1], x[2] - y[2]>> \in {<<0, 1>>, <<0, -1>>, <<1, 0>>, <<-1, 0>>}
        reached[k \in 1 .. Cardinality(M)] ==
            IF k = 1 THEN {CHOOSE x \in M : TRUE}
            ELSE LET inner == reached[k - 1]
                 IN inner \cup {x \in M : \E y \in inner : Near(x, y)}
    IN reached[Cardinality(M)] = M

\* Cells that fill a rectangle are always offered for merging.  Others are not, if
\* they hang together and the row or the column through the first of them is at
\* most two cells long (CheckIsSelectionRectangular).
RectangleRecognised ==
    LET map == CreateTableMap(table)
    IN \A S \in Selections :
        LET recognised == CheckIsSelectionRectangular(table, map, S)
            g == SelectionGeometry(table, map, S)
        IN /\ Fills(map, S) => recognised
           /\ recognised /\ Min({g.width, g.height}) <= 2 /\ Connected(map, S) => Fills(map, S)

\* "If every row and column in an area on a plane are of the same width and height,
\* then the area is a rectangle": the comment of CheckIsSelectionRectangular, here
\* for cells that hang together.  The code looks at a diagonal only.
SelectedIsRectangle ==
    LET map == CreateTableMap(table)
    IN \A S \in Selections :
        Connected(map, S) /\ CheckIsSelectionRectangular(table, map, S) => Fills(map, S)

\* A table without holes and overlaps stays one, whatever is merged and split:
\* the commands that ignore spans must have met some, a cell of several columns
\* have been split vertically, or cells been merged that fill no rectangle, before
\* a row has too few or too many.
GridKept == ~crude /\ table # <<>> => FullGrid(table)

\* No text is lost but by a deletion, and what MergeCells leaves out: the elements
\* without the mark in the cells that were selected, the first of them included,
\* and nothing of any other cell.  Else cells that fill no rectangle must have been
\* merged, or a map with holes or covered positions been installed.  No command puts
\* a text into two cells.
TextKept ==
    /\ ~ragged => AllText(table) = due
    /\ \A p, q \in Places(table) :
        p # q => CellAt(table, p).text \cap CellAt(table, q).text = {}
============================================================================
