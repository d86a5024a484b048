--------------------------- MODULE DashboardGrid ----------------------------
(***************************************************************************)
(* The dashboard's widget grid (src/src/ui/dashboard_grid.cpp) and the     *)
(* packing under it (src/src/ui/grid_occupancy.h): AddWidget() normalises  *)
(* the footprint a widget asks for, scans for the first place that takes   *)
(* it, marks the cells, grows the row template and gives LVGL the cell.    *)
(* The scan is a loop on the UI thread; each of its turns is a step here.  *)
(* Rows and columns count from 0 as in the code, so row r of occupancy_ is *)
(* occupancy[r + 1].                                                       *)
(***************************************************************************)
EXTENDS Integers, Sequences

CONSTANTS Columns,        \* DashboardGrid::kColumns
          kMaxRowSpan,    \* the tallest footprint taken as it is
          AskedSpans,     \* what ColumnSpan() and RowSpan() may return
          MaxWidgets      \* bound: widgets added to one grid

ASSUME GridAssumption ==
    /\ Columns \in Nat \ {0} /\ kMaxRowSpan \in Nat \ {0}
    /\ AskedSpans \subseteq Int /\ MaxWidgets \in Nat

VARIABLES occupancy,      \* occupancy_: the taken columns of each declared row
          row_dsc,        \* row_dsc_: the entries of the row template
          template,       \* the row template LVGL reads
          cells,          \* the cell LVGL was given for each widget, in order
          scan            \* the placement under way: asked footprint, cursor

grid_vars == <<occupancy, row_dsc, template, cells, scan>>

\* The columns of the grid.
Cols == 0..(Columns - 1)

\* No placement is under way.
NoScan == [active |-> FALSE, row |-> 0, col |-> 0, col_span |-> 1, row_span |-> 1]

SpanWithin(n, high) == IF n < 1 THEN 1 ELSE IF n > high THEN high ELSE n

\* A footprint as a widget reports it, brought into the grid's range.
ClampSpan(cs, rs) == [col_span |-> SpanWithin(cs, Columns), row_span |-> SpanWithin(rs, kMaxRowSpan)]

RowCount == Len(occupancy)

\* The footprint at (row, col) is inside the columns and on free cells;
\* a row not declared yet is free.
Fits(row, col, cs, rs) ==
    /\ col + cs <= Columns
    /\ \A r \in row..(row + rs - 1) :
         r < RowCount => \A c \in col..(col + cs - 1) : c \notin occupancy[r + 1]

\* Mutant of MarkOccupied: only the first row's cells are taken.
MarkOccupiedFirstRow(row, col, cs, rs) ==
    [i \in 1..(IF RowCount < row + rs THEN row + rs ELSE RowCount) |->
        (IF i <= RowCount THEN occupancy[i] ELSE {})
            \cup (IF i = row + 1 THEN col..(col + cs - 1) ELSE {})]

\* The occupancy with a footprint's cells taken, grown to its last row.
MarkOccupied(row, col, cs, rs) ==
    [i \in 1..(IF RowCount < row + rs THEN row + rs ELSE RowCount) |->
        (IF i <= RowCount THEN occupancy[i] ELSE {})
            \cup (IF i \in (row + 1)..(row + rs) THEN col..(col + cs - 1) ELSE {})]

\* The old terminator becomes a row, and a new one follows the last row.
GrowRowDescriptorArray(dsc, row) ==
    IF row < Len(dsc) - 1 THEN dsc
    ELSE [i \in 1..(row + 2) |-> IF i < Len(dsc) THEN dsc[i]
                                 ELSE IF i = row + 2 THEN "last" ELSE "height"]

EnsureRowExists(row) ==
    /\ row_dsc' = GrowRowDescriptorArray(row_dsc, row)
    /\ template' = row_dsc'

GridInit ==
    /\ occupancy = <<{}>>
    /\ row_dsc = <<"height", "last">> /\ template = row_dsc
    /\ cells = <<>>
    /\ scan = NoScan

\* Where FindPlacement() begins.
ScanStart == [row |-> 0, col |-> 0]

AddWidget(asked_cols, asked_rows) ==
    /\ ~scan.active /\ Len(cells) < MaxWidgets
    /\ LET span == ClampSpan(asked_cols, asked_rows) IN
         scan' = [active |-> TRUE, row |-> ScanStart.row, col |-> ScanStart.col,
                  col_span |-> span.col_span, row_span |-> span.row_span]
    /\ UNCHANGED <<occupancy, row_dsc, template, cells>>

\* The footprint does not fit at the cursor: one column on, or a row down.
ScanOn ==
    /\ scan.active
    /\ ~Fits(scan.row, scan.col, scan.col_span, scan.row_span)
    /\ LET wraps == scan.col + 1 >= Columns IN
         scan' = [active |-> TRUE,
                  row |-> IF wraps THEN scan.row + 1 ELSE scan.row,
                  col |-> IF wraps THEN 0 ELSE scan.col + 1,
                  col_span |-> scan.col_span, row_span |-> scan.row_span]
    /\ UNCHANGED <<occupancy, row_dsc, template, cells>>

\* It fits: the cells are marked, the rows declared, the widget placed.
PlaceWidget ==
    /\ scan.active
    /\ Fits(scan.row, scan.col, scan.col_span, scan.row_span)
    /\ occupancy' = MarkOccupied(scan.row, scan.col, scan.col_span, scan.row_span)
    /\ EnsureRowExists(scan.row + scan.row_span - 1)
    /\ cells' = Append(cells, [row |-> scan.row, col |-> scan.col,
                               col_span |-> scan.col_span, row_span |-> scan.row_span])
    /\ scan' = NoScan

GridNext ==
    \/ \E cs, rs \in AskedSpans : AddWidget(cs, rs)
    \/ ScanOn
    \/ PlaceWidget

GridSpec == GridInit /\ [][GridNext]_grid_vars

-----------------------------------------------------------------------------
(* What a dashboard may rely on *)

CellRec == [row : Nat, col : Cols, col_span : 1..Columns, row_span : 1..kMaxRowSpan]

GridTypeOK ==
    /\ occupancy \in Seq(SUBSET Cols)
    /\ row_dsc \in Seq({"height", "last"})
    /\ template \in Seq({"height", "last"})
    /\ cells \in Seq(CellRec)
    /\ scan \in [active : BOOLEAN, row : Nat, col : Cols,
                 col_span : 1..Columns, row_span : 1..kMaxRowSpan]

Covers(w, r, c) == /\ w.row <= r /\ r < w.row + w.row_span
                   /\ w.col <= c /\ c < w.col + w.col_span

\* No two widgets of the dashboard share a cell, and none hangs over the
\* right edge, whatever footprints were asked for: ClampSpan(), Fits() and
\* MarkOccupied() agree on the footprint.
WidgetsApart ==
    /\ \A i \in DOMAIN cells : cells[i].col + cells[i].col_span <= Columns
    /\ \A i, j \in DOMAIN cells : \A r \in 0..(RowCount - 1), c \in Cols :
         Covers(cells[i], r, c) /\ Covers(cells[j], r, c) => i = j

\* The scan never leaves the rows that are declared by more than one: the
\* UI thread is not caught in FindPlacement()'s loop, however wide or tall a
\* footprint was asked for.
ScanBounded == scan.row <= RowCount

\* The template LVGL lays rows out by has a height for every row a widget
\* reaches and its terminator behind the last one, never before.
RowsDescribed ==
    /\ \A i \in DOMAIN cells : cells[i].row + cells[i].row_span < Len(template)
    /\ \A i \in DOMAIN template : (template[i] = "last") <=> (i = Len(template))

\* A footprint at (row, col) would hang over the edge or lie on a widget.
NoRoom(row, col, cs, rs) ==
    \/ col + cs > Columns
    \/ \E i \in DOMAIN cells :
          \E r \in row..(row + rs - 1), c \in col..(col + cs - 1) : Covers(cells[i], r, c)

\* A widget takes the first place in reading order where it fits: at every
\* place the scan has passed it would hang over the edge or lie on another.
FirstFit ==
    scan.active =>
        \A row \in 0..scan.row, col \in Cols :
            row < scan.row \/ col < scan.col
            => NoRoom(row, col, scan.col_span, scan.row_span)

\* Whatever footprints AddWidget() is asked for, the scan ends at the first
\* place that is free, widgets stay apart, and LVGL has a row for each.
GridSafe == GridTypeOK /\ WidgetsApart /\ ScanBounded /\ RowsDescribed /\ FirstFit
=============================================================================
