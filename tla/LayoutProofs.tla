---------------------------- MODULE LayoutProofs ----------------------------
(***************************************************************************)
(* Proofs about where widgets and rows stand and what touching a button    *)
(* sends: DashboardGrid, VirtualList and CommandButtons.                   *)
(*                                                                         *)
(* DashboardGrid, for every number of columns, every row-span ceiling and  *)
(* every footprint asked for: widgets never share a cell, the placement    *)
(* scan stays within one row of the declared ones, and LVGL's row template *)
(* keeps pace with the occupancy.                                          *)
(*                                                                         *)
(* VirtualList, for every view height, row pitch, gap, overscan and number *)
(* of rows: each row in the view has one button of the recycled pool, with *)
(* its own text.                                                           *)
(*                                                                         *)
(* CommandButtons, for every device and number of touches: a touch sends   *)
(* a complete tap, a complete long press or nothing.                       *)
(***************************************************************************)
EXTENDS DashboardGrid, VirtualList, CommandButtons, FiniteSetTheorems, TLAPS

\* The occupancy holds every cell of every placed widget, in declared rows.
Marked ==
    \A i \in DOMAIN cells :
        /\ cells[i].row + cells[i].row_span <= RowCount
        /\ \A r, c \in Nat : Covers(cells[i], r, c) => c \in occupancy[r + 1]

\* One row past the declared ones every footprint fits at column 0, so the
\* scan never leaves that place.
ScanStops == scan.row <= RowCount /\ (scan.row = RowCount => scan.col = 0)

\* The template LVGL reads and the occupancy grow together.
Lockstep ==
    /\ template = row_dsc
    /\ Len(template) = RowCount + 1
    /\ \A i \in DOMAIN template : (template[i] = "last") <=> (i = Len(template))

Apart ==
    /\ \A i \in DOMAIN cells : cells[i].col + cells[i].col_span <= Columns
    /\ \A i, j \in DOMAIN cells : \A r, c \in Nat :
         Covers(cells[i], r, c) /\ Covers(cells[j], r, c) => i = j

GridInv == GridTypeOK /\ RowCount >= 1 /\ Marked /\ Apart /\ ScanStops /\ Lockstep

\* A normalised footprint is inside the grid.
LEMMA ClampSpanInRange ==
    ASSUME NEW cs \in Int, NEW rs \in Int
    PROVE  /\ ClampSpan(cs, rs).col_span \in 1..Columns
           /\ ClampSpan(cs, rs).row_span \in 1..kMaxRowSpan
BY GridAssumption DEF ClampSpan, SpanWithin

\* The rows a placed widget covers are natural numbers.
LEMMA CellExtent ==
    ASSUME NEW w \in CellRec
    PROVE  w.row \in Nat /\ w.row_span \in Nat
BY GridAssumption DEF CellRec

\* Marking a footprint keeps what was marked, adds its cells and declares
\* its rows.
LEMMA MarkOccupiedGrows ==
    ASSUME occupancy \in Seq(SUBSET Cols),
           NEW row \in Nat, NEW col \in Cols, NEW cs \in 1..Columns, NEW rs \in 1..kMaxRowSpan,
           col + cs <= Columns
    PROVE  LET occ == MarkOccupied(row, col, cs, rs) IN
             /\ occ \in Seq(SUBSET Cols)
             /\ Len(occ) = IF RowCount < row + rs THEN row + rs ELSE RowCount
             /\ \A i \in 1..RowCount : occupancy[i] \subseteq occ[i]
             /\ \A r, c \in Nat : row <= r /\ r < row + rs /\ col <= c /\ c < col + cs
                                    => c \in occ[r + 1]
<1> DEFINE n == IF RowCount < row + rs THEN row + rs ELSE RowCount
           Old(i) == IF i <= RowCount THEN occupancy[i] ELSE {}
           New(i) == IF i \in (row + 1)..(row + rs) THEN col..(col + cs - 1) ELSE {}
           occ == [i \in 1..n |-> Old(i) \cup New(i)]
<1>1. occ = MarkOccupied(row, col, cs, rs)
  BY DEF MarkOccupied
<1>2. n \in Nat /\ RowCount \in Nat /\ RowCount <= n /\ row + rs <= n
  BY GridAssumption DEF RowCount
<1>3. \A i \in 1..n : Old(i) \subseteq Cols
  BY <1>2 DEF RowCount
<1>4. \A i \in 1..n : New(i) \subseteq Cols
  BY GridAssumption DEF Cols
<1>5. \A i \in 1..n : Old(i) \cup New(i) \in SUBSET Cols
  BY <1>3, <1>4
<1> HIDE DEF Old, New
<1>6. occ \in Seq(SUBSET Cols) /\ Len(occ) = n
  <2> HIDE DEF n
  <2> QED
    BY <1>2, <1>5
<1>7. \A i \in 1..RowCount : occupancy[i] \subseteq occ[i]
  <2> SUFFICES ASSUME NEW i \in 1..RowCount PROVE occupancy[i] \subseteq occ[i]
    OBVIOUS
  <2>1. i \in 1..n
    <3> HIDE DEF n
    <3> QED BY <1>2
  <2>2. occ[i] = Old(i) \cup New(i)
    BY <2>1
  <2> QED
    BY <2>2, <1>2 DEF Old
<1>8. \A r, c \in Nat : row <= r /\ r < row + rs /\ col <= c /\ c < col + cs => c \in occ[r + 1]
  <2> SUFFICES ASSUME NEW r \in Nat, NEW c \in Nat,
                      row <= r, r < row + rs, col <= c, c < col + cs
               PROVE  c \in occ[r + 1]
    OBVIOUS
  <2>1. r + 1 \in 1..n /\ r + 1 \in (row + 1)..(row + rs)
    <3> HIDE DEF n
    <3> QED BY <1>2
  <2>2. occ[r + 1] = Old(r + 1) \cup New(r + 1)
    BY <2>1
  <2>3. c \in New(r + 1)
    BY <2>1 DEF New, Cols
  <2> QED
    BY <2>2, <2>3
<1> QED
  BY <1>1, <1>6, <1>7, <1>8

\* Growing a well-formed row template to a row keeps it well formed.
LEMMA GrowKeepsTemplate ==
    ASSUME NEW dsc \in Seq({"height", "last"}), NEW row \in Nat, Len(dsc) >= 2,
           \A i \in DOMAIN dsc : (dsc[i] = "last") <=> (i = Len(dsc))
    PROVE  LET grown == GrowRowDescriptorArray(dsc, row) IN
             /\ grown \in Seq({"height", "last"})
             /\ Len(grown) = IF Len(dsc) < row + 2 THEN row + 2 ELSE Len(dsc)
             /\ \A i \in DOMAIN grown : (grown[i] = "last") <=> (i = Len(grown))
<1>1. CASE row < Len(dsc) - 1
  BY <1>1 DEF GrowRowDescriptorArray
<1>2. CASE ~(row < Len(dsc) - 1)
  <2> DEFINE Entry(i) == IF i < Len(dsc) THEN dsc[i] ELSE IF i = row + 2 THEN "last" ELSE "height"
             grown == [i \in 1..(row + 2) |-> Entry(i)]
  <2>1. grown = GrowRowDescriptorArray(dsc, row)
    BY <1>2 DEF GrowRowDescriptorArray
  <2>2. Len(dsc) \in Nat /\ Len(dsc) <= row + 2
    BY <1>2
  <2>3. \A i \in 1..(row + 2) : /\ Entry(i) \in {"height", "last"}
                                /\ (Entry(i) = "last") <=> (i = row + 2)
    BY <2>2
  <2> HIDE DEF Entry
  <2>4. grown \in Seq({"height", "last"}) /\ Len(grown) = row + 2
    BY <2>3
  <2> QED
    BY <2>1, <2>2, <2>3, <2>4
<1> QED
  BY <1>1, <1>2

LEMMA InitGrid == GridInit => GridInv
BY GridAssumption DEF GridInit, GridInv, GridTypeOK, RowCount, Marked, Apart, ScanStops,
   Lockstep, NoScan, Cols, CellRec

\* Where the scan is on a free row it fits in column 0.
LEMMA FreeRowFits ==
    ASSUME NEW cs \in 1..Columns, NEW rs \in 1..kMaxRowSpan, NEW row \in Nat,
           RowCount \in Nat, RowCount <= row
    PROVE  Fits(row, 0, cs, rs)
BY GridAssumption DEF Fits

LEMMA NextGrid == GridInv /\ [GridNext]_grid_vars => GridInv'
<1> SUFFICES ASSUME GridInv, [GridNext]_grid_vars
             PROVE  GridInv'
  OBVIOUS
<1> USE GridAssumption
<1>0. RowCount \in Nat
  BY DEF GridInv, GridTypeOK, RowCount
<1>1. CASE UNCHANGED grid_vars
  BY <1>1 DEF grid_vars, GridInv, GridTypeOK, RowCount, Marked, Apart, ScanStops, Lockstep, Covers
<1>2. ASSUME NEW cs \in AskedSpans, NEW rs \in AskedSpans, AddWidget(cs, rs)
      PROVE  GridInv'
  <2>1. /\ ClampSpan(cs, rs).col_span \in 1..Columns
        /\ ClampSpan(cs, rs).row_span \in 1..kMaxRowSpan
    BY ClampSpanInRange
  <2>2. GridTypeOK'
    BY <1>2, <2>1 DEF AddWidget, GridInv, GridTypeOK, ScanStart, Cols
  <2>3. ScanStops' /\ (RowCount >= 1)'
    BY <1>2, <2>1, <1>0 DEF AddWidget, GridInv, ScanStops, ScanStart, RowCount
  <2>4. (Marked /\ Apart /\ Lockstep)'
    BY <1>2 DEF AddWidget, GridInv, Marked, Apart, Lockstep, RowCount, Covers
  <2> QED
    BY <2>2, <2>3, <2>4 DEF GridInv
<1>3. CASE ScanOn
  <2>1. /\ scan.row \in Nat /\ scan.col \in Cols
        /\ scan.col_span \in 1..Columns /\ scan.row_span \in 1..kMaxRowSpan
    BY DEF GridInv, GridTypeOK
  <2>2. scan.row # RowCount
    <3> SUFFICES ASSUME scan.row = RowCount PROVE FALSE
      OBVIOUS
    <3>1. scan.col = 0
      BY DEF GridInv, ScanStops
    <3>2. Fits(scan.row, 0, scan.col_span, scan.row_span)
      BY <2>1, <1>0, FreeRowFits
    <3> QED
      BY <3>1, <3>2, <1>3 DEF ScanOn
  <2>3. scan.row < RowCount
    BY <2>1, <2>2, <1>0 DEF GridInv, ScanStops
  <2>4. GridTypeOK'
    BY <1>3, <2>1 DEF ScanOn, GridInv, GridTypeOK, Cols
  <2>5. ScanStops' /\ (RowCount >= 1)'
    <3>1. RowCount' = RowCount
      BY <1>3 DEF ScanOn, RowCount
    <3>2. scan'.row = scan.row \/ (scan'.row = scan.row + 1 /\ scan'.col = 0)
      BY <1>3, <2>1 DEF ScanOn, GridInv, GridTypeOK
    <3> QED
      BY <3>1, <3>2, <2>1, <2>3, <1>0 DEF GridInv, ScanStops
  <2>6. (Marked /\ Apart /\ Lockstep)'
    BY <1>3 DEF ScanOn, GridInv, Marked, Apart, Lockstep, RowCount, Covers
  <2> QED
    BY <2>4, <2>5, <2>6 DEF GridInv
<1>4. CASE PlaceWidget
  <2> DEFINE w == [row |-> scan.row, col |-> scan.col,
                   col_span |-> scan.col_span, row_span |-> scan.row_span]
             last == scan.row + scan.row_span
  <2>1. /\ scan.row \in Nat /\ scan.col \in Cols
        /\ scan.col_span \in 1..Columns /\ scan.row_span \in 1..kMaxRowSpan
        /\ scan.col \in Nat /\ scan.col_span \in Nat /\ scan.row_span \in Nat
    BY DEF GridInv, GridTypeOK, Cols
  <2>2. Fits(scan.row, scan.col, scan.col_span, scan.row_span)
    BY <1>4 DEF PlaceWidget
  <2>3. scan.col + scan.col_span <= Columns
    BY <2>2 DEF Fits
  <2>4. /\ occupancy' \in Seq(SUBSET Cols)
        /\ Len(occupancy') = IF RowCount < last THEN last ELSE RowCount
        /\ \A i \in 1..RowCount : occupancy[i] \subseteq occupancy'[i]
        /\ \A r, c \in Nat : Covers(w, r, c) => c \in occupancy'[r + 1]
    BY <1>4, <2>1, <2>3, MarkOccupiedGrows DEF PlaceWidget, GridInv, GridTypeOK, Covers
  <2>5. RowCount' \in Nat /\ RowCount <= RowCount' /\ last <= RowCount' /\ RowCount' >= 1
    BY <2>4, <2>1, <1>0 DEF RowCount, GridInv
  <2>6. cells' = Append(cells, w) /\ w \in CellRec /\ cells \in Seq(CellRec)
    BY <1>4, <2>1 DEF PlaceWidget, CellRec, GridInv, GridTypeOK
  <2>7. /\ DOMAIN cells' = 1..(Len(cells) + 1) /\ DOMAIN cells = 1..Len(cells)
        /\ Len(cells) \in Nat
        /\ \A i \in DOMAIN cells : cells'[i] = cells[i] /\ cells[i] \in CellRec
        /\ cells'[Len(cells) + 1] = w /\ cells' \in Seq(CellRec)
    BY <2>6
  <2>8. /\ row_dsc' \in Seq({"height", "last"}) /\ template' = row_dsc'
        /\ Len(template') = RowCount' + 1
        /\ \A i \in DOMAIN template' : (template'[i] = "last") <=> (i = Len(template'))
    <3> DEFINE bottom == scan.row + scan.row_span - 1
    <3>1. /\ row_dsc \in Seq({"height", "last"}) /\ Len(row_dsc) = RowCount + 1
          /\ Len(row_dsc) >= 2 /\ bottom \in Nat
          /\ \A i \in DOMAIN row_dsc : (row_dsc[i] = "last") <=> (i = Len(row_dsc))
      BY <1>0, <2>1 DEF GridInv, GridTypeOK, Lockstep
    <3>2. row_dsc' = GrowRowDescriptorArray(row_dsc, bottom) /\ template' = row_dsc'
      BY <1>4 DEF PlaceWidget, EnsureRowExists
    <3>3. /\ row_dsc' \in Seq({"height", "last"})
          /\ Len(row_dsc') = IF Len(row_dsc) < (bottom) + 2 THEN (bottom) + 2 ELSE Len(row_dsc)
          /\ \A i \in DOMAIN row_dsc' : (row_dsc'[i] = "last") <=> (i = Len(row_dsc'))
      BY <3>1, <3>2, GrowKeepsTemplate
    <3>4. Len(row_dsc') = RowCount' + 1
      <4>1. bottom + 2 = last + 1 /\ last \in Nat
        BY <2>1
      <4>2. RowCount' = IF RowCount < last THEN last ELSE RowCount
        BY <2>4 DEF RowCount
      <4>3. Len(row_dsc') = IF Len(row_dsc) < bottom + 2 THEN bottom + 2 ELSE Len(row_dsc)
        BY <3>3
      <4> HIDE DEF bottom, last
      <4> QED
        BY <4>1, <4>2, <4>3, <3>1, <1>0
    <3> QED
      BY <3>2, <3>3, <3>4
  <2>9. scan' = NoScan
    BY <1>4 DEF PlaceWidget
  <2>10. GridTypeOK'
    <3>1. scan' \in [active : BOOLEAN, row : Nat, col : Cols,
                     col_span : 1..Columns, row_span : 1..kMaxRowSpan]
      BY <2>9 DEF NoScan, Cols
    <3> QED
      BY <3>1, <2>4, <2>7, <2>8 DEF GridTypeOK
  <2>11. ScanStops'
    BY <2>5, <2>9 DEF ScanStops, NoScan
  <2>12. Lockstep'
    BY <2>8 DEF Lockstep
  <2>13. Marked'
    <3> SUFFICES ASSUME NEW i \in DOMAIN cells'
                 PROVE  /\ cells'[i].row + cells'[i].row_span <= RowCount'
                        /\ \A r, c \in Nat : Covers(cells'[i], r, c) => c \in occupancy'[r + 1]
      BY DEF Marked, Covers
    <3>1. CASE i = Len(cells) + 1
      BY <3>1, <2>7, <2>4, <2>5
    <3>2. CASE i \in DOMAIN cells
      <4>1. cells'[i] = cells[i] /\ cells[i].row \in Nat /\ cells[i].row_span \in Nat
        BY <3>2, <2>7, CellExtent
      <4>2. cells[i].row + cells[i].row_span <= RowCount
        BY <3>2 DEF GridInv, Marked
      <4>3. ASSUME NEW r \in Nat, NEW c \in Nat, Covers(cells[i], r, c)
            PROVE  c \in occupancy'[r + 1]
        <5>1. c \in occupancy[r + 1]
          BY <3>2, <4>3 DEF GridInv, Marked
        <5>2. r + 1 \in 1..RowCount
          BY <4>1, <4>2, <4>3, <1>0 DEF Covers
        <5> QED
          BY <5>1, <5>2, <2>4
      <4>4. cells[i].row + cells[i].row_span <= RowCount'
        <5>1. RowCount \in Nat /\ RowCount' \in Nat /\ RowCount <= RowCount'
          BY <1>0, <2>5
        <5>2. cells[i].row \in Nat /\ cells[i].row_span \in Nat
          BY <4>1
        <5> QED
          BY ONLY <4>2, <5>1, <5>2
      <4> QED
        BY <4>1, <4>3, <4>4, Zenon
    <3> QED
      BY <3>1, <3>2, <2>7
  <2>14. Apart'
    <3>1. \A i \in DOMAIN cells' : cells'[i].col + cells'[i].col_span <= Columns
      BY <2>7, <2>3 DEF GridInv, Apart
    <3>2. \* the new widget takes only cells no other one covers
          ASSUME NEW i \in DOMAIN cells, NEW r \in Nat, NEW c \in Nat,
                 Covers(cells[i], r, c), Covers(w, r, c)
          PROVE  FALSE
      <4>1. c \in occupancy[r + 1] /\ cells[i].row + cells[i].row_span <= RowCount
        BY <3>2 DEF GridInv, Marked
      <4>2. cells[i].row \in Nat /\ cells[i].row_span \in Nat
        BY <2>7, CellExtent
      <4>3. r < RowCount
        BY <3>2, <4>1, <4>2, <1>0 DEF Covers
      <4>4. r \in scan.row..(scan.row + scan.row_span - 1)
            /\ c \in scan.col..(scan.col + scan.col_span - 1)
        BY <3>2, <2>1 DEF Covers
      <4> QED
        BY <4>1, <4>3, <4>4, <2>2 DEF Fits
    <3>3. ASSUME NEW i \in DOMAIN cells', NEW j \in DOMAIN cells', NEW r \in Nat, NEW c \in Nat,
                 Covers(cells'[i], r, c), Covers(cells'[j], r, c)
          PROVE  i = j
      <4>1. CASE i \in DOMAIN cells /\ j \in DOMAIN cells
        BY <3>3, <4>1, <2>7 DEF GridInv, Apart
      <4>2. CASE i \in DOMAIN cells /\ j = Len(cells) + 1
        BY <3>2, <3>3, <4>2, <2>7
      <4>3. CASE j \in DOMAIN cells /\ i = Len(cells) + 1
        BY <3>2, <3>3, <4>3, <2>7
      <4> QED
        BY <4>1, <4>2, <4>3, <2>7
    <3> QED
      BY <3>1, <3>3 DEF Apart, Covers
  <2> QED
    BY <2>5, <2>10, <2>11, <2>12, <2>13, <2>14 DEF GridInv
<1> QED
  BY <1>1, <1>2, <1>3, <1>4 DEF GridNext

LEMMA GridInvHolds == GridSpec => []GridInv
BY InitGrid, NextGrid, PTL DEF GridSpec

\* The grid's state keeps its types: footprints stay inside the columns and
\* under the ceiling, whatever AddWidget() was asked for.
THEOREM GridTypes == GridSpec => []GridTypeOK
<1>1. GridInv => GridTypeOK
  BY DEF GridInv
<1> QED
  BY <1>1, GridInvHolds, PTL

\* AddWidget() never gives two widgets the same cell, nor one a cell past
\* the last column.
THEOREM GridKeepsWidgetsApart == GridSpec => []WidgetsApart
<1>1. GridInv => WidgetsApart
  <2> SUFFICES ASSUME GridInv PROVE WidgetsApart
    OBVIOUS
  <2>1. Apart /\ RowCount \in Nat
    BY DEF GridInv, GridTypeOK, RowCount
  <2>2. Cols \subseteq Nat /\ 0..(RowCount - 1) \subseteq Nat
    BY <2>1, GridAssumption DEF Cols
  <2> QED
    BY <2>1, <2>2 DEF Apart, WidgetsApart
<1> QED
  BY <1>1, GridInvHolds, PTL

\* FindPlacement()'s loop is never more than one row past the declared ones.
THEOREM GridScanBounded == GridSpec => []ScanBounded
<1>1. GridInv => ScanBounded
  BY DEF GridInv, ScanStops, ScanBounded
<1> QED
  BY <1>1, GridInvHolds, PTL

\* EnsureRowExists() keeps LVGL's row template long enough for every widget
\* and terminated behind its last row.
THEOREM GridRowsDescribed == GridSpec => []RowsDescribed
<1>1. GridInv => RowsDescribed
  <2> SUFFICES ASSUME GridInv PROVE RowsDescribed
    OBVIOUS
  <2>1. Lockstep /\ Marked /\ RowCount \in Nat /\ cells \in Seq(CellRec)
    BY DEF GridInv, GridTypeOK, RowCount
  <2>2. \A i \in DOMAIN cells : cells[i].row \in Nat /\ cells[i].row_span \in Nat
    <3> SUFFICES ASSUME NEW i \in DOMAIN cells
                 PROVE  cells[i].row \in Nat /\ cells[i].row_span \in Nat
      OBVIOUS
    <3>1. cells[i] \in CellRec
      BY <2>1
    <3> QED
      BY <3>1, CellExtent
  <2> QED
    BY <2>1, <2>2 DEF Lockstep, Marked, RowsDescribed
<1> QED
  BY <1>1, GridInvHolds, PTL

-----------------------------------------------------------------------------
(***************************************************************************)
(* First fit: what the scan has passed is really taken, because nothing    *)
(* but a placed widget ever takes a cell.                                  *)
(***************************************************************************)
\* Every taken cell belongs to a widget.
OnlyMarked ==
    \A i \in 1..RowCount : \A c \in occupancy[i] :
        \E k \in DOMAIN cells : Covers(cells[k], i - 1, c)

FirstFitInv == GridInv /\ OnlyMarked /\ FirstFit

\* MarkOccupied() takes the footprint's cells and no other.
LEMMA MarkOccupiedOnly ==
    ASSUME occupancy \in Seq(SUBSET Cols), NEW row \in Nat, NEW col \in Cols,
           NEW cs \in 1..Columns, NEW rs \in 1..kMaxRowSpan,
           NEW i \in 1..Len(MarkOccupied(row, col, cs, rs)),
           NEW c \in MarkOccupied(row, col, cs, rs)[i]
    PROVE  \/ i \in 1..RowCount /\ c \in occupancy[i]
           \/ i \in (row + 1)..(row + rs) /\ c \in col..(col + cs - 1)
<1> USE GridAssumption
<1> DEFINE n == IF RowCount < row + rs THEN row + rs ELSE RowCount
           Cell(k) == (IF k <= RowCount THEN occupancy[k] ELSE {})
                        \cup (IF k \in (row + 1)..(row + rs) THEN col..(col + cs - 1) ELSE {})
<1>1. RowCount \in Nat /\ n \in Nat
  BY DEF RowCount
<1>2. MarkOccupied(row, col, cs, rs) = [k \in 1..n |-> Cell(k)]
  BY DEF MarkOccupied
<1> HIDE DEF n, Cell
<1>3. Len(MarkOccupied(row, col, cs, rs)) = n
  BY <1>1, <1>2
<1>4. i \in 1..n /\ c \in Cell(i)
  BY <1>2, <1>3
<1> QED
  BY <1>1, <1>4 DEF Cell, n

\* A footprint that does not fit hangs over the edge or lies on a widget.
LEMMA NotFitsNoRoom ==
    ASSUME GridInv, OnlyMarked, NEW row \in Nat, NEW col \in Cols,
           NEW cs \in 1..Columns, NEW rs \in 1..kMaxRowSpan, ~Fits(row, col, cs, rs)
    PROVE  NoRoom(row, col, cs, rs)
<1> USE GridAssumption
<1>1. CASE col + cs > Columns
  BY <1>1 DEF NoRoom
<1>2. CASE ~(col + cs > Columns)
  <2>1. PICK r \in row..(row + rs - 1) :
          r < RowCount /\ \E c \in col..(col + cs - 1) : c \in occupancy[r + 1]
    BY <1>2 DEF Fits, Cols
  <2>2. PICK c \in col..(col + cs - 1) : c \in occupancy[r + 1]
    BY <2>1
  <2>3. r \in Nat /\ r + 1 \in 1..RowCount /\ (r + 1) - 1 = r
    <3>1. RowCount \in Nat /\ r < RowCount /\ row \in Nat /\ rs \in Nat
      BY <2>1 DEF GridInv, GridTypeOK, RowCount
    <3> QED
      BY <3>1
  <2>4. PICK k \in DOMAIN cells : Covers(cells[k], r, c)
    BY <2>2, <2>3 DEF OnlyMarked
  <2> QED
    BY <2>1, <2>2, <2>4 DEF NoRoom
<1> QED
  BY <1>1, <1>2

\* A cell of a footprint, as the occupancy and as Covers() count it.
LEMMA InFootprint ==
    ASSUME NEW row \in Nat, NEW rs \in Nat, NEW col \in Nat, NEW cs \in Nat, NEW i, NEW c,
           i \in (row + 1)..(row + rs), c \in col..(col + cs - 1)
    PROVE  row <= i - 1 /\ i - 1 < row + rs /\ col <= c /\ c < col + cs
OBVIOUS

LEMMA FirstFitInit == GridInit => FirstFitInv
<1> SUFFICES ASSUME GridInit PROVE FirstFitInv
  OBVIOUS
<1>1. RowCount = 1 /\ occupancy[1] = {} /\ ~scan.active
  BY DEF GridInit, RowCount, NoScan
<1> QED
  BY <1>1, InitGrid DEF FirstFitInv, OnlyMarked, FirstFit

LEMMA FirstFitStep == FirstFitInv /\ [GridNext]_grid_vars => FirstFitInv'
<1> SUFFICES ASSUME FirstFitInv, [GridNext]_grid_vars
             PROVE  FirstFitInv'
  OBVIOUS
<1> USE GridAssumption
<1>0. GridInv' /\ GridInv /\ OnlyMarked /\ FirstFit
  BY NextGrid DEF FirstFitInv
<1>1. CASE UNCHANGED grid_vars
  BY <1>0, <1>1 DEF grid_vars, FirstFitInv, OnlyMarked, FirstFit, NoRoom, RowCount, Covers
<1>2. ASSUME NEW cs \in AskedSpans, NEW rs \in AskedSpans, AddWidget(cs, rs)
      PROVE  FirstFitInv'
  <2>1. OnlyMarked'
    BY <1>0, <1>2 DEF AddWidget, OnlyMarked, RowCount, Covers
  <2>2. scan'.row = 0 /\ scan'.col = 0
    BY <1>2 DEF AddWidget, ScanStart
  <2>3. FirstFit'
    BY <2>2 DEF FirstFit, Cols
  <2> QED
    BY <1>0, <2>1, <2>3 DEF FirstFitInv
<1>3. CASE ScanOn
  <2>1. /\ scan.row \in Nat /\ scan.col \in Cols /\ scan.col \in Nat
        /\ scan.col_span \in 1..Columns /\ scan.row_span \in 1..kMaxRowSpan
    BY <1>0 DEF GridInv, GridTypeOK, Cols
  <2>2. OnlyMarked'
    BY <1>0, <1>3 DEF ScanOn, OnlyMarked, RowCount, Covers
  <2>3. NoRoom(scan.row, scan.col, scan.col_span, scan.row_span)
    BY <1>0, <1>3, <2>1, NotFitsNoRoom DEF ScanOn
  <2>4. /\ scan.active /\ cells' = cells
        /\ scan'.col_span = scan.col_span /\ scan'.row_span = scan.row_span
    BY <1>3 DEF ScanOn
  <2>5. \/ scan'.row = scan.row /\ scan'.col = scan.col + 1
        \/ scan'.row = scan.row + 1 /\ scan'.col = 0 /\ scan.col + 1 >= Columns
    BY <1>3, <2>1 DEF ScanOn
  <2>6. ASSUME NEW row \in 0..scan'.row, NEW col \in Cols,
               row < scan'.row \/ col < scan'.col
        PROVE  NoRoom(row, col, scan.col_span, scan.row_span)
    <3>1. \/ row = scan.row /\ col = scan.col
          \/ row \in 0..scan.row /\ (row < scan.row \/ col < scan.col)
      BY <2>1, <2>5, <2>6 DEF Cols
    <3> QED
      BY <3>1, <2>3, <2>4, <1>0 DEF FirstFit
  <2>7. FirstFit'
    BY <2>4, <2>6 DEF FirstFit, NoRoom, Covers
  <2> QED
    BY <1>0, <2>2, <2>7 DEF FirstFitInv
<1>4. CASE PlaceWidget
  <2> DEFINE w == [row |-> scan.row, col |-> scan.col,
                   col_span |-> scan.col_span, row_span |-> scan.row_span]
  <2>1. /\ scan.row \in Nat /\ scan.col \in Cols /\ scan.col \in Nat
        /\ scan.col_span \in 1..Columns /\ scan.row_span \in 1..kMaxRowSpan
        /\ occupancy \in Seq(SUBSET Cols) /\ cells \in Seq(CellRec)
    BY <1>0 DEF GridInv, GridTypeOK, Cols
  <2>1a. /\ scan.row \in Nat /\ scan.col \in Nat
         /\ scan.col_span \in Nat /\ scan.row_span \in Nat
    BY <2>1
  <2>2. /\ occupancy' = MarkOccupied(scan.row, scan.col, scan.col_span, scan.row_span)
        /\ cells' = Append(cells, w) /\ w \in CellRec
    BY <1>4, <2>1 DEF PlaceWidget, CellRec
  <2>3. /\ \A k \in DOMAIN cells : k \in DOMAIN cells' /\ cells'[k] = cells[k]
        /\ Len(cells) + 1 \in DOMAIN cells' /\ cells'[Len(cells) + 1] = w
    BY <2>1, <2>2
  <2>4. ASSUME NEW i \in 1..Len(occupancy'), NEW c \in occupancy'[i]
        PROVE  \E k \in DOMAIN cells' : Covers(cells'[k], i - 1, c)
    <3>1. CASE i \in 1..RowCount /\ c \in occupancy[i]
      <4>1. PICK k \in DOMAIN cells : Covers(cells[k], i - 1, c)
        BY <1>0, <3>1 DEF OnlyMarked
      <4> QED
        BY <4>1, <2>3
    <3>2. CASE /\ i \in (scan.row + 1)..(scan.row + scan.row_span)
               /\ c \in scan.col..(scan.col + scan.col_span - 1)
      <4>1. Covers(w, i - 1, c)
        <5>2. /\ scan.row <= i - 1 /\ i - 1 < scan.row + scan.row_span
              /\ scan.col <= c /\ c < scan.col + scan.col_span
          BY <2>1a, <3>2, InFootprint
        <5>3. /\ w.row = scan.row /\ w.row_span = scan.row_span
              /\ w.col = scan.col /\ w.col_span = scan.col_span
          OBVIOUS
        <5> QED
          BY <5>2, <5>3 DEF Covers
      <4> QED
        BY <4>1, <2>3
    <3> QED
      BY <2>1, <2>2, <2>4, <3>1, <3>2, MarkOccupiedOnly
  <2>5. OnlyMarked'
    BY <2>4 DEF OnlyMarked, RowCount, Covers
  <2>6. FirstFit'
    BY <1>4 DEF PlaceWidget, NoScan, FirstFit
  <2> QED
    BY <1>0, <2>5, <2>6 DEF FirstFitInv
<1> QED
  BY <1>1, <1>2, <1>3, <1>4 DEF GridNext

\* FindPlacement() backfills: a widget is put at the first place in reading
\* order where it hangs over no edge and lies on no other widget.
THEOREM GridFirstFit == GridSpec => []FirstFit
<1>1. FirstFitInv => FirstFit
  BY DEF FirstFitInv
<1> QED
  BY <1>1, FirstFitInit, FirstFitStep, PTL DEF GridSpec

\* Together: whatever footprints AddWidget() is asked for, types, separation,
\* the bound of the scan, the row template and first fit.
THEOREM GridSafeHolds == GridSpec => []GridSafe
<1>1. GridTypeOK /\ WidgetsApart /\ ScanBounded /\ RowsDescribed /\ FirstFit => GridSafe
  BY DEF GridSafe
<1> QED
  BY <1>1, GridTypes, GridKeepsWidgetsApart, GridScanBounded, GridRowsDescribed,
     GridFirstFit, PTL

-----------------------------------------------------------------------------
(* VirtualList: the arithmetic *)

\* The extremes of two numbers.
LEMMA MaxMin ==
    ASSUME NEW a \in Int, NEW b \in Int
    PROVE  Max({a, b}) = (IF a >= b THEN a ELSE b) /\ Min({a, b}) = (IF a <= b THEN a ELSE b)
  BY DEF Max, Min

\* clamp() from 0 up.
LEMMA Clamped ==
    ASSUME NEW x \in Int, NEW high \in Nat
    PROVE  clamp(x, 0, high) = IF x < 0 THEN 0 ELSE IF x > high THEN high ELSE x
  <1>1. Min({x, high}) = (IF x <= high THEN x ELSE high) /\ Min({x, high}) \in Int
    BY MaxMin
  <1>2. Max({0, Min({x, high})}) = IF 0 >= Min({x, high}) THEN 0 ELSE Min({x, high})
    BY <1>1, MaxMin
  <1>. QED  BY <1>1, <1>2 DEF clamp

\* What rounding down leaves, and two facts the solver needs named.
LEMMA DivFacts ==
    ASSUME NEW p \in Nat \ {0}, NEW a \in Int
    PROVE  a \div p \in Int /\ p * (a \div p) <= a /\ a < p * (a \div p) + p
  OBVIOUS

LEMMA MulLess ==
    ASSUME NEW p \in Nat \ {0}, NEW a \in Int, NEW b \in Int, p * a < p * b
    PROVE  a < b
  OBVIOUS

LEMMA ModFacts ==
    ASSUME NEW p \in Nat \ {0}
    PROVE  /\ \A x \in Nat : x % p \in 0..(p - 1)
           /\ \A x \in 0..(2 * p - 1) : x % p = IF x < p THEN x ELSE x - p
  OBVIOUS

-----------------------------------------------------------------------------
(* VirtualList: the window *)

\* Row r of a list whose top is at `top` meets the view.
InView(top, r) ==
    top + r * kRowPitch < ViewHeight /\ top + r * kRowPitch + kRowPitch - kRowGap > 0

\* A view needs at least one button.
LEMMA PoolBound == MaxVisibleRows \in Nat /\ MaxVisibleRows > 0
  <1>1. kRowPitch \in Nat \ {0} /\ ViewHeight + kRowPitch - 1 \in Nat /\ kOverscan \in Nat
    BY VirtualListAssumption
  <1>2. (ViewHeight + kRowPitch - 1) \div kRowPitch \in Nat
    BY <1>1
  <1>. QED  BY <1>1, <1>2 DEF MaxVisibleRows

\* The window holds every row that meets the view, and is no longer than the
\* pool may get.
LEMMA WindowFacts ==
    ASSUME NEW top \in Int, NEW total \in Nat \ {0}
    PROVE  LET w == ComputeVisibleRows(top, total, kOverscan)
           IN  /\ w.first \in 0..(total - 1) /\ w.count \in Nat \ {0}
               /\ w.first + w.count <= total /\ w.count <= MaxVisibleRows
               /\ \A r \in 0..(total - 1) : InView(top, r) => w.first <= r /\ r < w.first + w.count
  <1>. DEFINE P == kRowPitch
              q1 == (-top) \div P
              q2 == (ViewHeight - 1 - top) \div P
              q3 == (ViewHeight + P - 1) \div P
              first == clamp(q1 - kOverscan, 0, total - 1)
              last == clamp(q2 + kOverscan, 0, total - 1)
              w == ComputeVisibleRows(top, total, kOverscan)
  <1>1. /\ P \in Nat \ {0} /\ kOverscan \in Nat /\ kRowGap \in Nat /\ ViewHeight \in Nat \ {0}
        /\ -top \in Int /\ ViewHeight - 1 - top \in Int /\ ViewHeight + P - 1 \in Int
    BY VirtualListAssumption
  <1>2. q1 \in Int /\ P * q1 <= -top /\ -top < P * q1 + P
    BY <1>1, DivFacts
  <1>3. q2 \in Int /\ P * q2 <= ViewHeight - 1 - top /\ ViewHeight - 1 - top < P * q2 + P
    BY <1>1, DivFacts
  <1>4. q3 \in Int /\ P * q3 <= ViewHeight + P - 1 /\ ViewHeight + P - 1 < P * q3 + P
    BY <1>1, DivFacts
  <1>5. MaxVisibleRows = q3 + 2 + 2 * kOverscan
    BY DEF MaxVisibleRows
  <1>6. w.first = first /\ w.count = last - first + 1
    BY DEF ComputeVisibleRows
  <1>. HIDE DEF P, q1, q2, q3, w
  <1>7. q1 <= q2
    <2>1. P * q1 < P * (q2 + 1)
      BY <1>1, <1>2, <1>3
    <2>. QED  BY <1>1, <1>2, <1>3, <2>1, MulLess
  <1>8. q2 <= q1 + q3 + 1
    <2>1. P * q2 < P * (q1 + q3 + 1)
      BY <1>1, <1>2, <1>3, <1>4
    <2>. QED  BY <1>1, <1>2, <1>3, <1>4, <2>1, MulLess
  <1>9. first = IF q1 - kOverscan < 0 THEN 0 ELSE IF q1 - kOverscan > total - 1 THEN total - 1
                ELSE q1 - kOverscan
    BY <1>1, <1>2, Clamped
  <1>10. last = IF q2 + kOverscan < 0 THEN 0 ELSE IF q2 + kOverscan > total - 1 THEN total - 1
                ELSE q2 + kOverscan
    BY <1>1, <1>3, Clamped
  <1>. HIDE DEF first, last
  <1>11. /\ first \in 0..(total - 1) /\ last \in 0..(total - 1) /\ first <= last
         /\ last - first <= q3 + 1 + 2 * kOverscan
    BY <1>1, <1>2, <1>3, <1>4, <1>7, <1>8, <1>9, <1>10
  <1>12. ASSUME NEW r \in 0..(total - 1), InView(top, r) PROVE first <= r /\ r <= last
    <2>1. P * q1 < P * (r + 1)
      <3>1. top + r * P + P - kRowGap > 0
        BY <1>12 DEF InView, P
      <3>. QED  BY <1>1, <1>2, <3>1
    <2>2. q1 < r + 1
      BY <1>1, <1>2, <2>1, MulLess
    <2>3. P * r < P * (q2 + 1)
      <3>1. top + r * P < ViewHeight
        BY <1>12 DEF InView, P
      <3>. QED  BY <1>1, <1>3, <3>1
    <2>4. r < q2 + 1
      BY <1>1, <1>3, <2>3, MulLess
    <2>. QED  BY <1>1, <1>2, <1>3, <1>9, <1>10, <2>2, <2>4
  <1>13. /\ w.first \in 0..(total - 1) /\ w.count \in Nat \ {0}
         /\ w.first + w.count <= total /\ w.count <= MaxVisibleRows
    BY <1>1, <1>4, <1>5, <1>6, <1>11
  <1>14. \A r \in 0..(total - 1) : InView(top, r) => w.first <= r /\ r < w.first + w.count
    BY <1>6, <1>11, <1>12
  <1>. QED  BY <1>13, <1>14 DEF w

\* Each row of the window is in exactly one slot.
LEMMA SlotFacts ==
    ASSUME NEW ps \in Nat \ {0}, NEW first \in Nat, NEW count \in Nat, count <= ps,
           NEW window, window.first = first, window.count = count
    PROVE  /\ \A slot \in Nat : \/ RowForSlot(slot, ps, window) = kNoRow
                                \/ RowForSlot(slot, ps, window) \in first..(first + count - 1)
           /\ \A r \in first..(first + count - 1) : \E slot \in 0..(ps - 1) :
                 /\ RowForSlot(slot, ps, window) = r
                 /\ \A other \in Nat : RowForSlot(other, ps, window) = r => other = slot
  <1>. DEFINE f == first % ps
              off(slot) == IF slot < f THEN slot + ps - f ELSE slot - f
  <1>1. f \in 0..(ps - 1)
    BY ModFacts
  <1>2. ASSUME NEW slot \in 0..(ps - 1) PROVE ((slot + ps) - f) % ps = off(slot)
    <2>1. (slot + ps) - f \in 0..(2 * ps - 1)
      BY <1>1
    <2>2. ((slot + ps) - f) % ps = IF (slot + ps) - f < ps THEN (slot + ps) - f ELSE (slot + ps) - f - ps
      BY <2>1, ModFacts
    <2>. HIDE DEF f
    <2>. QED  BY <1>1, <2>2
  <1>3. ASSUME NEW slot \in Nat
        PROVE  RowForSlot(slot, ps, window)
                 = IF slot < ps /\ off(slot) < count THEN first + off(slot) ELSE kNoRow
    <2>. DEFINE o == ((slot + ps) - (window.first % ps)) % ps
    <2>0. RowForSlot(slot, ps, window)
            = IF slot < ps /\ o < window.count THEN window.first + o ELSE kNoRow
      BY DEF RowForSlot
    <2>1. CASE slot < ps
      <3>1. slot \in 0..(ps - 1) /\ window.first % ps = f
        BY <2>1
      <3>2. o = off(slot)
        BY <1>2, <3>1
      <3>. HIDE DEF o, off
      <3>. QED  BY <2>0, <2>1, <3>2
    <2>2. CASE ~(slot < ps)
      BY <2>0, <2>2
    <2>. QED  BY <2>1, <2>2
  <1>. HIDE DEF f
  <1>4. \A slot \in Nat : \/ RowForSlot(slot, ps, window) = kNoRow
                          \/ RowForSlot(slot, ps, window) \in first..(first + count - 1)
    BY <1>1, <1>3
  <1>5. ASSUME NEW r \in first..(first + count - 1)
        PROVE  \E slot \in 0..(ps - 1) :
                 /\ RowForSlot(slot, ps, window) = r
                 /\ \A other \in Nat : RowForSlot(other, ps, window) = r => other = slot
    <2>. DEFINE slot == IF f + (r - first) < ps THEN f + (r - first) ELSE f + (r - first) - ps
    <2>1. slot \in 0..(ps - 1) /\ off(slot) = r - first
      BY <1>1
    <2>2. RowForSlot(slot, ps, window) = r
      BY <1>3, <2>1
    <2>3. ASSUME NEW other \in Nat, RowForSlot(other, ps, window) = r PROVE other = slot
      <3>1. other < ps /\ first + off(other) = r
        BY <1>3, <2>3 DEF kNoRow
      <3>. QED  BY <1>1, <3>1
    <2>. QED  BY <2>1, <2>2, <2>3
  <1>. QED  BY <1>4, <1>5

-----------------------------------------------------------------------------
(* VirtualList: the bindings *)

\* The row that Rebind gives slot s of a pool of `pool` buttons.
Window(pool, count, hidden, top) ==
    IF Min({pool, count}) = 0 THEN [first |-> 0, count |-> 0]
    ELSE ComputeVisibleRows(IF hidden THEN 0 ELSE top, count, kOverscan)
BoundRow(s, pool, count, hidden, top) ==
    IF Window(pool, count, hidden, top).count = 0 THEN kNoRow
    ELSE RowForSlot(s - 1, Min({pool, count}), Window(pool, count, hidden, top))

\* A button bound to `row` shows that row of generation `gen`.
BoundButton(gen, row) ==
    IF row = kUnbound THEN HiddenButton
    ELSE [hidden |-> FALSE, label |-> <<gen, row>>, row |-> row]

\* The pool is large enough for the window; every slot has no row or one of
\* the list's, and every row in the view has one slot.
LEMMA BoundRows ==
    ASSUME NEW pool \in Nat, NEW count \in Nat, NEW top \in Int, NEW hidden \in BOOLEAN,
           Min({count, MaxVisibleRows}) <= pool
    PROVE  /\ \A s \in 1..pool : \/ BoundRow(s, pool, count, hidden, top) = kUnbound
                                 \/ BoundRow(s, pool, count, hidden, top) \in 0..(count - 1)
           /\ ~hidden => \A r \in 0..(count - 1) : InView(top, r) =>
                \E s \in 1..pool :
                   /\ BoundRow(s, pool, count, hidden, top) = r
                   /\ \A t \in 1..pool : BoundRow(t, pool, count, hidden, top) = r => t = s
  <1>. DEFINE ps == Min({pool, count})
              w == Window(pool, count, hidden, top)
              from == IF hidden THEN 0 ELSE top
  <1>1. /\ ps = (IF pool <= count THEN pool ELSE count)
        /\ MaxVisibleRows \in Nat \ {0}
        /\ Min({count, MaxVisibleRows}) = (IF count <= MaxVisibleRows THEN count ELSE MaxVisibleRows)
    BY MaxMin, PoolBound
  <1>2. CASE count = 0
    <2>1. ps = 0
      BY <1>1, <1>2
    <2>2. w.count = 0
      BY <2>1 DEF Window
    <2>3. \A s \in 1..pool : BoundRow(s, pool, count, hidden, top) = kUnbound
      BY <2>2 DEF BoundRow, kNoRow, kUnbound
    <2>. QED  BY <1>2, <2>3
  <1>3. CASE count # 0
    <2>1. ps \in Nat \ {0}
      BY <1>1, <1>3
    <2>2. w = ComputeVisibleRows(from, count, kOverscan)
      BY <2>1 DEF Window
    <2>3. /\ w.first \in 0..(count - 1) /\ w.count \in Nat \ {0}
          /\ w.first + w.count <= count /\ w.count <= MaxVisibleRows
          /\ \A r \in 0..(count - 1) : InView(from, r) => w.first <= r /\ r < w.first + w.count
      <3>1. from \in Int /\ count \in Nat \ {0}
        BY <1>3
      <3>. HIDE DEF from, w
      <3>. QED  BY <2>2, <3>1, WindowFacts
    <2>. HIDE DEF w
    <2>4. w.count <= ps /\ w.first \in Nat /\ w.count \in Nat
      BY <1>1, <2>3
    <2>. HIDE DEF ps
    <2>5. /\ \A slot \in Nat : \/ RowForSlot(slot, ps, w) = kNoRow
                               \/ RowForSlot(slot, ps, w) \in w.first..(w.first + w.count - 1)
          /\ \A r \in w.first..(w.first + w.count - 1) : \E slot \in 0..(ps - 1) :
                /\ RowForSlot(slot, ps, w) = r
                /\ \A other \in Nat : RowForSlot(other, ps, w) = r => other = slot
      BY <2>1, <2>4, SlotFacts
    <2>6. \A s \in 1..pool : BoundRow(s, pool, count, hidden, top) = RowForSlot(s - 1, ps, w)
      BY <2>3 DEF BoundRow, ps, w
    <2>7. ASSUME NEW s \in 1..pool
          PROVE  \/ BoundRow(s, pool, count, hidden, top) = kUnbound
                 \/ BoundRow(s, pool, count, hidden, top) \in 0..(count - 1)
      <3>1. s - 1 \in Nat
        OBVIOUS
      <3>. QED  BY <2>3, <2>5, <2>6, <3>1 DEF kNoRow, kUnbound
    <2>8. ASSUME ~hidden, NEW r \in 0..(count - 1), InView(top, r)
          PROVE  \E s \in 1..pool :
                   /\ BoundRow(s, pool, count, hidden, top) = r
                   /\ \A t \in 1..pool : BoundRow(t, pool, count, hidden, top) = r => t = s
      <3>1. w.first <= r /\ r < w.first + w.count
        BY <2>3, <2>8
      <3>2. r \in w.first..(w.first + w.count - 1)
        BY <2>3, <3>1
      <3>3. PICK slot \in 0..(ps - 1) :
                /\ RowForSlot(slot, ps, w) = r
                /\ \A other \in Nat : RowForSlot(other, ps, w) = r => other = slot
        BY <2>5, <3>2
      <3>4. slot + 1 \in 1..pool /\ slot = (slot + 1) - 1
        BY <1>1, <1>3, <2>1 DEF ps
      <3>5. BoundRow(slot + 1, pool, count, hidden, top) = r
        BY <2>6, <3>3, <3>4
      <3>6. ASSUME NEW t \in 1..pool, BoundRow(t, pool, count, hidden, top) = r PROVE t = slot + 1
        <4>1. t - 1 \in Nat /\ RowForSlot(t - 1, ps, w) = r
          BY <2>6, <3>6
        <4>. QED  BY <3>3, <4>1
      <3>. QED  BY <3>4, <3>5, <3>6
    <2>. QED  BY <2>7, <2>8
  <1>. QED  BY <1>2, <1>3

-----------------------------------------------------------------------------
(* VirtualList: the invariant *)

\* Types, of what the steps compute with.
VListTypes ==
    /\ item_count \in 0..MaxItems /\ fill \in 0..MaxFills /\ labels \subseteq Notes
    /\ slot_row \in Seq(Int) /\ Len(buttons) = Len(slot_row)
    /\ DOMAIN buttons = 1..Len(slot_row)
    /\ list_hidden \in BOOLEAN /\ container_hidden \in BOOLEAN /\ list_top \in Int

\* The pool is as large as the longest list the view can ask it for, and no
\* larger than a view needs.
PoolInv ==
    /\ Min({item_count, MaxVisibleRows}) <= Len(slot_row)
    /\ Len(slot_row) <= MaxVisibleRows

\* Bound or not, a button shows what its slot is bound to, in the text of the
\* current content.
BindInv ==
    \A s \in 1..Len(slot_row) :
        /\ slot_row[s] \in {kUnbound} \cup 0..(item_count - 1)
        /\ buttons[s] = BoundButton(fill, slot_row[s])

\* A list that is shown was bound at the place it has now.
PlaceInv ==
    ListShown => \A s \in 1..Len(slot_row) :
        slot_row[s] = BoundRow(s, Len(slot_row), item_count, FALSE, list_top)

\* The notes agree with the number of rows, and so does the hidden list.
NotesInv ==
    /\ "loading" \in labels => labels = {"loading"} /\ item_count = 0
    /\ "empty" \in labels => labels = {"empty"} /\ item_count = 0
    /\ item_count = 0 <=> list_hidden
    /\ item_count = 0 => labels # {}

VListInv == VListTypes /\ PoolInv /\ BindInv /\ PlaceInv /\ NotesInv /\ true_taps

\* The empty list.
LEMMA VListInitInv == VListInit => VListInv
  <1>. SUFFICES ASSUME VListInit PROVE VListInv
    OBVIOUS
  <1>. USE DEF VListInit
  <1>1. VListTypes
    BY VirtualListAssumption DEF VListTypes, Notes
  <1>2. PoolInv
    <2>. HIDE DEF VListInit
    <2>1. MaxVisibleRows \in Nat
      BY PoolBound
    <2>2. Min({0, MaxVisibleRows}) = 0
      BY <2>1, MaxMin
    <2>3. item_count = 0 /\ Len(slot_row) = 0
      BY DEF VListInit
    <2>. QED  BY <2>1, <2>2, <2>3 DEF PoolInv
  <1>3. BindInv /\ PlaceInv /\ NotesInv /\ true_taps
    BY DEF BindInv, PlaceInv, NotesInv, ListShown
  <1>. QED  BY <1>1, <1>2, <1>3 DEF VListInv

\* Rebind, slot by slot: whether a binding is renewed or kept, afterwards the
\* button shows the row the slot is bound to, at the list's new state.
LEMMA RebindInv ==
    ASSUME NEW force \in BOOLEAN, NEW bound \in Seq(Int), NEW old, NEW hidden \in BOOLEAN,
           item_count' \in Nat, list_top' \in Int,
           Min({item_count', MaxVisibleRows}) <= Len(bound), Len(bound) <= MaxVisibleRows,
           \A s \in 1..Len(bound) : ~force => old[s] = BoundButton(fill', bound[s]),
           ListShown' => ~hidden,
           Rebind(force, bound, old, item_count', fill', hidden, list_top')
    PROVE  /\ slot_row' \in Seq(Int) /\ Len(buttons') = Len(slot_row')
           /\ DOMAIN buttons' = 1..Len(slot_row')
           /\ PoolInv' /\ BindInv' /\ PlaceInv'
  <1>1. /\ slot_row' \in Seq(Int) /\ Len(slot_row') = Len(bound)
        /\ Len(buttons') = Len(bound) /\ DOMAIN buttons' = 1..Len(bound)
        /\ \A s \in 1..Len(bound) :
              /\ slot_row'[s] = BoundRow(s, Len(bound), item_count', hidden, list_top')
              /\ slot_row'[s] \in {kUnbound} \cup 0..(item_count' - 1)
              /\ buttons'[s] = BoundButton(fill', slot_row'[s])
    <2>1. PICK ic, tp, gen : ic = item_count' /\ tp = list_top' /\ gen = fill'
      OBVIOUS
    <2>2. ic \in Nat /\ tp \in Int /\ Min({ic, MaxVisibleRows}) <= Len(bound)
      BY <2>1
    <2>3. \A s \in 1..Len(bound) : ~force => old[s] = BoundButton(gen, bound[s])
      BY <2>1
    <2>4. Rebind(force, bound, old, ic, gen, hidden, tp)
      BY <2>1
    <2>5. /\ slot_row' \in Seq(Int) /\ Len(slot_row') = Len(bound)
          /\ Len(buttons') = Len(bound) /\ DOMAIN buttons' = 1..Len(bound)
          /\ \A s \in 1..Len(bound) :
                /\ slot_row'[s] = BoundRow(s, Len(bound), ic, hidden, tp)
                /\ slot_row'[s] \in {kUnbound} \cup 0..(ic - 1)
                /\ buttons'[s] = BoundButton(gen, slot_row'[s])
      <3>. DEFINE pool == Len(bound)
                  row(s) == BoundRow(s, pool, ic, hidden, tp)
      <3>1. pool \in Nat
        OBVIOUS
      <3>2. /\ slot_row' = [s \in 1..pool |-> IF row(s) = kNoRow THEN kUnbound ELSE row(s)]
            /\ buttons' = [s \in 1..pool |->
                  IF row(s) = kNoRow THEN HiddenButton
                  ELSE IF force \/ bound[s] # row(s)
                  THEN [hidden |-> FALSE, label |-> <<gen, row(s)>>, row |-> row(s)]
                  ELSE old[s]]
        BY <2>4, ZenonT(30) DEF Rebind, BoundRow, Window
      <3>3. \A s \in 1..pool : row(s) = kUnbound \/ row(s) \in 0..(ic - 1)
        BY <2>2, <3>1, BoundRows
      <3>. HIDE DEF row, pool
      <3>4. slot_row' = [s \in 1..pool |-> row(s)]
        BY <3>2 DEF kNoRow, kUnbound
      <3>5. \A s \in 1..pool : row(s) \in Int
        BY <3>3 DEF kUnbound
      <3>6. slot_row' \in Seq(Int) /\ Len(slot_row') = pool
        BY <3>1, <3>4, <3>5
      <3>7. Len(buttons') = pool /\ DOMAIN buttons' = 1..pool
        BY <3>1, <3>2
      <3>8. ASSUME NEW s \in 1..pool PROVE buttons'[s] = BoundButton(gen, row(s))
        <4>1. buttons'[s] = IF row(s) = kNoRow THEN HiddenButton
                  ELSE IF force \/ bound[s] # row(s)
                  THEN [hidden |-> FALSE, label |-> <<gen, row(s)>>, row |-> row(s)]
                  ELSE old[s]
          BY <3>2
        <4>2. ~force => old[s] = BoundButton(gen, bound[s])
          BY <2>3 DEF pool
        <4>3. CASE row(s) = kNoRow
          BY <4>1, <4>3 DEF BoundButton, kNoRow, kUnbound
        <4>4. CASE row(s) # kNoRow /\ (force \/ bound[s] # row(s))
          BY <4>1, <4>4 DEF BoundButton, kNoRow, kUnbound
        <4>5. CASE row(s) # kNoRow /\ ~force /\ bound[s] = row(s)
          BY <4>1, <4>2, <4>5
        <4>. QED  BY <4>3, <4>4, <4>5
      <3>9. \A s \in 1..pool : slot_row'[s] = row(s)
        BY <3>4
      <3>10. \A s \in 1..pool : /\ slot_row'[s] = row(s)
                                /\ slot_row'[s] \in {kUnbound} \cup 0..(ic - 1)
                                /\ buttons'[s] = BoundButton(gen, slot_row'[s])
        BY <3>3, <3>8, <3>9
      <3>. QED  BY <3>6, <3>7, <3>10 DEF row, pool
    <2>6. ASSUME NEW s \in 1..Len(bound)
          PROVE  /\ slot_row'[s] = BoundRow(s, Len(bound), item_count', hidden, list_top')
                 /\ slot_row'[s] \in {kUnbound} \cup 0..(item_count' - 1)
                 /\ buttons'[s] = BoundButton(fill', slot_row'[s])
      <3>1. slot_row'[s] = BoundRow(s, Len(bound), ic, hidden, tp)
        BY <2>5
      <3>2. slot_row'[s] = BoundRow(s, Len(bound), item_count', hidden, list_top')
        BY <2>1, <3>1, Zenon
      <3>3. slot_row'[s] \in {kUnbound} \cup 0..(item_count' - 1)
        BY <2>1, <2>5
      <3>4. buttons'[s] = BoundButton(fill', slot_row'[s])
        BY <2>1, <2>5
      <3>. QED  BY <3>2, <3>3, <3>4
    <2>. QED  BY <2>5, <2>6
  <1>2. PoolInv'
    BY <1>1 DEF PoolInv, MaxVisibleRows
  <1>3. BindInv'
    BY <1>1 DEF BindInv
  <1>4. PlaceInv'
    <2>. SUFFICES ASSUME ListShown', NEW s \in 1..Len(slot_row')
                  PROVE  slot_row'[s] = BoundRow(s, Len(slot_row'), item_count', FALSE, list_top')
      BY DEF PlaceInv
    <2>1. hidden = FALSE
      BY Zenon
    <2>. QED  BY <1>1, <2>1
  <1>. QED  BY <1>1, <1>2, <1>3, <1>4

\* Every operation of the list keeps the invariant.
LEMMA VListStep == VListInv /\ [VListNext]_vlist_vars => VListInv'
  <1>. SUFFICES ASSUME VListInv, [VListNext]_vlist_vars PROVE VListInv'
    OBVIOUS
  <1>0. /\ item_count \in 0..MaxItems /\ fill \in 0..MaxFills /\ labels \subseteq Notes
        /\ slot_row \in Seq(Int) /\ Len(buttons) = Len(slot_row)
        /\ DOMAIN buttons = 1..Len(slot_row) /\ Len(slot_row) \in Nat
        /\ list_hidden \in BOOLEAN /\ container_hidden \in BOOLEAN /\ list_top \in Int
        /\ PoolInv /\ BindInv /\ PlaceInv /\ NotesInv /\ true_taps
    BY DEF VListInv, VListTypes
  <1>M. MaxItems \in Nat /\ MaxFills \in Nat /\ MaxVisibleRows \in Nat /\ kRowPitch \in Nat
        /\ HeaderHeight \in Nat
    BY VirtualListAssumption, PoolBound
  <1>K. \A s \in 1..Len(slot_row) : buttons[s] = BoundButton(fill, slot_row[s])
    BY <1>0 DEF BindInv
  <1>1. ASSUME NEW count \in 0..MaxItems, NEW truncated \in BOOLEAN, SetItems(count, truncated)
        PROVE  VListInv'
    <2>. DEFINE pool == EnsurePool(count)
                hidden == container_hidden \/ count = 0
    <2>1. /\ fill < MaxFills /\ fill' = fill + 1 /\ item_count' = count
          /\ labels' = NotesFor(count, truncated) /\ list_hidden' = (count = 0)
          /\ Rebind(TRUE, pool, buttons, count, fill', hidden, list_top)
          /\ container_hidden' = container_hidden /\ list_top' = list_top /\ true_taps' = true_taps
      BY <1>1 DEF SetItems
    <2>2. Min({count, MaxVisibleRows}) = (IF count <= MaxVisibleRows THEN count ELSE MaxVisibleRows)
      BY <1>M, MaxMin
    <2>3. /\ pool \in Seq(Int) /\ Min({count, MaxVisibleRows}) <= Len(pool)
          /\ Len(pool) <= MaxVisibleRows
      <3>. DEFINE least == Min({count, MaxVisibleRows})
                  wanted == Max({Len(slot_row), least})
      <3>1. least \in Nat /\ least <= MaxVisibleRows
        BY <1>M, <2>2
      <3>. HIDE DEF least
      <3>2. wanted = IF Len(slot_row) >= least THEN Len(slot_row) ELSE least
        BY <1>0, <3>1, MaxMin
      <3>3. Len(slot_row) <= MaxVisibleRows
        BY <1>0 DEF PoolInv
      <3>4. pool = [s \in 1..wanted |-> kUnbound]
        BY DEF EnsurePool, least
      <3>. HIDE DEF least, wanted, pool
      <3>5. wanted \in Nat /\ least <= wanted /\ wanted <= MaxVisibleRows
        BY <1>0, <1>M, <3>1, <3>2, <3>3
      <3>6. pool \in Seq(Int) /\ Len(pool) = wanted
        BY <3>4, <3>5 DEF kUnbound
      <3>. QED  BY <3>5, <3>6 DEF least
    <2>4. hidden \in BOOLEAN
      OBVIOUS
    <2>5. ListShown' => ~hidden
      BY <2>1 DEF ListShown
    <2>. HIDE DEF pool, hidden
    <2>6. /\ slot_row' \in Seq(Int) /\ Len(buttons') = Len(slot_row')
          /\ DOMAIN buttons' = 1..Len(slot_row') /\ PoolInv' /\ BindInv' /\ PlaceInv'
      <3>1. item_count' \in Nat /\ list_top' \in Int
        BY <1>0, <2>1
      <3>. QED  BY <2>1, <2>3, <2>4, <2>5, <3>1, RebindInv
    <2>7. NotesInv'
      BY <1>0, <2>1 DEF NotesInv, NotesFor
    <2>8. VListTypes'
      <3>1. labels' \subseteq Notes
        BY <2>1 DEF NotesFor, Notes
      <3>2. fill' \in 0..MaxFills /\ item_count' \in 0..MaxItems
        BY <1>0, <1>M, <2>1
      <3>3. list_hidden' \in BOOLEAN /\ container_hidden' \in BOOLEAN /\ list_top' \in Int
        BY <1>0, <2>1
      <3>. QED  BY <2>6, <3>1, <3>2, <3>3 DEF VListTypes
    <2>. QED  BY <1>0, <2>1, <2>6, <2>7, <2>8 DEF VListInv
  <1>2. CASE Clear
    <2>1. /\ item_count' = 0 /\ labels' = {"loading"} /\ list_hidden' = TRUE
          /\ Rebind(TRUE, slot_row, buttons, 0, fill, TRUE, list_top)
          /\ fill' = fill /\ container_hidden' = container_hidden /\ list_top' = list_top
          /\ true_taps' = true_taps
      BY <1>2 DEF Clear
    <2>2. Min({0, MaxVisibleRows}) <= Len(slot_row) /\ Len(slot_row) <= MaxVisibleRows
      <3>1. Min({0, MaxVisibleRows}) = 0
        BY <1>M, MaxMin
      <3>. QED  BY <1>0, <3>1 DEF PoolInv
    <2>3. ~ListShown'
      BY <2>1 DEF ListShown
    <2>4. Rebind(TRUE, slot_row, buttons, item_count', fill', TRUE, list_top')
      BY <2>1
    <2>6. /\ slot_row' \in Seq(Int) /\ Len(buttons') = Len(slot_row')
          /\ DOMAIN buttons' = 1..Len(slot_row') /\ PoolInv' /\ BindInv' /\ PlaceInv'
      BY <1>0, <2>1, <2>2, <2>3, <2>4, RebindInv
    <2>7. NotesInv'
      BY <2>1 DEF NotesInv
    <2>8. VListTypes'
      BY <1>0, <1>M, <2>1, <2>6 DEF VListTypes, Notes
    <2>. QED  BY <1>0, <2>1, <2>6, <2>7, <2>8 DEF VListInv
  <1>3. CASE Show
    <2>1. /\ container_hidden' = FALSE
          /\ Rebind(FALSE, slot_row, buttons, item_count, fill, list_hidden, list_top)
          /\ item_count' = item_count /\ fill' = fill /\ labels' = labels
          /\ list_hidden' = list_hidden /\ list_top' = list_top /\ true_taps' = true_taps
      BY <1>3 DEF Show
    <2>2. Min({item_count', MaxVisibleRows}) <= Len(slot_row) /\ Len(slot_row) <= MaxVisibleRows
      BY <1>0, <2>1 DEF PoolInv
    <2>3. ListShown' => ~list_hidden
      BY <2>1 DEF ListShown
    <2>4. Rebind(FALSE, slot_row, buttons, item_count', fill', list_hidden, list_top')
      BY <2>1
    <2>5. item_count' \in Nat /\ list_top' \in Int
          /\ \A s \in 1..Len(slot_row) : buttons[s] = BoundButton(fill', slot_row[s])
      BY <1>0, <1>K, <2>1
    <2>6. /\ slot_row' \in Seq(Int) /\ Len(buttons') = Len(slot_row')
          /\ DOMAIN buttons' = 1..Len(slot_row') /\ PoolInv' /\ BindInv' /\ PlaceInv'
      BY <1>0, <2>2, <2>3, <2>4, <2>5, RebindInv
    <2>7. NotesInv'
      BY <1>0, <2>1 DEF NotesInv
    <2>8. VListTypes'
      BY <1>0, <2>1, <2>6 DEF VListTypes
    <2>. QED  BY <1>0, <2>1, <2>6, <2>7, <2>8 DEF VListInv
  <1>4. CASE Hide
    <2>1. /\ container_hidden' = TRUE
          /\ UNCHANGED <<item_count, fill, slot_row, buttons, labels, list_hidden, list_top, true_taps>>
      BY <1>4 DEF Hide
    <2>2. ~ListShown'
      BY <2>1 DEF ListShown
    <2>3. PlaceInv'
      BY <2>2 DEF PlaceInv
    <2>4. PoolInv' /\ BindInv' /\ NotesInv' /\ VListTypes'
      BY <1>0, <2>1 DEF PoolInv, BindInv, NotesInv, VListTypes, MaxVisibleRows
    <2>. QED  BY <1>0, <2>1, <2>3, <2>4 DEF VListInv
  <1>5. ASSUME NEW top \in Positions, OnScreenScrolled(top) PROVE VListInv'
    <2>. DEFINE hidden == container_hidden \/ list_hidden
    <2>1. /\ list_top' = top
          /\ Rebind(FALSE, slot_row, buttons, item_count, fill, hidden, top)
          /\ item_count' = item_count /\ fill' = fill /\ labels' = labels
          /\ list_hidden' = list_hidden /\ container_hidden' = container_hidden
          /\ true_taps' = true_taps
      BY <1>5 DEF OnScreenScrolled
    <2>2. Min({item_count', MaxVisibleRows}) <= Len(slot_row) /\ Len(slot_row) <= MaxVisibleRows
      BY <1>0, <2>1 DEF PoolInv
    <2>3. (ListShown' => ~hidden) /\ hidden \in BOOLEAN
      BY <2>1 DEF ListShown
    <2>4. Rebind(FALSE, slot_row, buttons, item_count', fill', hidden, list_top')
      BY <2>1
    <2>5. item_count' \in Nat /\ list_top' \in Int
          /\ \A s \in 1..Len(slot_row) : buttons[s] = BoundButton(fill', slot_row[s])
      BY <1>0, <1>K, <1>M, <2>1 DEF Positions
    <2>. HIDE DEF hidden
    <2>6. /\ slot_row' \in Seq(Int) /\ Len(buttons') = Len(slot_row')
          /\ DOMAIN buttons' = 1..Len(slot_row') /\ PoolInv' /\ BindInv' /\ PlaceInv'
      BY <1>0, <2>2, <2>3, <2>4, <2>5, RebindInv
    <2>7. NotesInv'
      BY <1>0, <2>1 DEF NotesInv
    <2>8. VListTypes'
      BY <1>0, <2>1, <2>5, <2>6 DEF VListTypes
    <2>. QED  BY <1>0, <2>1, <2>6, <2>7, <2>8 DEF VListInv
  <1>6. ASSUME NEW slot \in DOMAIN buttons, OnRowClicked(slot) PROVE VListInv'
    <2>1. /\ ~buttons[slot].hidden
          /\ true_taps' = (buttons[slot].label = <<fill, buttons[slot].row>>)
          /\ UNCHANGED <<item_count, fill, slot_row, buttons, labels, list_hidden,
                         container_hidden, list_top>>
      BY <1>6 DEF OnRowClicked
    <2>2. buttons[slot] = BoundButton(fill, slot_row[slot])
      BY <1>0, <1>K
    <2>3. buttons[slot].label = <<fill, buttons[slot].row>>
      BY <2>1, <2>2 DEF BoundButton, HiddenButton
    <2>4. PoolInv' /\ BindInv' /\ NotesInv' /\ VListTypes' /\ PlaceInv'
      BY <1>0, <2>1 DEF PoolInv, BindInv, NotesInv, VListTypes, PlaceInv, ListShown
    <2>5. true_taps'
      BY <2>1, <2>3
    <2>. QED  BY <2>4, <2>5 DEF VListInv
  <1>7. CASE UNCHANGED vlist_vars
    BY <1>0, <1>7 DEF vlist_vars, VListInv, PoolInv, BindInv, NotesInv, VListTypes, PlaceInv,
                      ListShown
  <1>. QED  BY <1>1, <1>2, <1>3, <1>4, <1>5, <1>6, <1>7 DEF VListNext

\* A row in the view of a list that is shown has one visible button.
LEMMA VListInvRows ==
    ASSUME VListInv, ListShown, NEW row \in 0..item_count - 1, OnScreen(row)
    PROVE  /\ Cardinality({s \in Visible : buttons[s].row = row}) = 1
           /\ \A s \in Visible : buttons[s].row = row => buttons[s].label = <<fill, row>>
  <1>0. /\ item_count \in Nat /\ Len(slot_row) \in Nat /\ list_top \in Int
        /\ DOMAIN buttons = 1..Len(slot_row)
        /\ Min({item_count, MaxVisibleRows}) <= Len(slot_row)
    BY DEF VListInv, VListTypes, PoolInv
  <1>1. \A s \in 1..Len(slot_row) :
           /\ slot_row[s] = BoundRow(s, Len(slot_row), item_count, FALSE, list_top)
           /\ slot_row[s] \in {kUnbound} \cup 0..(item_count - 1)
           /\ buttons[s] = BoundButton(fill, slot_row[s])
    BY DEF VListInv, PlaceInv, BindInv
  <1>2. InView(list_top, row)
    BY DEF OnScreen, InView
  <1>3. PICK s \in 1..Len(slot_row) :
           /\ BoundRow(s, Len(slot_row), item_count, FALSE, list_top) = row
           /\ \A t \in 1..Len(slot_row) :
                 BoundRow(t, Len(slot_row), item_count, FALSE, list_top) = row => t = s
    BY <1>0, <1>2, BoundRows
  <1>4. \A t \in 1..Len(slot_row) : slot_row[t] = row <=> t = s
    BY <1>1, <1>3
  <1>5. \A t \in 1..Len(slot_row) :
           t \in Visible <=> slot_row[t] # kUnbound
    <2>. SUFFICES ASSUME NEW t \in 1..Len(slot_row) PROVE buttons[t].hidden <=> slot_row[t] = kUnbound
      BY <1>0 DEF Visible
    <2>1. buttons[t] = BoundButton(fill, slot_row[t])
      BY <1>1
    <2>2. CASE slot_row[t] = kUnbound
      <3>1. buttons[t] = HiddenButton
        BY <2>1, <2>2 DEF BoundButton
      <3>. QED  BY <2>2, <3>1 DEF HiddenButton
    <2>3. CASE slot_row[t] # kUnbound
      <3>1. buttons[t] = [hidden |-> FALSE, label |-> <<fill, slot_row[t]>>, row |-> slot_row[t]]
        BY <2>1, <2>3 DEF BoundButton
      <3>. QED  BY <2>3, <3>1
    <2>. QED  BY <2>2, <2>3
  <1>6. ASSUME NEW t \in 1..Len(slot_row), slot_row[t] # kUnbound
        PROVE  buttons[t].row = slot_row[t] /\ buttons[t].label = <<fill, slot_row[t]>>
    <2>1. buttons[t] = [hidden |-> FALSE, label |-> <<fill, slot_row[t]>>, row |-> slot_row[t]]
      BY <1>1, <1>6 DEF BoundButton
    <2>. QED  BY <2>1
  <1>7. row # kUnbound
    BY <1>0 DEF kUnbound
  <1>8. {t \in Visible : buttons[t].row = row} = {s}
    <2>1. Visible \subseteq 1..Len(slot_row)
      BY <1>0 DEF Visible
    <2>. QED  BY <1>4, <1>5, <1>6, <1>7, <2>1
  <1>9. Cardinality({s}) = 1
    BY FS_Singleton
  <1>10. \A t \in Visible : buttons[t].row = row => buttons[t].label = <<fill, row>>
    BY <1>0, <1>5, <1>6 DEF Visible
  <1>. QED  BY <1>8, <1>9, <1>10

\* The invariant says all that VListSafe does.
LEMMA VListInvSafe == VListInv => VListSafe
  <1>. SUFFICES ASSUME VListInv PROVE VListSafe
    OBVIOUS
  <1>0. /\ item_count \in 0..MaxItems /\ fill \in 0..MaxFills /\ labels \subseteq Notes
        /\ Len(buttons) = Len(slot_row) /\ Len(buttons) <= MaxVisibleRows
        /\ DOMAIN buttons = 1..Len(slot_row)
    BY DEF VListInv, VListTypes, PoolInv
  <1>1. \A s \in 1..Len(slot_row) :
           /\ slot_row[s] \in {kUnbound} \cup 0..(item_count - 1)
           /\ buttons[s] = BoundButton(fill, slot_row[s])
    BY DEF VListInv, BindInv
  <1>2. ASSUME NEW s \in DOMAIN buttons, ~buttons[s].hidden
        PROVE  buttons[s].row \in 0..item_count - 1
    BY <1>0, <1>1, <1>2 DEF BoundButton, HiddenButton
  <1>3. VListTypeOK
    BY <1>0, <1>2 DEF VListTypeOK
  <1>4. RowsBound
    BY VListInvRows DEF RowsBound
  <1>5. ASSUME item_count = 0 PROVE Visible = {}
    <2>1. 0..(item_count - 1) = {}
      BY <1>5
    <2>. QED  BY <1>0, <1>2, <2>1 DEF Visible
  <1>6. OneAnswer
    BY <1>5 DEF OneAnswer, VListInv, NotesInv
  <1>7. TapSelectsShown
    BY DEF TapSelectsShown, VListInv
  <1>. QED  BY <1>3, <1>4, <1>6, <1>7 DEF VListSafe

\* For every view, row pitch, gap, overscan and length: whatever was filled,
\* cleared, hidden, scrolled and shown, each row in the view of a shown list
\* has exactly one button, with its own current text, and a tap on it selects
\* that row (VirtualList::Rebind, ComputeVisibleRows, RowForSlot).
THEOREM VListSafeHolds == VListSpec => []VListSafe
  <1>1. VListSpec => []VListInv
    BY VListInitInv, VListStep, PTL DEF VListSpec
  <1>. QED  BY <1>1, VListInvSafe, PTL

-----------------------------------------------------------------------------
(***************************************************************************)
(* CommandButtons.                                                         *)
(***************************************************************************)

IsTouch(t) ==
    t \in [down : BOOLEAN, button : {t.button}, long : BOOLEAN, scrolling : BOOLEAN, lost : BOOLEAN]

\* While the command view is shown or a finger is down, what the tracker holds
\* as a long press is the touch under way, so nothing a lost touch left behind
\* reaches a later one.
TouchInv ==
    /\ IsTouch(finger)
    /\ commands_sent \in Seq({"press", "hold", "release"})
    /\ finger.down => ~finger.lost
    /\ devices_view = "detail" \/ finger.down =>
          long_presses = IF finger.down /\ finger.long THEN {finger.button} ELSE {}
    /\ finger.down => IF finger.long THEN Held(commands_sent) ELSE commands_sent = <<>>
    /\ TouchSends

LEMMA HeldGoesOn ==
    ASSUME NEW s \in Seq({"press", "hold", "release"})
    PROVE  /\ s = <<>> => Held(Append(s, "press"))
           /\ Held(s) => Held(Append(s, "hold"))
           /\ Append(s, "press") \in Seq({"press", "hold", "release"})
           /\ Append(s, "hold") \in Seq({"press", "hold", "release"})
  <1>1. /\ Len(s) \in Nat
        /\ \A e : /\ Len(Append(s, e)) = Len(s) + 1
                  /\ \A i \in 1..Len(s) : Append(s, e)[i] = s[i]
                  /\ Append(s, e)[Len(s) + 1] = e
    OBVIOUS
  <1>2. s = <<>> => Held(Append(s, "press"))
    <2>1. s = <<>> => Len(s) = 0
      OBVIOUS
    <2>. QED  BY <1>1, <2>1 DEF Held
  <1>3. Held(s) => Held(Append(s, "hold"))
    BY <1>1 DEF Held
  <1>. QED  BY <1>2, <1>3

LEMMA HeldReleased ==
    ASSUME NEW s \in Seq({"press", "hold", "release"}), Held(s)
    PROVE  LET r == s \o <<"release">> IN
           /\ r \in Seq({"press", "hold", "release"})
           /\ Held(Front(r)) /\ Last(r) = "release"
  <1> DEFINE r == s \o <<"release">>
  <1>1. /\ Len(s) \in Nat /\ r \in Seq({"press", "hold", "release"}) /\ Len(r) = Len(s) + 1
        /\ \A i \in 1..Len(s) : r[i] = s[i]
        /\ r[Len(s) + 1] = "release"
    OBVIOUS
  <1> HIDE DEF r
  <1>2. Front(r) = [i \in 1..Len(s) |-> s[i]]
    <2>1. Len(r) - 1 = Len(s)
      BY <1>1
    <2>2. SubSeq(r, 1, Len(s)) = [i \in 1..Len(s) |-> r[i]]
      BY <1>1
    <2>. QED  BY <1>1, <2>1, <2>2 DEF Front
  <1>3. Last(r) = "release"
    BY <1>1 DEF Last
  <1>4. [i \in 1..Len(s) |-> s[i]] = s
    OBVIOUS
  <1>5. Held(Front(r))
    BY <1>2, <1>4
  <1>. QED  BY <1>1, <1>3, <1>5 DEF r

\* Steps that leave the finger, what it sent and the tracker as they are.
LEMMA TouchKept ==
    ASSUME TouchInv, UNCHANGED <<finger, commands_sent>>,
           UNCHANGED long_presses,
           devices_view' = "detail" => devices_view = "detail"
    PROVE  TouchInv'
  <1>1. TouchSends'
    BY DEF TouchInv, TouchSends
  <1>. QED  BY <1>1 DEF TouchInv

LEMMA TouchStep == TouchInv /\ [ButtonsNext]_button_vars => TouchInv'
  <1> SUFFICES ASSUME TouchInv, [ButtonsNext]_button_vars PROVE TouchInv'
    OBVIOUS
  <1>0. /\ IsTouch(finger) /\ commands_sent \in Seq({"press", "hold", "release"})
        /\ finger.down \in BOOLEAN /\ finger.long \in BOOLEAN /\ finger.scrolling \in BOOLEAN
        /\ finger.lost \in BOOLEAN
    BY DEF TouchInv, IsTouch
  <1>1. CASE HubConfigured
    BY <1>1, TouchKept DEF HubConfigured
  <1>2. CASE OnConfigUpdated
    BY <1>2, TouchKept DEF OnConfigUpdated
  <1>3. CASE OpenDeviceDetail
    <2>1. /\ ~finger.down /\ devices_view' = "detail" /\ long_presses' = {}
          /\ UNCHANGED <<finger, commands_sent>>
      BY <1>3 DEF OpenDeviceDetail
    <2>2. TouchSends'
      BY <2>1 DEF TouchInv, TouchSends
    <2>. QED  BY <1>0, <2>1, <2>2 DEF TouchInv
  <1>4. CASE BackToDeviceList
    BY <1>4, TouchKept DEF BackToDeviceList
  <1>5. ASSUME NEW button, TouchDown(button)
        PROVE  TouchInv'
    <2>1. /\ devices_view = "detail" /\ ~finger.down /\ commands_sent' = <<>>
          /\ finger' = [NoTouch EXCEPT !.down = TRUE, !.button = button]
          /\ UNCHANGED <<devices_view, long_presses>>
      BY <1>5 DEF TouchDown
    <2>2. IsTouch(finger') /\ finger'.down /\ ~finger'.long /\ ~finger'.lost
      BY <1>5, <2>1 DEF NoTouch, IsTouch
    <2>3. long_presses' = {}
      BY <2>1 DEF TouchInv
    <2>. QED  BY <2>1, <2>2, <2>3 DEF TouchInv, TouchSends
  <1>6. CASE Scroll
    <2>1. /\ finger.down /\ finger' = [finger EXCEPT !.scrolling = TRUE]
          /\ UNCHANGED <<devices_view, long_presses, commands_sent>>
      BY <1>6 DEF Scroll
    <2>2. /\ IsTouch(finger') /\ finger'.down /\ finger'.long = finger.long
          /\ finger'.button = finger.button /\ finger'.lost = finger.lost
      BY <1>0, <2>1 DEF IsTouch
    <2>. QED  BY <2>1, <2>2 DEF TouchInv, TouchSends
  <1>7. CASE OnLongPressed
    <2>1. /\ finger.down /\ ~finger.long /\ finger' = [finger EXCEPT !.long = TRUE]
          /\ long_presses' = long_presses \cup {finger.button}
          /\ commands_sent' = Append(commands_sent, "press") /\ UNCHANGED devices_view
      BY <1>7 DEF OnLongPressed
    <2>2. /\ IsTouch(finger') /\ finger'.down /\ finger'.long
          /\ finger'.button = finger.button /\ finger'.lost = finger.lost
      BY <1>0, <2>1 DEF IsTouch
    <2>3. commands_sent = <<>> /\ long_presses = {}
      BY <2>1 DEF TouchInv
    <2>4. Held(commands_sent') /\ commands_sent' \in Seq({"press", "hold", "release"})
      BY <1>0, <2>1, <2>3, HeldGoesOn
    <2>. QED  BY <2>1, <2>2, <2>3, <2>4 DEF TouchInv, TouchSends
  <1>8. CASE OnLongPressRepeat
    <2>1. /\ finger.down /\ finger.long /\ commands_sent' = Append(commands_sent, "hold")
          /\ UNCHANGED <<devices_view, long_presses, finger>>
      BY <1>8 DEF OnLongPressRepeat
    <2>2. Held(commands_sent)
      BY <2>1 DEF TouchInv
    <2>3. Held(commands_sent') /\ commands_sent' \in Seq({"press", "hold", "release"})
      BY <1>0, <2>1, <2>2, HeldGoesOn
    <2>. QED  BY <2>1, <2>3 DEF TouchInv, TouchSends
  <1>9. CASE OnCommandButtonReleased
    <2>1. /\ finger.down /\ finger' = [finger EXCEPT !.down = FALSE]
          /\ commands_sent' = commands_sent \o (IF finger.button \in long_presses THEN <<"release">>
                        ELSE IF finger.scrolling THEN <<>> ELSE <<"press", "release">>)
          /\ long_presses' = long_presses \ {finger.button} /\ UNCHANGED devices_view
      BY <1>9 DEF OnCommandButtonReleased
    <2>2. /\ IsTouch(finger') /\ ~finger'.down /\ finger'.long = finger.long
          /\ finger'.scrolling = finger.scrolling /\ ~finger'.lost
      BY <1>0, <2>1 DEF IsTouch, TouchInv
    <2>3. /\ long_presses = IF finger.long THEN {finger.button} ELSE {}
          /\ IF finger.long THEN Held(commands_sent) ELSE commands_sent = <<>>
      BY <2>1 DEF TouchInv
    <2>4. long_presses' = {}
      BY <2>1, <2>3
    <2>5. CASE finger.long
      <3>1. commands_sent' = commands_sent \o <<"release">> /\ Held(commands_sent)
        BY <2>1, <2>3, <2>5
      <3>2. /\ commands_sent' \in Seq({"press", "hold", "release"})
            /\ Held(Front(commands_sent')) /\ Last(commands_sent') = "release"
        BY <1>0, <3>1, HeldReleased
      <3>3. TouchSends'
        BY <2>2, <2>5, <3>2, Zenon DEF TouchSends
      <3>. QED  BY <2>2, <2>4, <3>2, <3>3 DEF TouchInv
    <2>6. CASE ~finger.long
      <3>1. commands_sent' = IF finger.scrolling THEN <<>> ELSE <<"press", "release">>
        <4>1. finger.button \notin long_presses /\ commands_sent = <<>>
          BY <2>3, <2>6
        <4>2. <<>> \o <<>> = <<>> /\ <<>> \o <<"press", "release">> = <<"press", "release">>
          OBVIOUS
        <4>3. commands_sent' = <<>> \o (IF finger.scrolling THEN <<>> ELSE <<"press", "release">>)
          BY <2>1, <4>1
        <4>4. CASE finger.scrolling
          BY <4>2, <4>3, <4>4, Zenon
        <4>5. CASE ~finger.scrolling
          BY <4>2, <4>3, <4>5, Zenon
        <4>. QED  BY <4>4, <4>5, Zenon
      <3>2. commands_sent' \in Seq({"press", "hold", "release"})
        <4>1. <<>> \in Seq({"press", "hold", "release"})
          OBVIOUS
        <4>2. <<"press", "release">> \in Seq({"press", "hold", "release"})
          OBVIOUS
        <4>3. CASE finger.scrolling
          BY <3>1, <4>1, <4>3, Zenon
        <4>4. CASE ~finger.scrolling
          BY <3>1, <4>2, <4>4, Zenon
        <4>. QED  BY <4>3, <4>4, Zenon
      <3>3. TouchSends'
        BY <2>2, <2>6, <3>1 DEF TouchSends
      <3>. QED  BY <2>2, <2>4, <3>2, <3>3 DEF TouchInv
    <2>. QED  BY <2>5, <2>6
  <1>10. CASE TouchLost
    <2>1. /\ finger.down /\ devices_view # "detail" /\ UNCHANGED <<devices_view, commands_sent>>
          /\ finger' = [finger EXCEPT !.down = FALSE, !.lost = TRUE]
      BY <1>10 DEF TouchLost
    <2>2. IsTouch(finger') /\ ~finger'.down /\ finger'.lost /\ finger'.long = finger.long
      BY <1>0, <2>1 DEF IsTouch
    <2>3. TouchSends'
      BY <2>1, <2>2 DEF TouchInv, TouchSends
    <2>. QED  BY <1>0, <2>1, <2>2, <2>3 DEF TouchInv
  <1>11. CASE UNCHANGED button_vars
    BY <1>11, TouchKept DEF button_vars
  <1>. QED  BY <1>1, <1>2, <1>3, <1>4, <1>5, <1>6, <1>7, <1>8, <1>9, <1>10, <1>11 DEF ButtonsNext

\* TouchSends for every device, number of touches and holds: a touch that is
\* released has sent a complete tap or a complete long press, or nothing when it
\* was a scroll, also when its view was hidden under it, and one that LVGL drops
\* has sent no more than a beginning and spoils no later one.
THEOREM TouchSendsHolds == ButtonsSpec => []TouchSends
<1>1. ButtonsInit => TouchInv
  BY DEF ButtonsInit, NoTouch, TouchInv, IsTouch, TouchSends
<1>2. TouchInv => TouchSends
  BY DEF TouchInv
<1>. QED  BY <1>1, <1>2, TouchStep, PTL DEF ButtonsSpec
=============================================================================
