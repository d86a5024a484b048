----------------------------- MODULE VirtualList -----------------------------
(***************************************************************************)
(* The recycled-button list of the browse screens (ui/virtual_list.cpp and *)
(* ui/virtual_list_window.h): a pool of buttons bound to the rows near the *)
(* screen, row r always to slot r % pool size.                             *)
(*                                                                         *)
(* A label is the pair of the content's generation and the row.  The       *)
(* screen around the list scrolls, also while the list's container is      *)
(* hidden and another list of the screen is shown.                         *)
(***************************************************************************)
EXTENDS Integers, Sequences, FiniteSets, FiniteSetsExt

CONSTANTS ViewHeight, kRowPitch, kRowGap, kOverscan,  \* pixels; rows
          HeaderHeight,            \* what stands above the list, unscrolled
          MaxItems, MaxFills       \* bounds

ASSUME VirtualListAssumption ==
    /\ ViewHeight \in Nat \ {0} /\ kRowGap \in Nat /\ kOverscan \in Nat
    /\ kRowPitch \in Nat /\ kRowPitch > kRowGap
    /\ HeaderHeight \in Nat /\ MaxItems \in Nat /\ MaxFills \in Nat

VARIABLES item_count, fill,        \* count_, and the generation label_at_ reads
          slot_row,                \* slot_row_, one entry per button of pool_
          buttons,                 \* per slot: hidden, label, row (user data)
          labels,                  \* which of the three notes are visible
          list_hidden,             \* the list's own flag
          container_hidden,        \* an ancestor's
          list_top,                \* the list's y once laid out
          true_taps                \* every tap selected the row whose text was shown

vlist_vars == <<item_count, fill, slot_row, buttons, labels, list_hidden,
                container_hidden, list_top, true_taps>>

kUnbound == -1
kNoRow == -1
Notes == {"loading", "empty", "truncated"}
Positions == (HeaderHeight - MaxItems * kRowPitch)..HeaderHeight

-----------------------------------------------------------------------------
(***************************************************************************)
(* virtual_list_window.h                                                   *)
(***************************************************************************)
clamp(x, low, high) == Max({low, Min({x, high})})

\* The rows that intersect the view, and `overscan` more on either side.
\* TLA+'s \div rounds down, which is what floor_div computes.
ComputeVisibleRows(top, total, overscan) ==
    LET first == clamp(((-top) \div kRowPitch) - overscan, 0, total - 1)
        last == clamp(((ViewHeight - 1 - top) \div kRowPitch) + overscan, 0, total - 1)
    IN  [first |-> first, count |-> last - first + 1]

\* The row a slot shows: row r is always in slot r % pool_size.
RowForSlot(slot, pool_size, window) ==
    LET offset == ((slot + pool_size) - (window.first % pool_size)) % pool_size
    IN  IF slot < pool_size /\ offset < window.count THEN window.first + offset ELSE kNoRow

MaxVisibleRows == (ViewHeight + kRowPitch - 1) \div kRowPitch + 2 + 2 * kOverscan

-----------------------------------------------------------------------------
(***************************************************************************)
(* VirtualList                                                             *)
(***************************************************************************)
\* EnsurePool(): the pool never shrinks, and its bindings are forgotten.
EnsurePool(count) ==
    LET wanted == Max({Len(slot_row), Min({count, MaxVisibleRows})})
    IN  [s \in 1..wanted |-> kUnbound]

\* A hidden button's text and place are left out: a slot without a row is
\* bound anew before it is shown.
HiddenButton == [hidden |-> TRUE, label |-> <<0, kUnbound>>, row |-> 0]

\* Rebind(): from pool `bound` and buttons `old`, for `count` items of
\* generation `gen`.  Slots are numbered from 0 in the code.
Rebind(force, bound, old, count, gen, hidden, top) ==
    LET pool == Len(bound)
        pool_size == Min({pool, count})
        window == IF pool_size = 0 THEN [first |-> 0, count |-> 0]
                  ELSE ComputeVisibleRows(IF hidden THEN 0 ELSE top, count, kOverscan)
        row == [s \in 1..pool |-> IF window.count = 0 THEN kNoRow
                                  ELSE RowForSlot(s - 1, pool_size, window)]
    IN  /\ slot_row' = [s \in 1..pool |-> IF row[s] = kNoRow THEN kUnbound ELSE row[s]]
        /\ buttons' = [s \in 1..pool |->
              IF row[s] = kNoRow THEN HiddenButton
              ELSE IF force \/ bound[s] # row[s]
              THEN [hidden |-> FALSE, label |-> <<gen, row[s]>>, row |-> row[s]]
              ELSE old[s]]

NotesFor(count, truncated) ==
    IF truncated THEN {"truncated"} ELSE IF count = 0 THEN {"empty"} ELSE {}

\* Mutant of SetItems: only the slots whose row changed are bound anew, and
\* the pool's bindings are kept.
SetItemsUnforced(count, truncated) ==
    /\ fill < MaxFills /\ fill' = fill + 1 /\ item_count' = count
    /\ labels' = NotesFor(count, truncated)
    /\ list_hidden' = (count = 0)
    /\ Rebind(FALSE, [s \in DOMAIN EnsurePool(count) |-> IF s \in DOMAIN slot_row THEN slot_row[s] ELSE kUnbound],
              buttons, count, fill', container_hidden \/ count = 0, list_top)
    /\ UNCHANGED <<container_hidden, list_top, true_taps>>

\* SetItems() and the SetTruncated() every screen calls behind it.
SetItems(count, truncated) ==
    /\ fill < MaxFills /\ fill' = fill + 1 /\ item_count' = count
    /\ labels' = NotesFor(count, truncated)
    /\ list_hidden' = (count = 0)
    /\ Rebind(TRUE, EnsurePool(count), buttons, count, fill',
              container_hidden \/ count = 0, list_top)
    /\ UNCHANGED <<container_hidden, list_top, true_taps>>

Clear ==
    /\ item_count' = 0 /\ labels' = {"loading"} /\ list_hidden' = TRUE
    /\ Rebind(TRUE, slot_row, buttons, 0, fill, TRUE, list_top)
    /\ UNCHANGED <<fill, container_hidden, list_top, true_taps>>

\* The container is shown, and Refresh() called as the screens do.
Show ==
    /\ container_hidden /\ container_hidden' = FALSE
    /\ Rebind(FALSE, slot_row, buttons, item_count, fill, list_hidden, list_top)
    /\ UNCHANGED <<item_count, fill, labels, list_hidden, list_top, true_taps>>

Hide ==
    /\ ~container_hidden /\ container_hidden' = TRUE
    /\ UNCHANGED <<item_count, fill, slot_row, buttons, labels, list_hidden, list_top, true_taps>>

\* OnScreenScrolled(): the screen moved, by a gesture or because LVGL
\* adjusted it to a shorter content.
OnScreenScrolled(top) ==
    /\ list_top' = top
    /\ Rebind(FALSE, slot_row, buttons, item_count, fill, container_hidden \/ list_hidden, top)
    /\ UNCHANGED <<item_count, fill, labels, list_hidden, container_hidden, true_taps>>

\* OnRowClicked(): a tap on a visible button.
OnRowClicked(slot) ==
    /\ ~container_hidden /\ ~list_hidden /\ ~buttons[slot].hidden
    /\ buttons[slot].row < item_count /\ true_taps
    /\ true_taps' = (buttons[slot].label = <<fill, buttons[slot].row>>)
    /\ UNCHANGED <<item_count, fill, slot_row, buttons, labels, list_hidden,
                   container_hidden, list_top>>

VListInit ==
    /\ item_count = 0 /\ fill = 0 /\ slot_row = <<>> /\ buttons = <<>>
    /\ labels = {"loading"} /\ list_hidden = TRUE /\ container_hidden = TRUE
    /\ list_top = HeaderHeight /\ true_taps = TRUE

VListNext ==
    \/ \E count \in 0..MaxItems, truncated \in BOOLEAN : SetItems(count, truncated)
    \/ Clear \/ Show \/ Hide
    \/ \E top \in Positions : OnScreenScrolled(top)
    \/ \E slot \in DOMAIN buttons : OnRowClicked(slot)

VListSpec == VListInit /\ [][VListNext]_vlist_vars

-----------------------------------------------------------------------------
(***************************************************************************)
(* Properties.                                                             *)
(***************************************************************************)
OnScreen(row) ==
    /\ list_top + row * kRowPitch < ViewHeight
    /\ list_top + row * kRowPitch + kRowPitch - kRowGap > 0
Visible == {s \in DOMAIN buttons : ~buttons[s].hidden}
ListShown == ~container_hidden /\ ~list_hidden

\* Types; the pool never holds more buttons than a view can need.
VListTypeOK ==
    /\ item_count \in 0..MaxItems /\ fill \in 0..MaxFills /\ labels \subseteq Notes
    /\ Len(slot_row) = Len(buttons) /\ Len(buttons) <= MaxVisibleRows
    /\ \A s \in DOMAIN buttons : ~buttons[s].hidden => buttons[s].row \in 0..item_count - 1

\* However the list was filled, hidden, scrolled and shown again, every row
\* inside the view has exactly one visible button, in its place and with the
\* text of the current content.
RowsBound ==
    ListShown => \A row \in {r \in 0..item_count - 1 : OnScreen(r)} :
        /\ Cardinality({s \in Visible : buttons[s].row = row}) = 1
        /\ \A s \in Visible : buttons[s].row = row => buttons[s].label = <<fill, row>>

\* A tap selects the row whose text the button showed.
TapSelectsShown == true_taps

\* The user reads one answer: rows, "Loading...", "nothing here" or that the
\* listing was cut short; an empty list that timed out is never called empty.
OneAnswer ==
    /\ "loading" \in labels => labels = {"loading"} /\ item_count = 0
    /\ "empty" \in labels => labels = {"empty"} /\ item_count = 0
    /\ item_count = 0 <=> list_hidden
    /\ item_count = 0 => labels # {} /\ Visible = {}

\* The recycled buttons of virtual_list.cpp always stand for the rows in view:
\* what is seen, what a tap selects and what the list says of itself agree.
VListSafe == VListTypeOK /\ RowsBound /\ TapSelectsShown /\ OneAnswer
=============================================================================
