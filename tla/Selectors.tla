----------------------------- MODULE Selectors -----------------------------
(***************************************************************************)
(* The widgets of the client's library that let the player pick one of     *)
(* several items (client_plugin/ui/data, navigation): list, table, tree,   *)
(* menu, drop-down, collapsible panels and breadcrumb. An item is picked   *)
(* by its place under the pointer, which is worked out from the scroll     *)
(* offset and the data; what stands there was drawn by an earlier refresh. *)
(*                                                                         *)
(* Heights are rows: the widget shows View of them. A frame is one step:   *)
(* the base redraws a dirty widget, then the widget looks at the pointer.  *)
(***************************************************************************)
EXTENDS Integers, SequencesExt

CONSTANTS
  View,      \* rows on the screen
  MaxItems,  \* items an owner sets
  Blank,     \* a row without an item
  Widths     \* widths a table's owner gives its columns, 0 for none

Kinds == {"list", "table", "tree", "menu", "dropdown", "collapse", "breadcrumb"}
Items == 1..MaxItems
Rows == 0..View - 1
NoIndex == -1

\* The tree's data: 1 has the children 2 and 3, the others none. Each may be an item of its
\* own in the other kinds.
ChildrenOf(item) == IF item = 1 THEN <<2, 3>> ELSE <<>>
Roots == SelectSeq([i \in Items |-> i], LAMBDA i : i \notin {2, 3})

VARIABLES
  kind,
  columns,   \* the widths of the columns of a table
  items,     \* _items, _rows, _options, or the _flatNodes of a tree
  scroll,    \* _scrollY in rows
  selected,  \* _selectedIndex, _selectedRow, _activeIndex
  expanded,  \* the items that are expanded; for a drop-down, whether any is shown
  dirty,
  drawn,     \* what the rows show
  picked,    \* the item the owner was told of last
  aimed      \* what was drawn where the player pressed then

vars == <<kind, columns, items, scroll, selected, expanded, dirty, drawn, picked, aimed>>

At(s, i) == IF i \in 1..Len(s) THEN s[i] ELSE Blank

-----------------------------------------------------------------------------
\* L2_Table._calculateColumnWidths: the columns without a width share what is left, the
\* first ones get the pixels that do not divide.
ColumnWidths(cw, given) ==
  LET unspecified == {i \in DOMAIN given : given[i] = 0}
      remaining == cw - FoldLeft(+, 0, given)
      count == Cardinality(unspecified)
      before(i) == Cardinality({j \in unspecified : j < i})
  IN [i \in DOMAIN given |->
        IF given[i] # 0 THEN given[i]
        ELSE (remaining \div count) + (IF before(i) < remaining % count THEN 1 ELSE 0)]

\* L2_Tabs._calculateTabWidths: the same for tabs, of which at least one is assumed.
TabWidths(cw, n) ==
  LET count == IF n = 0 THEN 1 ELSE n IN
  [i \in 1..count |-> (cw \div count) + (IF i - 1 < cw % count THEN 1 ELSE 0)]

\* L2_Tabs._getTabFromX.
TabFromX(cw, n, x) ==
  LET widths == TabWidths(cw, n)
      left(i) == FoldLeft(+, 0, SubSeq(widths, 1, i - 1))
  IN {i \in DOMAIN widths : left(i) <= x /\ x < left(i) + widths[i]}

-----------------------------------------------------------------------------
\* L2_Tree._rebuildFlat: the nodes and, under those that are expanded, their children.
Flat(open) ==
  FoldLeft(LAMBDA s, i : s \o <<i>> \o (IF i \in open THEN ChildrenOf(i) ELSE <<>>),
           <<>>, Roots)

\* The rows of collapsible panels: a title, and a row of text under those that are expanded.
Panels(s, open) ==
  FoldLeft(LAMBDA rows, i : rows \o <<i>> \o (IF i \in open THEN <<Blank>> ELSE <<>>), <<>>, s)

\* What each kind's refresh puts into the rows.
Drawing(s, offset, open) ==
  [r \in Rows |->
     CASE kind \in {"list", "table", "tree", "menu"} -> At(s, r + offset + 1)
       [] kind = "dropdown" -> IF open # {} THEN At(s, r + 1) ELSE Blank
       [] kind = "collapse" -> At(Panels(s, open), r + 1)
       [] kind = "breadcrumb" -> At(s, r + 1)]

Init ==
  /\ kind \in Kinds
  /\ columns \in IF kind = "table" THEN TupleOf(Widths, 3) ELSE {<<>>}
  /\ items = IF kind = "tree" THEN Flat({}) ELSE <<>>
  /\ scroll = 0 /\ selected = NoIndex /\ expanded = {}
  /\ dirty = TRUE
  /\ drawn = [r \in Rows |-> Blank]
  /\ picked = Blank /\ aimed = Blank

\* The base's update: what a dirty widget shows from now on.
Redrawn == IF dirty THEN Drawing(items, scroll, expanded) ELSE drawn

\* _getMaxScroll, and the clamp of the wheel handlers.
MaxScroll(s) == IF Len(s) > View THEN Len(s) - View ELSE 0
Scrolled(wheel) ==
  IF scroll + wheel < 0 THEN 0
  ELSE IF scroll + wheel > MaxScroll(items) THEN MaxScroll(items) ELSE scroll + wheel

\* The owner hears of the item; what the player saw at the row is remembered.
Tell(item, row, rows) == picked' = item /\ aimed' = rows[row]

-----------------------------------------------------------------------------
\* The row under the pointer, then the press, then the wheel.
PickRow(row, press, wheel) ==
  LET index == row + scroll + 1
      hit == press /\ index <= Len(items)
  IN /\ selected' = IF hit THEN index - 1 ELSE selected
     /\ IF hit THEN Tell(items[index], row, Redrawn) ELSE UNCHANGED <<picked, aimed>>
     /\ scroll' = Scrolled(wheel)
     /\ drawn' = Redrawn
     /\ dirty' = (hit \/ wheel # 0)
     /\ UNCHANGED <<kind, columns, items, expanded>>

\* L2_List.update, and L2_Table.update below its header.
UpdateList(row, press, wheel) == kind = "list" /\ PickRow(row, press, wheel)
UpdateTable(row, press, wheel) == kind = "table" /\ PickRow(row, press, wheel)

\* L2_Menu.update: the wheel only where there is a scroll bar, and the row under the pointer
\* from before it.
UpdateMenu(row, press, wheel) ==
  LET index == row + scroll + 1
      hit == press /\ index <= Len(items)
      turned == wheel # 0 /\ Len(items) > View
  IN /\ kind = "menu"
     /\ scroll' = IF turned THEN Scrolled(wheel) ELSE scroll
     /\ selected' = IF hit THEN index - 1 ELSE selected
     /\ IF hit THEN Tell(items[index], row, Redrawn) ELSE UNCHANGED <<picked, aimed>>
     /\ drawn' = Redrawn
     /\ dirty' = (hit \/ turned)
     /\ UNCHANGED <<kind, columns, items, expanded>>

\* L2_Tree.update: the wheel first, drawn at once; then the node under the pointer, which a
\* press expands or collapses.
UpdateTree(row, press, wheel) ==
  LET offset == IF wheel # 0 THEN Scrolled(wheel) ELSE scroll
      rows == IF wheel # 0 THEN Drawing(items, offset, expanded) ELSE Redrawn
      index == row + offset + 1
      hit == press /\ index <= Len(items)
      node == At(items, index)
      open == IF ~hit \/ ChildrenOf(node) = <<>> THEN expanded
              ELSE IF node \in expanded THEN expanded \ {node} ELSE expanded \union {node}
  IN /\ kind = "tree"
     /\ scroll' = offset
     /\ expanded' = open
     /\ items' = Flat(open)
     /\ IF hit THEN Tell(node, row, rows) ELSE UNCHANGED <<picked, aimed>>
     /\ drawn' = rows
     /\ dirty' = hit
     /\ UNCHANGED <<kind, columns, selected>>

\* L2_Dropdown.update: the trigger (row -1) opens and closes, an option of the open list is
\* taken, any other press closes.
UpdateDropdown(row, press) ==
  LET open == expanded # {}
      hit == press /\ open /\ row >= 0 /\ row + 1 <= Len(items)
  IN /\ kind = "dropdown"
     /\ expanded' = CASE press /\ row = NoIndex -> IF open THEN {} ELSE Items
                      [] press /\ row # NoIndex -> {}
                      [] OTHER -> expanded
     /\ IF hit THEN Tell(items[row + 1], row, Redrawn) ELSE UNCHANGED <<picked, aimed>>
     /\ drawn' = IF expanded' = expanded THEN Redrawn ELSE Drawing(items, 0, expanded')
     /\ dirty' = FALSE
     /\ UNCHANGED <<kind, columns, items, scroll, selected>>

\* L2_Collapse.update and _toggle: the title under the pointer, by the heights of the panels
\* above it; as an accordion one panel is expanded at a time.
UpdateCollapse(row, press, accordion) ==
  LET item == At(Panels(items, expanded), row + 1)
      hit == press /\ item # Blank
  IN /\ kind = "collapse"
     /\ expanded' = IF ~hit THEN expanded
                    ELSE IF item \in expanded THEN expanded \ {item}
                    ELSE (IF accordion THEN {} ELSE expanded) \union {item}
     /\ IF hit THEN Tell(item, row, Redrawn) ELSE UNCHANGED <<picked, aimed>>
     /\ drawn' = Redrawn
     /\ dirty' = hit
     /\ UNCHANGED <<kind, columns, items, scroll, selected>>

\* L2_Breadcrumb.update: by the places the last refresh stored in the items; the last item
\* is where the player is and cannot be picked.
UpdateBreadcrumb(row, press) ==
  LET hit == press /\ row + 1 < Len(items) IN
  /\ kind = "breadcrumb"
  /\ IF hit THEN Tell(items[row + 1], row, Redrawn) ELSE UNCHANGED <<picked, aimed>>
  /\ drawn' = Redrawn
  /\ dirty' = FALSE
  /\ UNCHANGED <<kind, columns, items, scroll, selected, expanded>>

Frame ==
  \E row \in Rows \union {NoIndex}, press \in BOOLEAN, wheel \in {-1, 0, 1} :
    \/ row \in Rows /\ (UpdateList(row, press, wheel) \/ UpdateTable(row, press, wheel)
                        \/ UpdateMenu(row, press, wheel) \/ UpdateTree(row, press, wheel))
    \/ wheel = 0 /\ UpdateDropdown(row, press)
    \/ \E accordion \in BOOLEAN :
         wheel = 0 /\ row \in Rows /\ UpdateCollapse(row, press, accordion)
    \/ wheel = 0 /\ row \in Rows /\ UpdateBreadcrumb(row, press)

\* The owner's items: L2_List.setItems and L2_Table.setRows start at the top with nothing
\* selected; L2_Menu.setItems keeps its offset; a drop-down and panels get theirs when made.
SetItems(s) ==
  /\ \/ kind \in {"list", "table", "menu", "breadcrumb"}
     \/ kind \in {"dropdown", "collapse"} /\ items = <<>>
  /\ items' = s
  /\ scroll' = IF kind = "menu" THEN scroll ELSE 0
  /\ selected' = NoIndex
  /\ dirty' = TRUE
  /\ UNCHANGED <<kind, columns, expanded, drawn, picked, aimed>>

Next ==
  \/ Frame
  \/ \E n \in 0..MaxItems : \E s \in {[i \in 1..n |-> i], [i \in 1..n |-> 1 + MaxItems - i]} :
       SetItems(s)

Spec == Init /\ [][Next]_vars

-----------------------------------------------------------------------------
\* The type of the state.
TypeOK ==
  /\ kind \in Kinds
  /\ \A i \in DOMAIN items : items[i] \in Items
  /\ scroll \in 0..MaxItems
  /\ selected \in NoIndex..MaxItems - 1
  /\ expanded \subseteq Items
  /\ DOMAIN drawn = Rows

\* What the player picks is what was drawn where he pressed, whatever was scrolled,
\* expanded, opened or set before; what is selected is an item of the data.
PickedAsDrawn ==
  /\ picked = aimed
  /\ selected = NoIndex \/ selected < Len(items)

\* The widgets that start at the top with new data never show nothing of it.
InView ==
  kind \in {"list", "table"} /\ ~dirty /\ items # <<>> => \E r \in Rows : drawn[r] # Blank

\* Columns without a width fill the table to the pixel, tabs their bar, and every pixel of
\* it belongs to one tab ("without pixel loss", tabs.js:32).
WidthsFill ==
  /\ 0 \in Range(columns) => FoldLeft(+, 0, ColumnWidths(10, columns)) = 10
  /\ kind = "menu" => \A n \in 1..4 : /\ FoldLeft(+, 0, TabWidths(10, n)) = 10
                                      /\ \A x \in 0..9 : Cardinality(TabFromX(10, n, x)) = 1

\* NOT kept: a menu or a tree shows some of its items. A menu keeps its offset when fewer
\* items are set, and without a scroll bar the wheel cannot bring them back (menu.js:44,
\* 122); a tree that collapses leaves its offset beyond its end (tree.js:139).
MenuInView ==
  kind \in {"menu", "tree"} /\ ~dirty /\ items # <<>> => \E r \in Rows : drawn[r] # Blank
=============================================================================
