------------------------------ MODULE ListView ------------------------------
(***************************************************************************)
(* listview.cpp: rows that the program numbers, in the order in which it    *)
(* created them, beside the items of the control, which hold copies of the  *)
(* texts, are sorted and filtered, and know their row only by its number.   *)
(* A list is a record; its methods are operators on it.  Indexes begin at   *)
(* 1; 0 stands for -1, no index or a hidden row.                            *)
(***************************************************************************)
EXTENDS Integers, SequencesExt, FiniteSets

CONSTANTS
  Columns,      \* columns, 1..n
  DataColumns,  \* those that are compared by data, VersionType or TimeType
  Filters,      \* contents of the filter box
  Matches(_, _) \* Filter::match: whether a filter matches the cells of a row

ASSUME ColumnAssumption ==
  /\ IsFiniteSet(Columns) /\ Cardinality(Columns) > 0 /\ Columns = 1..Cardinality(Columns)
  /\ DataColumns \subseteq Columns

\* A row is [data, cells, viewIndex, userIndex], an item [param, texts, selected].
\* A cell is a number, of a text or of data; 0 is a null pointer in DataColumns.
NoSort == [column |-> 0, order |-> "asc"]
NoData == 0

Empty(sort, filter) ==
  [rows |-> <<>>, items |-> <<>>, sort |-> sort, default |-> sort, dirty |-> {},
   filter |-> filter, arrow |-> sort]

rowCount(l) == Len(l.rows)
visibleRowCount(l) == Len(l.items)

-----------------------------------------------------------------------------
(* The control *)

\* Members of a set, each after those that are before it.
InOrder(S, before) ==
  [k \in 1..Cardinality(S) |-> CHOOSE x \in S : Cardinality(before[x]) = k - 1]

Ascending(S) == InOrder(S, [x \in S |-> {y \in S : y < x}])

\* An index past the end is the end.
InsertItem(items, index, item) ==
  InsertAt(items, IF index > Len(items) THEN Len(items) + 1 ELSE index, item)

DeleteAt(items, indexes) ==
  LET kept == Ascending(DOMAIN items \ indexes)
  IN [k \in DOMAIN kept |-> items[kept[k]]]

Item(param) == [param |-> param, texts |-> [c \in Columns |-> NoData], selected |-> FALSE]

\* ListView_SetItemState: index 0 (-1) is every item.
SetState(items, index, on) ==
  [i \in DOMAIN items |-> IF index \in {0, i} THEN [items[i] EXCEPT !.selected = on]
                                              ELSE items[i]]

-----------------------------------------------------------------------------
(* Indexes *)

translate(l, userIndex) ==
  IF l.sort = NoSort \/ userIndex = 0 THEN userIndex ELSE l.rows[userIndex].viewIndex

translateBack(l, viewIndex) ==
  IF l.sort = NoSort \/ viewIndex = 0 THEN viewIndex ELSE l.items[viewIndex].param

reindexVisible(l) ==
  [l EXCEPT
     !.rows = [u \in DOMAIN l.rows |->
                 IF \E i \in DOMAIN l.items : l.items[i].param = u
                 THEN [l.rows[u] EXCEPT !.viewIndex =
                         CHOOSE i \in DOMAIN l.items : l.items[i].param = u]
                 ELSE l.rows[u]],
     !.dirty = @ \ {"reindex"}]

\* Selected rows as the control lists them, from top to bottom.
SelectedInView(l) ==
  LET chosen == Ascending({i \in DOMAIN l.items : l.items[i].selected})
  IN [k \in DOMAIN chosen |-> translateBack(l, chosen[k])]

\* Mutant: in the order of the view.
Mutantselection(l) == SelectedInView(l)

selection(l) == Ascending(ToSet(SelectedInView(l)))

currentIndex(l) == IF SelectedInView(l) = <<>> THEN 0 ELSE Head(SelectedInView(l))

setSelected(l, index, on) == [l EXCEPT !.items = SetState(@, translate(l, index), on)]

-----------------------------------------------------------------------------
(* Rows *)

createRow(l, data) ==
  LET index == rowCount(l) + 1
  IN [l EXCEPT
        !.items = InsertItem(@, index, Item(index)),
        !.rows = Append(@, [data |-> data, cells |-> [c \in Columns |-> NoData],
                            viewIndex |-> index, userIndex |-> index])]

\* Mutant: the text of the cell only.
MutantupdateCell(l, u, c) ==
  [l EXCEPT !.items = [i \in DOMAIN @ |-> IF i = translate(l, u)
                                          THEN [@[i] EXCEPT !.texts[c] = l.rows[u].cells[c]]
                                          ELSE @[i]],
            !.dirty = @ \cup {"filter"}]

updateCell(l, u, c) ==
  [l EXCEPT !.items = [i \in DOMAIN @ |-> IF i = translate(l, u)
                                          THEN [@[i] EXCEPT !.texts[c] = l.rows[u].cells[c]]
                                          ELSE @[i]],
            !.dirty = @ \cup {"filter"} \cup (IF l.sort # NoSort /\ l.sort.column = c
                                              THEN {"sort"} ELSE {})]

setCell(l, u, c, value) ==
  updateCell([l EXCEPT !.rows[u].cells[c] = value], l.rows[u].userIndex, c)

\* The caller writes the cells of a new row one after the other.
NewRow(l, row) ==
  LET u == rowCount(l) + 1
      filled[c \in 0..Cardinality(Columns)] ==
        IF c = 0 THEN createRow(l, row.data) ELSE setCell(filled[c - 1], u, c, row.cells[c])
  IN filled[Cardinality(Columns)]

\* Items of the rows that follow get the new index of their row.
ShiftItems(l, userIndex) ==
  LET after == {u \in DOMAIN l.rows : u > userIndex}
  IN [i \in DOMAIN l.items |->
        IF \E u \in after : translate(l, u) = i
        THEN [l.items[i] EXCEPT !.param = (CHOOSE u \in after : translate(l, u) = i) - 1]
        ELSE l.items[i]]

removeRow(l, userIndex) ==
  LET shifted == [u \in DOMAIN l.rows |->
                    IF u > userIndex THEN [l.rows[u] EXCEPT !.userIndex = u - 1]
                                     ELSE l.rows[u]]
  IN reindexVisible(
       [l EXCEPT !.items = DeleteAt(ShiftItems(l, userIndex), {translate(l, userIndex)}),
                 !.rows = DeleteAt(shifted, {userIndex})])

clear(l) == [l EXCEPT !.items = <<>>, !.rows = <<>>]

-----------------------------------------------------------------------------
(* Sorting and filtering *)

\* Column::compare: -1, 0 or 1.  Two cells without data are each less than the
\* other: see Ties.
compare(column, x, y) ==
  CASE column \in DataColumns /\ x = NoData -> -1
    [] column \in DataColumns /\ x # NoData /\ y = NoData -> 1
    [] OTHER -> IF x < y THEN -1 ELSE IF x > y THEN 1 ELSE 0

WithoutData(l) ==
  IF l.sort.column \in DataColumns
  THEN {u \in DOMAIN l.rows : l.rows[u].cells[l.sort.column] = NoData} ELSE {}

\* Where a comparison sort puts rows that are less than each other depends on the
\* order of its comparisons: a rank, any one.
Ties(l) ==
  LET S == WithoutData(l)
  IN IF Cardinality(S) < 2 THEN {[u \in S |-> 1]}
     ELSE {f \in [S -> 1..Cardinality(S)] : \A u, v \in S : f[u] = f[v] => u = v}

Precedes(l, tie, u, v) ==
  LET c == l.sort.column
      ret == compare(c, l.rows[u].cells[c], l.rows[v].cells[c])
  IN IF l.sort = NoSort THEN u < v
     ELSE IF {u, v} \subseteq WithoutData(l) THEN tie[u] < tie[v]
     ELSE IF ret = 0 THEN u < v
     ELSE (ret < 0) = (l.sort.order = "asc")

sort(l, tie) ==
  LET before(j) == {i \in DOMAIN l.items : Precedes(l, tie, l.items[i].param, l.items[j].param)}
      order == InOrder(DOMAIN l.items, [j \in DOMAIN l.items |-> before(j)])
  IN [l EXCEPT
        !.items = [k \in DOMAIN @ |-> @[order[k]]],
        !.dirty = (@ \cup {"reindex"}) \ {"sort"}]

sortByColumn(l, s, user) ==
  [l EXCEPT !.sort = s, !.arrow = s, !.default = IF user THEN @ ELSE s,
            !.dirty = @ \cup {"sort"}]

\* Rows that match again get items at the end; items of those that no longer do are
\* deleted, found by the view index of their row.
filter(l) ==
  LET appear == Ascending({u \in DOMAIN l.rows : /\ Matches(l.filter, l.rows[u].cells)
                                                 /\ l.rows[u].viewIndex = 0})
      vanish == {u \in DOMAIN l.rows : /\ ~Matches(l.filter, l.rows[u].cells)
                                       /\ l.rows[u].viewIndex > 0}
      new == [k \in DOMAIN appear |-> [Item(appear[k]) EXCEPT !.texts = l.rows[appear[k]].cells]]
      view(u) == IF u \in vanish THEN 0
                 ELSE IF \E k \in DOMAIN appear : appear[k] = u
                 THEN Len(l.items) + (CHOOSE k \in DOMAIN appear : appear[k] = u)
                 ELSE l.rows[u].viewIndex
  IN [l EXCEPT
        !.items = DeleteAt(@, {l.rows[u].viewIndex : u \in vanish}) \o new,
        !.rows = [u \in DOMAIN @ |-> [@[u] EXCEPT !.viewIndex = view(u)]],
        !.dirty = (@ \cup (IF appear # <<>> THEN {"sort"} ELSE {})
                     \cup (IF vanish # {} THEN {"reindex"} ELSE {})) \ {"filter"}]

setFilter(l, f) == [l EXCEPT !.filter = f, !.dirty = @ \cup {"filter"}]

Filtered(l) == IF "filter" \in l.dirty THEN filter(l) ELSE l

endEdit(l, tie) ==
  LET sorted == IF "sort" \in Filtered(l).dirty THEN sort(Filtered(l), tie) ELSE Filtered(l)
  IN IF "reindex" \in sorted.dirty THEN reindexVisible(sorted) ELSE sorted

\* A click on the header of a column.
onColumnClick(l, column) ==
  sortByColumn(l, [column |-> column,
                   order |-> IF l.sort.column = column /\ l.sort.order = "asc"
                             THEN "desc" ELSE "asc"], TRUE)

resetColumns(l) ==
  IF l.sort = NoSort THEN l
  ELSE [l EXCEPT !.sort = l.default, !.arrow = l.default, !.dirty = @ \cup {"sort"}]

\* saveState and restoreState: what a window keeps of a list when it is closed.
restoreState(l, saved) == IF saved.column = 0 THEN l ELSE sortByColumn(l, saved, TRUE)
=============================================================================
