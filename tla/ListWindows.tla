----------------------------- MODULE ListWindows -----------------------------
(***************************************************************************)
(* The lists of the browser and of the manager, between the user who sorts, *)
(* filters and selects, and the code of browser.cpp and manager.cpp that    *)
(* fills them again and walks over their selection while it removes rows.   *)
(***************************************************************************)
EXTENDS ListView

CONSTANTS
  Contents,    \* what the lists are filled with: sequences of [data, cells]
  Values,      \* texts that a cell of the first column is given
  Protected,   \* data of rows that the manager keeps
  AnySelection \* the manager's loop also starts with protected rows selected

\* A filter is empty at first: it matches whatever the lists are filled with.
ASSUME ContentsAssumption ==
  /\ \A rs \in Contents : /\ rs \in Seq(ToSet(rs))
                          /\ \A i \in DOMAIN rs : rs[i].cells \in [Columns -> Nat]
                          /\ \A i, j \in DOMAIN rs : rs[i].data = rs[j].data => i = j
  /\ \E f \in Filters : \A rs \in Contents : \A i \in DOMAIN rs : Matches(f, rs[i].cells)
  /\ Values \subseteq Nat
  /\ AnySelection \in BOOLEAN

VARIABLES
  window,  \* "browser" or "manager"
  list,    \* m_list
  pc,      \* the loop the main thread is in, "rest" outside of them
  todo,    \* listDo: indexes not visited yet
  offset,  \* listDo: rows removed so far
  keep,    \* Manager::uninstall: protected rows so far
  chosen,  \* rows selected when the loop began
  visited  \* rows the loop did something to

loop == <<pc, todo, offset, keep, chosen, visited>>
listVars == <<window, list, loop>>

AllRows == CHOOSE f \in Filters : \A rs \in Contents : \A i \in DOMAIN rs : Matches(f, rs[i].cells)

\* Only the browser sorts by default.
DefaultSort(w) == IF w = "browser" THEN [column |-> 1, order |-> "asc"] ELSE NoSort

Idle == pc' = "rest" /\ todo' = <<>> /\ offset' = 0 /\ keep' = 0
        /\ chosen' = {} /\ visited' = <<>>

ListInit ==
  /\ window \in {"browser", "manager"}
  /\ list = Empty(DefaultSort(window), AllRows)
  /\ pc = "rest" /\ todo = <<>> /\ offset = 0 /\ keep = 0
  /\ chosen = {} /\ visited = <<>>

InView(l) == {l.rows[l.items[i].param].data : i \in DOMAIN l.items}

SelectedData(l) == {l.rows[u].data : u \in ToSet(selection(l))}

-----------------------------------------------------------------------------
(* Between two loops *)

User == pc = "rest" /\ UNCHANGED <<window, loop>>

\* The end of an edit, whatever a comparison sort does with ties.
Edited(l) == \E tie \in Ties(l) : list' = endEdit(l, tie)

\* Mutant: the rows that have the selected numbers are selected.
MutantAddRow(l, row, selected) ==
  IF rowCount(l) + 1 \in ToSet(selection(list))
  THEN setSelected(NewRow(l, row), rowCount(l) + 1, TRUE) ELSE NewRow(l, row)

AddRow(l, row, selected) ==
  IF row.data \in selected THEN setSelected(NewRow(l, row), rowCount(l) + 1, TRUE)
                           ELSE NewRow(l, row)

\* Browser::fillList, Manager::refresh: rows that were selected are selected again.
Refill(rs) ==
  LET selected == SelectedData(list)
      filled[k \in 0..Len(rs)] == IF k = 0 THEN setFilter(clear(list), list.filter)
                                  ELSE AddRow(filled[k - 1], rs[k], selected)
  IN User /\ Edited(filled[Len(rs)])

SetFilter(f) ==
  /\ User
  /\ window = "browser"
  /\ Edited(setFilter(list, f))

ColumnClick(c) == User /\ Edited(onColumnClick(list, c))

ResetColumns == User /\ list.sort # NoSort /\ Edited(resetColumns(list))

Select(i, on) ==
  /\ User
  /\ i \in 0..visibleRowCount(list)
  /\ list' = [list EXCEPT !.items = SetState(@, i, on)]

Reopen ==
  /\ User
  /\ list' = restoreState(Empty(DefaultSort(window), AllRows), list.sort)

-----------------------------------------------------------------------------
(* Browser::listDo *)

BeginDo ==
  /\ pc = "rest"
  /\ window = "browser"
  /\ pc' = "do"
  /\ todo' = selection(list)
  /\ chosen' = SelectedData(list)
  /\ UNCHANGED <<window, list, offset, keep, visited>>

Current(index) == index - offset

\* What is done to a row changes a text or, in the view of queued actions, removes
\* the row.  getEntry gives nothing for a negative index.
DoNext ==
  LET u == Current(Head(todo))
  IN /\ pc = "do"
     /\ todo # <<>>
     /\ todo' = Tail(todo)
     /\ pc' = IF u > rowCount(list) THEN "undefined" ELSE pc
     /\ IF u \notin DOMAIN list.rows THEN UNCHANGED <<list, offset, visited>>
        ELSE /\ visited' = Append(visited, list.rows[u].data)
             /\ \/ /\ list' = removeRow(list, u)
                   /\ offset' = offset + 1
                \/ /\ \E v \in Values : list' = setCell(list, u, 1, v)
                   /\ UNCHANGED offset
     /\ UNCHANGED <<window, keep, chosen>>

EndDo ==
  /\ pc = "do"
  /\ todo = <<>>
  /\ Edited(list)
  /\ Idle
  /\ UNCHANGED window

-----------------------------------------------------------------------------
(* Manager::uninstall *)

BeginUninstall ==
  /\ pc = "rest"
  /\ window = "manager"
  /\ ~SelectedData(list) \subseteq Protected
  /\ AnySelection \/ SelectedData(list) \cap Protected = {}
  /\ pc' = "uninstall"
  /\ chosen' = SelectedData(list)
  /\ UNCHANGED <<window, list, todo, offset, keep, visited>>

Remaining == Len(SelectedInView(list)) - keep

\* A row past the end is the null remote, which removeRow then looks for.
UninstallNext ==
  LET index == currentIndex(list) + keep
  IN /\ pc = "uninstall"
     /\ Remaining > 0
     /\ IF index > rowCount(list)
        THEN pc' = "undefined" /\ UNCHANGED <<list, keep, visited>>
        ELSE IF list.rows[index].data \in Protected
        THEN keep' = keep + 1 /\ UNCHANGED <<pc, list, visited>>
        ELSE /\ visited' = Append(visited, list.rows[index].data)
             /\ list' = removeRow(list, index)
             /\ UNCHANGED <<pc, keep>>
     /\ UNCHANGED <<window, todo, offset, chosen>>

EndUninstall ==
  /\ pc = "uninstall"
  /\ Remaining <= 0
  /\ Idle
  /\ UNCHANGED <<window, list>>

-----------------------------------------------------------------------------
Selects == \E i \in 0..visibleRowCount(list), on \in BOOLEAN : Select(i, on)

ListNext ==
  \/ Selects
  \/ \E rs \in Contents : Refill(rs)
  \/ \E f \in Filters : SetFilter(f)
  \/ \E c \in Columns : ColumnClick(c)
  \/ ResetColumns \/ Reopen
  \/ BeginDo \/ DoNext \/ EndDo
  \/ BeginUninstall \/ UninstallNext \/ EndUninstall

ListSpec == ListInit /\ [][ListNext]_listVars

-----------------------------------------------------------------------------
(* Properties *)

\* A row knows its number and where it is shown.
IndexesAgree ==
  \A u \in DOMAIN list.rows :
    /\ list.rows[u].userIndex = u
    /\ list.rows[u].viewIndex =
         IF \E i \in DOMAIN list.items : list.items[i].param = u
         THEN CHOOSE i \in DOMAIN list.items : list.items[i].param = u ELSE 0

\* A row knows its number and where it is shown, also between two removals of a
\* loop; at rest, what is shown is what there is: an item for each row that matches the filter,
\* under the row's number and with its texts, in the order of the column whose
\* header has the arrow, ties in the order of the rows.  Rows without data in that
\* column come first or last, in any order (listview.cpp:144-324).
ViewShowsRows ==
  /\ IndexesAgree
  /\ pc = "rest" =>
    LET shown(i) == list.rows[list.items[i].param]
    IN /\ {list.items[i].param : i \in DOMAIN list.items} =
            {u \in DOMAIN list.rows : Matches(list.filter, list.rows[u].cells)}
       /\ \A i \in DOMAIN list.items : list.items[i].texts = shown(i).cells
       /\ \A i, j \in DOMAIN list.items :
            i < j => /\ list.items[i].param # list.items[j].param
                     /\ \E tie \in Ties(list) :
                          Precedes(list, tie, list.items[i].param, list.items[j].param)
       /\ list.arrow = list.sort

\* Rows that stay in view stay selected or not through sorting, filtering,
\* refilling and the removal of others; only the user changes that.
SelectionIsKept ==
  [][~Selects => \A d \in InView(list) \cap InView(list') :
                   d \in SelectedData(list) <=> d \in SelectedData(list')]_listVars

\* A loop over the selection acts on each row that was selected, once, and on no
\* other, while the indexes of the rows change under it (browser.cpp:794-819,
\* manager.cpp:416-433); the manager keeps the protected ones.
LoopsVisitTheSelection ==
  /\ pc # "undefined"
  /\ ToSet(visited) \subseteq chosen
  /\ Cardinality(ToSet(visited)) = Len(visited)
  /\ pc = "do" /\ todo = <<>> => ToSet(visited) = chosen
  /\ pc = "uninstall" /\ Remaining <= 0 => ToSet(visited) = chosen \ Protected
=============================================================================
