----------------------------- MODULE AboutWindow -----------------------------
(***************************************************************************)
(* The window about a repository or a package (about.cpp): what its menu of *)
(* categories or versions has selected, and the list of packages or files   *)
(* beside it.  One window shows one thing after the other; the delegate     *)
(* says which.  RowTexts are the ranks that ListView compares.              *)
(***************************************************************************)
EXTENDS ListView

CONSTANTS
  Indexes,     \* indexes in memory, of one repository or of several
  Content,     \* of an index: its categories, [name, packages]; a package is
               \* [name, versions], a version [name, files], oldest first
  Versions,    \* versions that may be installed, 0 for none
  AllPackages, \* the text of the first row of the menu
  NoFilter,    \* nothing is filtered in this window
  None         \* no window

\* RowTexts of the rows, for a package those of its versions and files.
TextsOf(package) ==
  {package.name} \cup UNION {{v.name} \cup ToSet(v.files) : v \in ToSet(package.versions)}

RowTexts ==
  {NoData, AllPackages} \cup
  UNION {UNION {{c.name} \cup UNION {TextsOf(p) : p \in ToSet(c.packages)} :
                  c \in ToSet(Content[x])} : x \in Indexes}

\* A package without versions is not added to its category.
ASSUME AboutAssumption ==
  /\ NoFilter \in Filters /\ None \notin Indexes /\ RowTexts \subseteq Nat
  /\ \A cells \in [Columns -> RowTexts] : Matches(NoFilter, cells)
  /\ \A x \in Indexes :
       /\ Content[x] \in Seq(ToSet(Content[x]))
       /\ \A c \in ToSet(Content[x]) :
            /\ c.packages \in Seq(ToSet(c.packages))
            /\ \A p \in ToSet(c.packages) :
                 /\ p.versions \in Seq(ToSet(p.versions)) /\ Len(p.versions) > 0
                 /\ \A v \in ToSet(p.versions) : v.files \in Seq(ToSet(v.files))

VARIABLES
  delegate, \* m_delegate: [index, at, current]; None while there is no window
  menu,     \* m_menu
  details,  \* m_list
  current   \* m_currentIndex

aboutVars == <<delegate, menu, details, current>>

\* A package is at <<category, position>>; an index is a delegate at <<>>.
NotSet == -255
Cleared == Empty([column |-> 1, order |-> "asc"], NoFilter)

AboutInit == delegate = None /\ menu = Cleared /\ details = Cleared /\ current = NotSet

PackagesOf(x, c) == {<<c, p>> : p \in DOMAIN Content[x][c].packages}
PackageAt(x, at) == Content[x][at[1]].packages[at[2]]
Package(d) == PackageAt(d.index, d.at)
Subject(d) == <<d.index, d.at>>   \* data()

-----------------------------------------------------------------------------
(* Rows *)

Row(data, texts) ==
  [data |-> data, cells |-> [c \in Columns |-> IF c \in DOMAIN texts THEN texts[c] ELSE NoData]]

Fill(l, rs) ==
  LET filled[k \in 0..Len(rs)] == IF k = 0 THEN l ELSE NewRow(filled[k - 1], rs[k])
  IN filled[Len(rs)]

\* The controls have the style LVS_SINGLESEL.
SelectOnly(l, u) == setSelected(setSelected(l, 0, FALSE), u, TRUE)

IndexMenu(x) ==
  <<Row(None, <<AllPackages>>)>> \o [c \in DOMAIN Content[x] |-> Row(None, <<Content[x][c].name>>)]

PackageMenu(d) ==
  [v \in DOMAIN Package(d).versions |-> Row(None, <<Package(d).versions[v].name>>)]

\* init of a delegate: its rows, with a version selected in those of a package.
FilledMenu(d) ==
  IF d.at = <<>> THEN Fill(Cleared, IndexMenu(d.index))
  ELSE LET vs == Package(d).versions
           Installed == {v \in DOMAIN vs : vs[v].name = d.current}
           filled == sortByColumn(Fill(Cleared, PackageMenu(d)),
                                  [column |-> 1, order |-> "desc"], FALSE)
       IN SelectOnly(filled, IF Installed = {} THEN Len(vs) ELSE CHOOSE v \in Installed : TRUE)

\* Packages of all categories, in order.
PackageRows(x, Cs) ==
  LET row(at) == Row(at, <<PackageAt(x, at).name, Last(PackageAt(x, at).versions).name>>)
      rowsOf(c) == [p \in DOMAIN Content[x][c].packages |-> row(<<c, p>>)]
  IN FlattenSeq([c \in DOMAIN Content[x] |-> IF c \in Cs THEN rowsOf(c) ELSE <<>>])

\* A file is at <<version, position>>.
FilesOf(d, v) == {<<v, f>> : f \in DOMAIN Package(d).versions[v].files}

FileRows(d, v) ==
  LET files == Package(d).versions[v].files
  IN [f \in DOMAIN files |-> Row(<<v, f>>, <<files[f]>>)]

\* updateList of a delegate, for a row of its menu or 0 (-1).
DetailRows(d, u) ==
  IF d.at = <<>> THEN PackageRows(d.index, IF u <= 1 THEN DOMAIN Content[d.index] ELSE {u - 1})
  ELSE IF u = 0 THEN <<>> ELSE FileRows(d, u)

\* Mutant: the first list of a window is not filled when no row is selected.
MutantSkips(u, shown) == u = 0 \/ u = shown

\* Nothing is done when the selection is cleared, except the first time.
Skips(u, shown) == (u = 0 /\ shown # NotSet) \/ u = shown

DetailsEdited(l) == \E tie \in Ties(l) : details' = endEdit(l, tie)

\* About::updateList: row u of the menu is selected, the list is l for row shown.
updateList(d, u, l, shown) ==
  IF Skips(u, shown) THEN details' = l /\ current' = shown
  ELSE DetailsEdited(Fill(clear(l), DetailRows(d, u))) /\ current' = u

-----------------------------------------------------------------------------
(* What happens to the window *)

\* About::setDelegate.  Another index object or package fills everything again.
Replace(d) ==
  LET filled == FilledMenu(d)
  IN /\ delegate' = d
     /\ \E tie \in Ties(filled) : menu' = endEdit(filled, tie)
     /\ updateList(d, currentIndex(filled), Cleared, NotSet)

IsShown(d) == delegate # None /\ Subject(delegate) = Subject(d)

setDelegate(d) ==
  \/ IsShown(d) /\ UNCHANGED <<delegate, menu, details, current>>
  \/ ~IsShown(d) /\ Replace(d)

\* ReaPack::about and Browser::aboutRemote.
ShowIndex(x) == setDelegate([index |-> x, at |-> <<>>, current |-> 0])

\* Browser::aboutPackage; the installed version may have left the index.
ShowPackage(x, at, version) ==
  setDelegate([index |-> x, at |-> at, current |-> version])
\* The selection of the browser changed, 0.1 s ago: another one of the same kind.
updateAbout(x, at, version) ==
  /\ delegate # None
  /\ IF delegate.at = <<>> THEN ShowIndex(x) ELSE ShowPackage(x, at, version)

\* AboutIndexDelegate::aboutPackage, on the row that is activated: the version that
\* the registry knows, if any.
ActivatePackage(version) ==
  /\ delegate # None /\ delegate.at = <<>>
  /\ currentIndex(details) # 0
  /\ ShowPackage(delegate.index, details.rows[currentIndex(details)].data, version)

\* The action button, About <index>.
ActionButton == delegate # None /\ delegate.at # <<>> /\ ShowIndex(delegate.index)

SelectMenu(i) ==
  LET selected == [menu EXCEPT !.items = SetState(SetState(@, 0, FALSE), i, i > 0)]
  IN /\ delegate # None
     /\ i \in 0..visibleRowCount(menu)
     /\ menu' = selected
     /\ updateList(delegate, currentIndex(selected), details, current)
     /\ UNCHANGED delegate

SelectDetail(i) ==
  /\ delegate # None
  /\ i \in 0..visibleRowCount(details)
  /\ details' = [details EXCEPT !.items = SetState(SetState(@, 0, FALSE), i, i > 0)]
  /\ UNCHANGED <<delegate, menu, current>>

\* The menu has one column.
MenuColumnClick ==
  LET clicked == onColumnClick(menu, 1)
  IN /\ delegate # None
     /\ \E tie \in Ties(clicked) : menu' = endEdit(clicked, tie)
     /\ UNCHANGED <<delegate, details, current>>

DetailColumnClick(c) ==
  /\ delegate # None
  /\ DetailsEdited(onColumnClick(details, c))
  /\ UNCHANGED <<delegate, menu, current>>

\* The window and its lists are destroyed.
Close ==
  /\ delegate # None
  /\ delegate' = None /\ menu' = Cleared /\ details' = Cleared /\ current' = NotSet

PackagesIn(x) == UNION {PackagesOf(x, c) : c \in DOMAIN Content[x]}

AboutNext ==
  \/ \E x \in Indexes : ShowIndex(x)
  \/ \E x \in Indexes, version \in Versions : \E at \in PackagesIn(x) :
       ShowPackage(x, at, version) \/ updateAbout(x, at, version)
  \/ \E version \in Versions : ActivatePackage(version)
  \/ ActionButton
  \/ \E i \in 0..visibleRowCount(menu) : SelectMenu(i)
  \/ \E i \in 0..visibleRowCount(details) : SelectDetail(i)
  \/ MenuColumnClick
  \/ \E c \in Columns : DetailColumnClick(c)
  \/ Close

AboutSpec == AboutInit /\ [][AboutNext]_aboutVars

-----------------------------------------------------------------------------
(* Properties *)

\* What the details may show beside an item of the menu that reads this text.
PackagesUnder(x, text) ==
  {PackagesOf(x, c) : c \in {c \in DOMAIN Content[x] : Content[x][c].name = text}}
    \cup (IF text = AllPackages THEN {PackagesIn(x)} ELSE {})

FilesUnder(d, text) ==
  {FilesOf(d, v) : v \in {v \in DOMAIN Package(d).versions : Package(d).versions[v].name = text}}

\* Beside the menu are the packages of a category, or the files of a version, of the
\* name that its selected item reads, all packages as long as none was selected, and
\* each once, whatever was shown, sorted and selected before (about.cpp:119-168,
\* 269-282); the window about a package always has a version's files.
AboutListsTheSelection ==
  delegate # None =>
    LET picked == {i \in DOMAIN menu.items : menu.items[i].selected}
        shown == {details.rows[details.items[i].param].data : i \in DOMAIN details.items}
        Under(text) == IF delegate.at = <<>> THEN PackagesUnder(delegate.index, text)
                       ELSE FilesUnder(delegate, text)
    IN /\ Cardinality(picked) <= 1
       /\ \A i \in picked : shown \in Under(menu.items[i].texts[1])
       /\ picked = {} => \E i \in DOMAIN menu.items : shown \in Under(menu.items[i].texts[1])
       /\ Len(details.items) = Cardinality(shown)
       /\ current <= 0 => delegate.at = <<>> /\ shown = PackagesIn(delegate.index)
=============================================================================
