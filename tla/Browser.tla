------------------------------- MODULE Browser -------------------------------
(***************************************************************************)
(* The package browser (browser.cpp, browser_entry.cpp) and the application *)
(* object around it (reapack.cpp): what the user asks of each package is    *)
(* kept in entries that are made again whenever a transaction changed the   *)
(* registry or an index, and becomes tasks of the current transaction.      *)
(*                                                                          *)
(* The transaction is reduced to when it starts and ends, what its tasks do *)
(* to the registry and what its receipt says, see Transaction for the rest. *)
(* The browser is locked while the report of a transaction is shown; other  *)
(* windows that are not are left out.  One repository is configured.        *)
(***************************************************************************)
EXTENDS Versions, SequencesExt

CONSTANTS
  Packages,     \* sequence of the packages, in the order of the index
  Indexes,      \* contents the index may have: sequence of versions by package
  Registered,   \* contents the registry may have at first
  BleedingEdge, \* config()->install.bleedingEdge
  IsProtected,  \* the repository is
  Views,        \* the views the user looks at
  MaxCommands   \* what the user and other windows do (a bound)

Package == ToSet(Packages)
Flag == {"pinned", "bleedingEdge"}

ASSUME BrowserAssumption ==
  /\ Packages \in Seq(Package) /\ IsInjective(Packages)
  /\ \A index \in Indexes :
       DOMAIN index = Package /\ \A p \in Package : Absent \notin ToSet(index[p])
  /\ \A reg \in Registered : DOMAIN reg = Package
  /\ Views \subseteq {"all", "queued", "installed", "outOfDate", "obsolete", "uninstalled"}
  /\ BleedingEdge \in BOOLEAN /\ IsProtected \in BOOLEAN /\ MaxCommands \in Nat

VARIABLES
  registry,  \* Registry::Entry of each package, in the file
  cached,    \* the index in the cache
  enabled,   \* the repository is
  tx,        \* m_tx
  phase,     \* where Transaction::finish is; "rest" outside of it
  window,    \* "none", "hidden" or "shown"
  loadState, \* m_loadState
  entries,   \* m_entries, by package
  actions,   \* m_actions
  rows,      \* rows of m_list
  view,      \* currentView()
  button,    \* m_applyBtn is enabled
  menu,      \* a menu is open
  current,   \* m_currentIndex, 0 for -1
  pointed,   \* {} or the package under the cursor when the menu was opened
  refused,   \* packages whose task was refused at once since the list was filled
  closing,   \* the window is closed once apply() returns
  commands   \* what was done so far (a bound)

application == <<registry, cached, enabled, tx, phase>>
lists == <<entries, actions, rows, button>>
browser == <<window, loadState, lists, view, current, refused>>
pointer == <<menu, current, pointed>>
vars == <<application, window, loadState, lists, view, pointer, refused, closing, commands>>

NotInstalled == [version |-> NoVersion, flags |-> {}]
Installed(reg) == reg.version # NoVersion

\* The members of s that are in K, in their order.
Only(s, K) ==
  LET kept[k \in 0..Len(s)] == IF k = 0 THEN <<>>
                               ELSE IF s[k] \in K THEN Append(kept[k - 1], s[k]) ELSE kept[k - 1]
  IN kept[Len(s)]

NoTransaction ==
  [open |-> FALSE, tasks |-> {}, other |-> FALSE, fetch |-> FALSE, first |-> FALSE,
   cancelled |-> FALSE, refresh |-> FALSE, index |-> {}]

-----------------------------------------------------------------------------
(* Browser::Entry.  target is an optional pointer: <<>>, <<Absent>> for      *)
(* nullptr, <<version>>; flags is optional as well.                          *)

Entry(reg, versions, latest, is) ==
  [reg |-> reg, versions |-> versions, latest |-> latest,
   current |-> findVersion(versions, reg.version), is |-> is, target |-> <<>>, flags |-> <<>>]

ListedEntry(reg, versions) ==
  LET pres == BleedingEdge \/ "bleedingEdge" \in reg.flags
      latest == lastVersion(versions, pres, reg.version)
      newer == Installed(reg) /\ latest # Absent /\ Less(reg.version, latest)
  IN Entry(reg, versions, IF latest = Absent THEN lastVersion(versions, TRUE, NoVersion) ELSE latest,
           (IF Installed(reg) THEN {"installed"} ELSE {"uninstalled"})
             \union (IF newer THEN {"outOfDate"} ELSE {})
             \union (IF IsProtected THEN {"protected"} ELSE {}))

ObsoleteEntry(reg) == Entry(reg, <<>>, Absent, {"installed", "obsolete"})

CanSetTarget(e, v, allowToggle) == allowToggle \/ e.target # <<v>>
CanInstallLatest(e, allowToggle) ==
  e.is \cap {"uninstalled", "outOfDate"} # {} /\ CanSetTarget(e, e.latest, allowToggle)
CanReinstall(e, allowToggle) ==
  "installed" \in e.is /\ "obsolete" \notin e.is /\ e.current # Absent
  /\ CanSetTarget(e, e.current, allowToggle)
CanUninstall(e, allowToggle) ==
  "installed" \in e.is /\ "protected" \notin e.is /\ CanSetTarget(e, Absent, allowToggle)
CanToggleFlags(e) ==
  IF e.target # <<>> THEN e.target # <<Absent>> ELSE "installed" \in e.is

FlagsOf(e) == IF e.flags = <<>> THEN e.reg.flags ELSE e.flags[1]

displayState(e) ==
  [status |-> IF "obsolete" \in e.is THEN "o" ELSE IF "outOfDate" \in e.is THEN "u"
              ELSE IF "installed" \in e.is THEN "i" ELSE " ",
   has |-> e.reg.flags,
   target |-> IF e.target = <<>> THEN " " ELSE IF e.target = <<Absent>> THEN "R" ELSE "I",
   changes |-> IF CanToggleFlags(e) THEN SymDiff(e.reg.flags, FlagsOf(e)) ELSE {}]

-----------------------------------------------------------------------------
(* Commands for one entry: the entry after it, {} when the command does not  *)
(* apply and updateAction is not called.                                     *)

toggleTarget(e, v) == [e EXCEPT !.target = IF e.target = <<v>> THEN <<>> ELSE <<v>>]

toggleFlag(e, flag) ==
  LET new == SymDiff(FlagsOf(e), {flag})
  IN [e EXCEPT !.flags = IF new = e.reg.flags THEN <<>> ELSE <<new>>]

AllVersions ==
  UNION {UNION {ToSet(index[p]) : p \in Package} : index \in Indexes}

Commands ==
  [what : {"latest", "reinstall", "uninstall", "reset"}]
    \union [what : {"flag"}, flag : Flag]
    \union [what : {"version"}, version : AllVersions]

Perform(e, c, allowToggle) ==
  CASE c.what = "latest" -> IF CanInstallLatest(e, allowToggle) THEN {toggleTarget(e, e.latest)} ELSE {}
    [] c.what = "reinstall" -> IF CanReinstall(e, allowToggle) THEN {toggleTarget(e, e.current)} ELSE {}
    [] c.what = "uninstall" -> IF CanUninstall(e, allowToggle) THEN {toggleTarget(e, Absent)} ELSE {}
    [] c.what = "reset" -> {[e EXCEPT !.target = <<>>, !.flags = <<>>]}
    [] c.what = "flag" -> IF CanToggleFlags(e) THEN {toggleFlag(e, c.flag)} ELSE {}
    [] c.what = "version" ->
         IF c.version \notin ToSet(e.versions) THEN {}
         ELSE IF c.version # e.current THEN {toggleTarget(e, c.version)}
         ELSE IF e.target # <<>> THEN {[e EXCEPT !.target = <<>>]} ELSE {}

-----------------------------------------------------------------------------
(* The list.  state is a record of entries, actions, rows and view. *)

Lists == [entries |-> entries, actions |-> actions, rows |-> rows, view |-> view]

Set(state) ==
  /\ entries' = state.entries /\ actions' = state.actions /\ rows' = state.rows

Matches(p, state) ==
  CASE state.view = "all" -> TRUE
    [] state.view = "queued" -> p \in ToSet(state.actions)
    [] OTHER -> state.view \in state.entries[p].is

\* Entries in the order they were made: the index, then obsolete packages.
Order(es) ==
  Only(Packages, {p \in DOMAIN es : "obsolete" \notin es[p].is})
    \o Only(Packages, {p \in DOMAIN es : "obsolete" \in es[p].is})

Selected == {rows[i].package : i \in {j \in DOMAIN rows : rows[j].selected}}

NewRow(p, state) ==
  [package |-> p, cell |-> displayState(state.entries[p]), selected |-> p \in Selected]

fillList(state) ==
  LET shown == Only(Order(state.entries), {p \in DOMAIN state.entries : Matches(p, state)})
  IN [state EXCEPT !.rows = [i \in DOMAIN shown |-> NewRow(shown[i], state)]]

\* Mutant: a row without action stays in the list of queued ones.
MutantupdateAction(state, i) ==
  LET p == state.rows[i].package
      e == state.entries[p]
      idle == e.target = <<>> /\ (e.flags = <<>> \/ ~CanToggleFlags(e))
      queued == IF idle THEN Only(state.actions, ToSet(state.actions) \ {p})
                ELSE IF p \in ToSet(state.actions) THEN state.actions
                ELSE Append(state.actions, p)
  IN [state EXCEPT !.actions = queued, !.rows[i].cell = displayState(e)]

updateAction(state, i) ==
  LET p == state.rows[i].package
      e == state.entries[p]
      idle == e.target = <<>> /\ (e.flags = <<>> \/ ~CanToggleFlags(e))
      queued == IF idle THEN Only(state.actions, ToSet(state.actions) \ {p})
                ELSE IF p \in ToSet(state.actions) THEN state.actions
                ELSE Append(state.actions, p)
  IN IF state.view = "queued" /\ idle
       THEN [state EXCEPT !.actions = queued, !.rows = RemoveAt(state.rows, i)]
     ELSE [state EXCEPT !.actions = queued, !.rows[i].cell = displayState(e)]

\* The command for the row of an index, if that is a row.
Do(c, allowToggle, state, i) ==
  IF i \notin DOMAIN state.rows THEN state
  ELSE LET p == state.rows[i].package
           done == Perform(state.entries[p], c, allowToggle)
       IN IF done = {} THEN state
          ELSE updateAction([state EXCEPT !.entries[p] = CHOOSE e \in done : TRUE], i)

\* Rows removed so far are as many indexes less.
DoNext(c, allowToggle, state, i) == Do(c, allowToggle, state, i - (Len(rows) - Len(state.rows)))

listDo(c, allowToggle, indexes) ==
  LET after[k \in 0..Len(indexes)] ==
        IF k = 0 THEN Lists ELSE DoNext(c, allowToggle, after[k - 1], indexes[k])
  IN after[Len(indexes)]

-----------------------------------------------------------------------------
(* Entries made again *)

\* Mutant: a package to uninstall has no version to look for either.
MutantTarget(p, es) ==
  LET target == entries[p].target
  IN IF target = <<>> THEN {target}
     ELSE {<<v>> : v \in {findVersion(es[p].versions, target[1])} \ {Absent}}

\* The version of the same name in the new entry, {} when there is none.
Target(p, es) ==
  LET target == entries[p].target
  IN IF target \in {<<>>, <<Absent>>} THEN {target}
     ELSE {<<v>> : v \in {findVersion(es[p].versions, target[1])} \ {Absent}}

transferActions(es) ==
  LET Kept == {p \in ToSet(actions) \cap DOMAIN es : Target(p, es) # {}}
  IN [entries |-> [p \in DOMAIN es |->
        IF p \in Kept
          THEN [es[p] EXCEPT !.target = IF entries[p].target = <<>> THEN @
                                        ELSE CHOOSE t \in Target(p, es) : TRUE,
                             !.flags = IF entries[p].flags = <<>> THEN @ ELSE entries[p].flags]
        ELSE es[p]],
      actions |-> Only(actions, Kept), rows |-> rows, view |-> view]

\* The entries of an index, all those of the registry that it lacks included.
MakeEntries(index, reg) ==
  LET Listed(p) == index[p] # <<>>
  IN [p \in {q \in Package : Listed(q) \/ Installed(reg[q])} |->
        IF Listed(p) THEN ListedEntry(reg[p], index[p]) ELSE ObsoleteEntry(reg[p])]

NoEntries == [p \in {} |-> 0]

\* indexes: the index of the repository or none; m_currentIndex names no row of
\* the new list.
populate(indexes, reg) ==
  LET state == transferActions(IF indexes = {} THEN NoEntries
                               ELSE MakeEntries(CHOOSE i \in indexes : TRUE, reg))
  IN /\ Set(fillList(state))
     /\ current' = 0
     /\ button' = (button /\ state.actions # <<>>)
     /\ refused' = {}
     /\ window' = "shown"

-----------------------------------------------------------------------------
(* The window *)

Init ==
  /\ registry \in Registered /\ cached \in Indexes /\ enabled = TRUE
  /\ tx = NoTransaction /\ phase = "rest"
  /\ window = "none" /\ loadState = "Init"
  /\ entries = NoEntries /\ actions = <<>> /\ rows = <<>> /\ button = FALSE
  /\ view = "all"
  /\ menu = FALSE /\ current = 0 /\ pointed = {}
  /\ refused = {} /\ closing = FALSE /\ commands = 0

\* The dialog is destroyed.
Close ==
  /\ window' = "none" /\ loadState' = "Init"
  /\ entries' = NoEntries /\ actions' = <<>> /\ rows' = <<>> /\ button' = FALSE
  /\ view' = "all" /\ current' = 0 /\ refused' = {}

\* Mutant: the handler that waits for the indexes loses its dialog.
MutantCloseOrHide == Close

\* IDCANCEL
CloseOrHide ==
  IF loadState = "Loading"
    THEN window' = "hidden" /\ UNCHANGED <<loadState, lists, view, current, refused>>
    ELSE Close

\* t is m_tx at the time of the call, on whether the repository is enabled.  One
\* refresh at a time, and none for the transaction the browser just waited for.
refresh(t, on) ==
  \/ /\ loadState = "DeferredLoaded" /\ loadState' = "Loaded" /\ tx' = t
     /\ UNCHANGED <<window, lists, view, current, refused>>
  \/ /\ loadState = "Loading" /\ tx' = t
     /\ UNCHANGED browser
  \/ /\ loadState \in {"Init", "Loaded"} /\ ~on /\ tx' = t
     /\ populate({}, registry) /\ UNCHANGED <<loadState, view>>
  \/ /\ loadState \in {"Init", "Loaded"} /\ on /\ loadState' = "Loading"
     /\ tx' = [t EXCEPT !.open = TRUE, !.fetch = TRUE, !.first = loadState = "Init"]
     /\ window' = IF window = "none" THEN "hidden" ELSE window
     /\ UNCHANGED <<lists, view, current, refused>>

-----------------------------------------------------------------------------
(* Commands.  Each comes at rest; while a menu is open, only from the menu. *)

Command(inMenu) ==
  /\ phase = "rest" /\ ~closing /\ menu = inMenu
  /\ commands < MaxCommands /\ commands' = commands + 1

Data == <<registry, cached, enabled, phase>>

\* ReaPack::browsePackages, which the bound leaves out.
BrowsePackages ==
  /\ phase = "rest" /\ ~closing /\ ~menu /\ UNCHANGED commands
  /\ \/ window = "none" /\ refresh(tx, enabled)
     \/ window # "none" /\ window' = "shown"
        /\ UNCHANGED <<tx, loadState, lists, view, current, refused>>
  /\ UNCHANGED <<Data, menu, pointed, closing>>

RefreshButton ==
  /\ Command(FALSE) /\ window = "shown" /\ refresh(tx, enabled)
  /\ UNCHANGED <<Data, menu, pointed, closing>>

\* These cost nothing: they are needed to give a command.
Look == phase = "rest" /\ ~closing /\ ~menu /\ window = "shown" /\ UNCHANGED <<application, window,
                              loadState, entries, actions, button, refused, closing, commands>>

SetView(v) ==
  /\ Look /\ view' = v /\ rows' = fillList([Lists EXCEPT !.view = v]).rows
  /\ UNCHANGED pointer

Select(S) ==
  /\ Look /\ rows' = [i \in DOMAIN rows |-> [rows[i] EXCEPT !.selected = i \in S]]
  /\ UNCHANGED <<view, pointer>>

\* The row under the cursor or the first selected one; 0 when there is none.
OpenMenu(i) ==
  /\ Look /\ menu' = TRUE /\ current' = i
  /\ pointed' = IF i = 0 THEN {} ELSE {rows[i].package}
  /\ UNCHANGED <<rows, view>>

CloseMenu == menu' = FALSE /\ pointed' = {}

DismissMenu ==
  /\ phase = "rest" /\ menu /\ CloseMenu
  /\ UNCHANGED <<application, browser, closing, commands>>

ListDo(state) ==
  /\ Command(TRUE) /\ CloseMenu /\ Set(state) /\ button' = (state.actions # <<>>)
  /\ UNCHANGED <<application, window, loadState, view, current, refused, closing>>

currentDo(c) ==
  c.what # "reset" /\ ListDo(listDo(c, TRUE, IF current = 0 THEN <<>> ELSE <<current>>))

\* ListView::selection
Selection == Only([i \in DOMAIN rows |-> i], {i \in DOMAIN rows : rows[i].selected})

selectionDo(c) ==
  /\ c.what \notin {"flag", "version"} /\ ListDo(listDo(c, FALSE, Selection))

\* The button is at hand even when nothing is queued, Apply is not.
Cancel ==
  /\ Command(FALSE) /\ window = "shown" /\ CloseOrHide
  /\ UNCHANGED <<application, menu, pointed, closing>>

-----------------------------------------------------------------------------
(* Tasks *)

TaskOf(p, e) ==
  IF e.target = <<Absent>> THEN [kind |-> "uninstall", package |-> p]
  ELSE IF e.target # <<>>
    THEN [kind |-> "install", package |-> p, version |-> e.target[1], flags |-> FlagsOf(e)]
  ELSE [kind |-> "flags", package |-> p, flags |-> FlagsOf(e)]

Applied == [p \in DOMAIN entries |->
              IF p \notin ToSet(actions) THEN entries[p]
              ELSE IF entries[p].target # <<>> THEN [entries[p] EXCEPT !.target = <<>>]
              ELSE [entries[p] EXCEPT !.flags = <<>>]]

\* runTasks() waits for jobs: the rows are made to show that nothing is queued.
ApplyRows(es) ==
  IF view = "queued" THEN <<>>
  ELSE [i \in DOMAIN rows |-> [rows[i] EXCEPT !.cell = displayState(es[rows[i].package])]]

\* Without jobs, as when every install is refused, the transaction ends at once.
Apply(andClose) ==
  LET tasks == {TaskOf(p, entries[p]) : p \in ToSet(actions)}
  IN /\ Command(FALSE) /\ window = "shown" /\ actions # <<>>
     /\ tx' = [tx EXCEPT !.open = TRUE, !.tasks = @ \union tasks]
     /\ \/ /\ ~tx.open /\ phase' = "ending" /\ closing' = andClose
           /\ entries' = Applied /\ actions' = <<>> /\ button' = FALSE
           /\ refused' = refused \union ToSet(actions)
           /\ UNCHANGED <<rows, window, loadState, view, current>>
        \/ /\ \/ tx.open \/ \E t \in tasks : t.kind = "install"
           /\ UNCHANGED <<phase, closing>>
           /\ IF andClose /\ loadState # "Loading" THEN Close
              ELSE /\ entries' = Applied /\ actions' = <<>> /\ button' = FALSE
                   /\ rows' = ApplyRows(Applied)
                   /\ window' = IF andClose THEN "hidden" ELSE window
                   /\ UNCHANGED <<loadState, view, current, refused>>
     /\ UNCHANGED <<registry, cached, enabled, menu, pointed>>

CloseAfterApply ==
  /\ closing /\ phase = "rest" /\ closing' = FALSE
  /\ IF window = "none" THEN UNCHANGED browser ELSE CloseOrHide
  /\ UNCHANGED <<application, menu, pointed, commands>>

\* Synchronization, the about window, an import or the API.
Elsewhere ==
  /\ Command(FALSE) /\ tx' = [tx EXCEPT !.open = TRUE, !.other = TRUE]
  /\ UNCHANGED <<browser, Data, menu, pointed, closing>>

\* Manager::apply and ReaPack::commitConfig.
ToggleRepository ==
  /\ Command(FALSE) /\ enabled' = ~enabled
  /\ UNCHANGED <<registry, cached, phase, menu, pointed, closing>>
  /\ \/ tx.open /\ tx' = [tx EXCEPT !.refresh = TRUE] /\ UNCHANGED browser
     \/ ~tx.open /\ window # "none" /\ refresh(tx, ~enabled)
     \/ ~tx.open /\ window = "none" /\ UNCHANGED <<tx, browser>>

-----------------------------------------------------------------------------
(* Transaction::finish *)

\* The registry after the tasks that succeeded.
Effects(tasks) ==
  [p \in Package |->
     IF \E t \in tasks : t.package = p
       THEN LET t == CHOOSE t \in tasks : t.package = p
            IN CASE t.kind = "install" -> [version |-> t.version, flags |-> t.flags]
                 [] t.kind = "uninstall" -> NotInstalled
                 [] t.kind = "flags" -> IF Installed(registry[p]) THEN [registry[p] EXCEPT !.flags = t.flags]
                                        ELSE registry[p]
     ELSE registry[p]]

\* What the tasks of others do: to one package, of the index or not.
Others(reg) ==
  {reg} \union {[reg EXCEPT ![p] = [version |-> v, flags |-> {}]] :
                  p \in Package, v \in AllVersions \union {NoVersion}}

\* Everything queued is over.  The indexes were loaded, or could not be.
Commit ==
  /\ tx.open /\ phase \in {"rest", "ending"}
  /\ \E done \in SUBSET tx.tasks, index \in Indexes, loaded \in BOOLEAN :
       /\ phase = "ending" => (\A t \in done : t.kind # "install") /\ index = cached
       /\ tx.fetch \/ tx.other \/ index = cached
       /\ registry' \in IF tx.other THEN Others(Effects(done)) ELSE {Effects(done)}
       /\ cached' = index
       /\ tx' = [tx EXCEPT !.refresh = @ \/ done # {} \/ registry' # registry \/ index # cached,
                          !.index = IF tx.fetch /\ loaded THEN {index} ELSE {}]
  /\ phase' \in {"report", "handlers"}
  /\ UNCHANGED <<enabled, browser, menu, pointed, closing, commands>>

\* All tasks are rolled back; the indexes may have been loaded before that.
Abort ==
  /\ tx.open /\ phase = "rest"
  /\ \E loaded \in BOOLEAN :
       tx' = [tx EXCEPT !.cancelled = TRUE, !.index = IF tx.fetch /\ loaded THEN {cached} ELSE {}]
  /\ phase' = "handlers"
  /\ UNCHANGED <<registry, cached, enabled, browser, menu, pointed, closing, commands>>

CloseReport ==
  /\ phase = "report" /\ phase' = "handlers"
  /\ UNCHANGED <<registry, cached, enabled, tx, browser, menu, pointed, closing, commands>>

\* Mutant: the next refresh is always skipped.
MutantAfterLoad == "DeferredLoaded"

AfterLoad == IF tx.refresh THEN "DeferredLoaded" ELSE "Loaded"

\* The handler that Browser::refresh subscribed.
OnFinish ==
  /\ phase = "handlers" /\ phase' = "teardown"
  /\ IF ~tx.fetch THEN UNCHANGED browser
     ELSE IF tx.first \/ window = "shown"
       THEN populate(tx.index, registry) /\ loadState' = AfterLoad /\ UNCHANGED view
     ELSE Close
  /\ UNCHANGED <<registry, cached, enabled, tx, menu, pointed, closing, commands>>

\* ReaPack::teardownTransaction, then ReaPack::refreshBrowser.
Teardown ==
  /\ phase = "teardown" /\ phase' = "rest"
  /\ IF tx.refresh /\ window # "none" THEN refresh(NoTransaction, enabled)
     ELSE tx' = NoTransaction /\ UNCHANGED browser
  /\ UNCHANGED <<registry, cached, enabled, menu, pointed, closing, commands>>

Next ==
  \/ BrowsePackages
  \/ RefreshButton
  \/ \E v \in Views : SetView(v)
  \/ \E S \in SUBSET DOMAIN rows : Select(S)
  \/ \E i \in 0..Len(rows) : OpenMenu(i)
  \/ DismissMenu
  \/ \E c \in Commands : currentDo(c) \/ selectionDo(c)
  \/ Cancel
  \/ \E andClose \in BOOLEAN : Apply(andClose)
  \/ CloseAfterApply
  \/ Elsewhere
  \/ ToggleRepository
  \/ Commit
  \/ Abort
  \/ CloseReport
  \/ OnFinish
  \/ Teardown

Spec == Init /\ [][Next]_vars

-----------------------------------------------------------------------------
(* Properties *)

\* The handler of a refresh is a method of the dialog: the dialog lives, and
\* knows that it is waiting, until the handler was called.
HandlerHasItsBrowser ==
  tx.fetch /\ phase # "teardown" => window # "none" /\ loadState = "Loading"

\* With no transaction under way, the entries of a loaded browser, or those whose
\* refresh is over, are what the registry has, and none that it has is missing
\* from a list with any entry: no refresh that mattered was skipped.
ShowsTheRegistry ==
  ~tx.open /\ window = "shown" /\ ~closing =>
    /\ loadState # "Loading"
    /\ \A p \in DOMAIN entries : entries[p].reg = registry[p]
    /\ DOMAIN entries # {} => \A p \in Package : Installed(registry[p]) => p \in DOMAIN entries

\* The list tells what Apply would do: the first column of every row is the state
\* of its entry, but where tasks were refused and the list not filled since; the
\* view of queued actions is the queue, and the button is enabled when there is
\* one.  Entries outside of the queue have no target.
ListTellsTheQueue ==
  /\ \A i \in DOMAIN rows :
       rows[i].cell = displayState(entries[rows[i].package]) \/ rows[i].package \in refused
  /\ view = "queued" => {rows[i].package : i \in DOMAIN rows} \ refused = ToSet(actions) \ refused
  /\ button <=> actions # <<>>
  /\ \A p \in DOMAIN entries : entries[p].target # <<>> => p \in ToSet(actions)

\* What the user asked of a package, and what became of it.
Wish(p) ==
  IF p \in ToSet(actions) THEN [target |-> entries[p].target, flags |-> entries[p].flags]
  ELSE [target |-> <<>>, flags |-> <<>>]

NamesAVersion(target) == target \notin {<<>>, <<Absent>>}

SameWish(w, z) ==
  /\ w.flags = z.flags
  /\ \/ w.target = z.target
     \/ /\ NamesAVersion(w.target) /\ NamesAVersion(z.target)
        /\ Same(w.target[1], z.target[1])

\* What was asked of a package changes only with a command given with this package
\* selected or under the cursor, when it becomes a task or is thrown away with the
\* window, or when the package or the version asked for is gone: whatever rows
\* were removed, added, or made again meanwhile.  A version keeps its wish when the
\* index comes to name it in another way that compares as the same.
WishesAreKept ==
  [][\A p \in Package : ~SameWish(Wish(p), Wish(p)') =>
       \/ p \in Selected /\ \E c \in Commands : selectionDo(c)
       \/ p \in pointed /\ \E c \in Commands : currentDo(c)
       \/ actions' = <<>> /\ TaskOf(p, entries[p]) \in tx'.tasks
       \/ window' = "none"
       \/ /\ phase' # phase \/ enabled' # enabled \/ ~enabled
          /\ p \notin ToSet(actions')
          /\ \/ p \notin DOMAIN entries'
             \/ /\ NamesAVersion(entries[p].target)
                /\ \A v \in ToSet(entries'[p].versions) : ~Same(v, entries[p].target[1])]_vars
=============================================================================
