------------------------------ MODULE Settings ------------------------------
(***************************************************************************)
(* The repositories and options of the user, and what changes them:         *)
(* config.cpp (the ini file), manager.cpp (pending changes, applied through *)
(* a transaction), import.cpp (addresses fetched in parallel), the About    *)
(* window's "install" and the API's functions, all by way of reapack.cpp.   *)
(* A transaction is what these see of it: synchronizations that end, and    *)
(* handlers that run when it is over.                                       *)
(***************************************************************************)
EXTENDS RemoteList, Integers, FiniteSets

CONSTANTS Self,         \* the protected remote, "ReaPack"
          FirstRemotes, \* the list of remotes read at startup
          Defaults,     \* restoreDefaultRemotes: a sequence of remotes
          MaxSlots,     \* bound on the slots of the ini file
          SizeMax,      \* 2^64, the modulus of m_changes
          NameOf,       \* the name in the index at each address
          Inputs,       \* what the user enters in the import window
          ScriptInputs, \* arguments of AddSetRepository
          MaxCommands   \* bound on the user's commands

ASSUME SettingsAssumption ==
  /\ FirstRemotes \in Seq(Remote)
  /\ \E i \in DOMAIN FirstRemotes : FirstRemotes[i].name = Self
  /\ \A i, j \in DOMAIN FirstRemotes :
       FirstRemotes[i].name = FirstRemotes[j].name => i = j
  /\ Defaults \in Seq(Remote)
  /\ MaxSlots \in Nat
  /\ SizeMax \in Nat \ {0}
  /\ NameOf \in [Urls -> Names]
  /\ Inputs \subseteq Seq(Urls) \ {<<>>}
  /\ ScriptInputs \subseteq Remote
  /\ MaxCommands \in Nat

VARIABLES
  pc,         \* the call the main thread is in, "rest" between two of them
  list,       \* m_config.remotes
  option,     \* m_config.install.autoInstall
  ini,        \* the file: slots of remotes, their number, the option
  rows,       \* names shown by the manager window
  mods,       \* m_mods: by name, the remote it was made for and the changes
  uninstall,  \* m_uninstall
  toggled,    \* m_autoInstall of the manager, an optional: empty or one value
  changes,    \* m_changes
  syncList,   \* apply(): remotes to synchronize, by name
  todo,       \* apply(): entries of m_mods not visited yet
  restored,   \* restoreDefaultRemotes: how many were added
  tx,         \* the transaction
  import,     \* the import window
  commands,   \* given so far
  unsaved,    \* history: changed by a call that leaves saving to another
  drifted     \* history: options reset under a pending change

manager == <<rows, mods, uninstall, toggled, changes>>
applying == <<syncList, todo, restored>>
history == <<unsaved, drifted>>
vars == <<pc, list, option, ini, manager, applying, tx, import, commands,
          history>>

NoTx == [open |-> FALSE, started |-> FALSE, cancelled |-> FALSE, synced |-> {},
         syncs |-> {}, finish |-> <<>>, inhibited |-> {}, late |-> {}]

NoImport == [phase |-> "closed", state |-> "OK", urls |-> <<>>, pending |-> {},
             queue |-> {}, failed |-> {}, done |-> {}]

NoMods == [n \in {} |-> {}]

-----------------------------------------------------------------------------
(* Config *)

\* cleanupArray: slots of remotes that are no longer there.
Erased(l) == (Len(l.remotes) + 1)..ini.size

Saved(l, o) ==
  [slots |-> [k \in 1..MaxSlots |->
                IF k <= Len(l.remotes) THEN l.remotes[k]
                ELSE IF k \in Erased(l) THEN NoRemote
                ELSE ini.slots[k]],
   size |-> Len(l.remotes),
   option |-> o]

\* The slots are read in their order, into an empty list.
ReadRemotes(file) ==
  LET read[k \in 0..file.size] ==
        IF k = 0 THEN EmptyList ELSE AddTo(read[k - 1], file.slots[k])
  IN read[file.size]

Write(l, o) ==
  /\ ini' = Saved(l, o)
  /\ unsaved' = FALSE

Init ==
  /\ pc = "rest"
  /\ list = [remotes |-> FirstRemotes,
             map |-> [n \in {r.name : r \in ToSet(FirstRemotes)} |->
                        CHOOSE i \in DOMAIN FirstRemotes : FirstRemotes[i].name = n]]
  /\ option = FALSE
  /\ ini = [slots |-> [k \in 1..MaxSlots |->
                         IF k <= Len(FirstRemotes) THEN FirstRemotes[k] ELSE NoRemote],
            size |-> Len(FirstRemotes),
            option |-> FALSE]
  /\ rows = {r.name : r \in ToSet(FirstRemotes)}
  /\ mods = NoMods
  /\ uninstall = {}
  /\ toggled = {}
  /\ changes = 0
  /\ syncList = NoMods
  /\ todo = {}
  /\ restored = 0
  /\ tx = NoTx
  /\ import = NoImport
  /\ commands = 0
  /\ unsaved = FALSE
  /\ drifted = FALSE

-----------------------------------------------------------------------------
(* What the transaction is told *)

SetUp(t) == [t EXCEPT !.open = TRUE]

\* Transaction::synchronize
Synchronized(t, n, auto) ==
  IF n \in t.synced
    THEN t
    ELSE [t EXCEPT !.synced = @ \union {n},
                   !.syncs = @ \union {[name |-> n, auto |-> auto]},
                   !.inhibited = @ \ {n}]

\* Transaction::uninstall: inhibit, and the index is deleted.  If it is the one of
\* a synchronization that was fetched, the commit finds nothing.
Inhibited(t, n, fetched) ==
  [t EXCEPT !.synced = @ \ {n},
            !.inhibited = IF fetched THEN @ ELSE @ \union {n}]

\* The part of ReaPack::addSetRemote that is about the transaction.
AddSetTx(t, r) ==
  LET previous == Get(list, r.name)
  IN IF /\ r.enabled
        /\ AutoInstall(r.auto, option)
        /\ previous = NoRemote \/ ~previous.enabled \/ previous.url # r.url
       THEN Synchronized(SetUp(t), r.name, TRUE)
       ELSE t

Shown(l) == DOMAIN l.map \ uninstall

\* Mutant: the windows are refreshed and all is saved before remotes are removed.
MutantOnFinish(t, refresh) ==
  [t EXCEPT !.started = TRUE,
            !.finish = <<[call |-> "refresh"], [call |-> "write"]>> \o @]

OnFinish(t, refresh) ==
  [t EXCEPT !.started = TRUE,
            !.finish = @ \o (IF refresh THEN <<[call |-> "refresh"]>> ELSE <<>>)
                         \o <<[call |-> "write"]>>]

\* ReaPack::commitConfig.  runTasks returns when a task has something to
\* download; a transaction that was running already goes on.
CommitConfig(t, l, refresh) ==
  IF t.open
    THEN /\ tx' = OnFinish(t, refresh)
         /\ pc' = IF t.syncs = {} /\ ~t.started THEN "finish" ELSE "rest"
         /\ UNCHANGED <<rows, ini, unsaved>>
    ELSE /\ tx' = t
         /\ pc' = "rest"
         /\ rows' = IF refresh THEN Shown(l) ELSE rows
         /\ Write(l, option)

Command ==
  /\ pc = "rest"
  /\ commands < MaxCommands
  /\ commands' = commands + 1

-----------------------------------------------------------------------------
(* The manager window *)

\* The import window is modal: the manager gets no command meanwhile.
ManagerCommand == Command /\ import.phase = "closed"

ValueOr(optional, value) == IF optional = {} THEN value ELSE CHOOSE v \in optional : TRUE

Change(increment) ==
  IF changes = 0 /\ increment < 0 THEN 0 ELSE (changes + increment) % SizeMax

ModsOf(n) ==
  IF n \in DOMAIN mods THEN mods[n]
  ELSE [base |-> Get(list, n), enable |-> {}, autoInstall |-> {}]

\* Mutant: undoing a change does not count.
MutantSetMods(n, m) ==
  IF m.enable = {} /\ m.autoInstall = {}
    THEN /\ mods' = [k \in DOMAIN mods \ {n} |-> mods[k]]
         /\ changes' = changes
    ELSE /\ mods' = [k \in DOMAIN mods \union {n} |-> IF k = n THEN m ELSE mods[k]]
         /\ changes' = IF n \in DOMAIN mods THEN changes ELSE Change(1)

SetMods(n, m) ==
  IF m.enable = {} /\ m.autoInstall = {}
    THEN /\ mods' = [k \in DOMAIN mods \ {n} |-> mods[k]]
         /\ changes' = IF n \in DOMAIN mods THEN Change(-1) ELSE changes
    ELSE /\ mods' = [k \in DOMAIN mods \union {n} |-> IF k = n THEN m ELSE mods[k]]
         /\ changes' = IF n \in DOMAIN mods THEN changes ELSE Change(1)

isRemoteEnabled(n) == ValueOr(ModsOf(n).enable, Get(list, n).enabled)

ToggleEnabled(n) ==
  LET now == Get(list, n).enabled
      enable == ~isRemoteEnabled(n)
  IN /\ ManagerCommand
     /\ n \in rows
     /\ SetMods(n, [ModsOf(n) EXCEPT !.enable = {enable} \ {now}])
     /\ UNCHANGED <<pc, list, option, ini, rows, uninstall, toggled, applying, tx,
                    import, history>>

SetRemoteAutoInstall(n, auto) ==
  /\ ManagerCommand
  /\ n \in rows
  /\ SetMods(n, [ModsOf(n) EXCEPT !.autoInstall = {auto} \ {Get(list, n).auto}])
  /\ UNCHANGED <<pc, list, option, ini, rows, uninstall, toggled, applying, tx,
                 import, history>>

Uninstall(n) ==
  /\ ManagerCommand
  /\ n \in rows \ {Self}
  /\ uninstall' = uninstall \union {n}
  /\ rows' = rows \ {n}
  /\ changes' = Change(1)
  /\ UNCHANGED <<pc, list, option, ini, mods, toggled, applying, tx, import, history>>

ToggleOption ==
  LET setting == ~ValueOr(toggled, option)
  IN /\ ManagerCommand
     /\ toggled' = {setting}
     /\ changes' = Change(IF setting = option THEN -1 ELSE 1)
     /\ UNCHANGED <<pc, list, option, ini, rows, mods, uninstall, applying, tx,
                    import, history>>

\* The user does not confirm that repositories be uninstalled.
Refuse ==
  /\ ManagerCommand
  /\ uninstall # {}
  /\ changes' = Change(-Cardinality(uninstall))
  /\ uninstall' = {}
  /\ rows' = DOMAIN list.map
  /\ UNCHANGED <<pc, list, option, ini, mods, toggled, applying, tx, import, history>>

\* ACTION_RESETCONFIG, one call: nothing is saved.
ResetConfig ==
  /\ ManagerCommand
  /\ pc' = "reset"
  /\ option' = FALSE
  /\ list' = AddTo(list, [Get(list, Self) EXCEPT !.enabled = TRUE])
  /\ restored' = 0
  /\ unsaved' = TRUE
  /\ drifted' = (drifted \/ toggled # {})
  /\ UNCHANGED <<ini, manager, syncList, todo, tx, import>>

RestoreDefault ==
  /\ pc = "reset"
  /\ restored < Len(Defaults)
  /\ list' = AddTo(list, Defaults[restored + 1])
  /\ restored' = restored + 1
  /\ UNCHANGED <<pc, option, ini, manager, syncList, todo, tx, import, commands, history>>

EndReset ==
  /\ pc = "reset"
  /\ restored = Len(Defaults)
  /\ pc' = "rest"
  /\ rows' = Shown(list)
  /\ UNCHANGED <<list, option, ini, mods, uninstall, toggled, changes, applying, tx,
                 import, commands, history>>

ResetManager ==
  /\ mods' = NoMods
  /\ uninstall' = {}
  /\ toggled' = {}
  /\ changes' = 0
  /\ drifted' = FALSE

\* Closed without applying, and opened again.
Reopen ==
  /\ ManagerCommand
  /\ ResetManager
  /\ rows' = DOMAIN list.map
  /\ UNCHANGED <<pc, list, option, ini, applying, tx, import, unsaved>>

-----------------------------------------------------------------------------
(* Manager::apply, one call *)

ByName(rs) == [n \in {r.name : r \in rs} |-> CHOOSE r \in rs : r.name = n]

\* std::set::insert keeps the element that is there.
Inserted(s, r) ==
  IF r.name \in DOMAIN s THEN s
  ELSE [n \in DOMAIN s \union {r.name} |-> IF n = r.name THEN r ELSE s[n]]

Without(s, n) == [k \in DOMAIN s \ {n} |-> s[k]]

Apply ==
  /\ ManagerCommand
  /\ changes # 0
  /\ pc' = "apply"
  /\ tx' = SetUp(tx)
  /\ option' = ValueOr(toggled, option)
  /\ syncList' = IF toggled = {TRUE} THEN ByName(GetEnabled(list)) ELSE NoMods
  /\ todo' = DOMAIN mods
  /\ UNCHANGED <<list, ini, manager, restored, import, history>>

\* Mutant: a remote whose state changes stays in the list.
MutantBase(n) == syncList

\* The sync list without a remote that addSetRemote takes care of.
Base(n) == IF mods[n].enable = {} THEN syncList ELSE Without(syncList, n)

ApplyMods(n) ==
  LET m == mods[n]
      r == [m.base EXCEPT !.enabled = ValueOr(m.enable, @),
                          !.auto = ValueOr(m.autoInstall, @)]
  IN /\ pc = "apply"
     /\ n \in todo
     /\ todo' = todo \ {n}
     /\ IF n \in uninstall
          THEN UNCHANGED <<syncList, tx, list>>
          ELSE /\ syncList' = IF m.autoInstall = {"on"} /\ r.enabled
                                THEN Inserted(Base(n), r) ELSE Base(n)
               /\ tx' = AddSetTx(tx, r)
               /\ list' = AddTo(list, r)
     /\ UNCHANGED <<pc, option, ini, manager, restored, import, commands, history>>

\* ReaPack::uninstall
ApplyUninstall(n) ==
  /\ pc = "apply"
  /\ todo = {}
  /\ n \in uninstall
  /\ \E fetched \in BOOLEAN :
       /\ fetched => n \in {t.name : t \in tx.syncs}
       /\ tx' = [Inhibited(tx, n, fetched) EXCEPT
                   !.finish = Append(@, [call |-> "remove", name |-> n])]
  /\ uninstall' = uninstall \ {n}
  /\ syncList' = Without(syncList, n)
  /\ UNCHANGED <<pc, list, option, ini, rows, mods, toggled, changes, todo, restored, import,
                 commands, history>>

\* Synchronized, of every remote of s.
SyncListed(t, s) ==
  [t EXCEPT !.synced = @ \union DOMAIN s,
            !.inhibited = @ \ DOMAIN s,
            !.syncs = @ \union {[name |-> n, auto |-> AutoInstall(s[n].auto, option)] :
                                  n \in DOMAIN s \ t.synced}]

\* The rest of apply, reset and commitConfig.
EndApply ==
  /\ pc = "apply"
  /\ todo = {}
  /\ uninstall = {}
  /\ ResetManager
  /\ syncList' = NoMods
  /\ CommitConfig(SyncListed(tx, syncList), list, TRUE)
  /\ UNCHANGED <<list, option, todo, restored, import, commands>>

-----------------------------------------------------------------------------
(* The transaction *)

\* Tasks of one queue commit together, those of others later.  What they do is up to
\* Transaction; here, whether they do it for a remote that is being uninstalled,
\* which they do if the index was fetched after all.
EndSyncs ==
  /\ pc = "rest"
  /\ tx.started
  /\ ~tx.cancelled
  /\ \E done \in SUBSET tx.syncs \ {{}} :
       \E fetched \in SUBSET ({t.name : t \in done} \intersect tx.inhibited) :
         tx' = [tx EXCEPT !.syncs = @ \ done, !.late = @ \union fetched]
  /\ UNCHANGED <<pc, list, option, ini, manager, applying, import, commands, history>>

\* The progress window's button, or the window is closed.
Cancel ==
  /\ Command
  /\ tx.started
  /\ ~tx.cancelled
  /\ tx' = [tx EXCEPT !.cancelled = TRUE]
  /\ UNCHANGED <<pc, list, option, ini, manager, applying, import, history>>

Finish ==
  /\ pc = "rest"
  /\ tx.started
  /\ tx.syncs = {} \/ tx.cancelled
  /\ pc' = "finish"
  /\ UNCHANGED <<list, option, ini, manager, applying, tx, import, commands, history>>

\* The handlers of onFinish, in the order in which they were added.
Handler ==
  /\ pc = "finish"
  /\ tx.finish # <<>>
  /\ tx' = [tx EXCEPT !.finish = Tail(@)]
  /\ UNCHANGED <<pc, option, mods, uninstall, toggled, changes, applying, import,
                 commands, drifted>>

RemoveRemote ==
  /\ Handler
  /\ Head(tx.finish).call = "remove"
  /\ list' = IF tx.cancelled THEN list ELSE RemoveFrom(list, Head(tx.finish).name)
  /\ UNCHANGED <<ini, rows, unsaved>>

RefreshManager ==
  /\ Handler
  /\ Head(tx.finish).call = "refresh"
  /\ rows' = Shown(list)
  /\ UNCHANGED <<list, ini, unsaved>>

WriteConfig ==
  /\ Handler
  /\ Head(tx.finish).call = "write"
  /\ Write(list, option)
  /\ UNCHANGED <<list, rows>>

Teardown ==
  /\ pc = "finish"
  /\ tx.finish = <<>>
  /\ tx' = NoTx
  /\ pc' = "rest"
  /\ UNCHANGED <<list, option, ini, manager, applying, import, commands, history>>

\* ReaPack::synchronizeAll: nothing to save.
SynchronizeAll ==
  /\ Command
  /\ GetEnabled(list) # {}
  /\ tx' = [SyncListed(SetUp(tx), ByName(GetEnabled(list))) EXCEPT !.started = TRUE]
  /\ UNCHANGED <<pc, list, option, ini, manager, applying, import, history>>

\* Manager::refreshIndex and ReaPack::about, of rows whose indexes are fetched only;
\* what was queued without being started starts with them.
RefreshIndex ==
  /\ Command
  /\ rows # {}
  /\ tx' = [SetUp(tx) EXCEPT !.started = TRUE]
  /\ UNCHANGED <<pc, list, option, ini, manager, applying, import, history>>

-----------------------------------------------------------------------------
(* The import window *)

Fetch(urls) ==
  /\ Command
  /\ import.phase \in {"closed", "open"}
  /\ import' = [NoImport EXCEPT !.phase = "fetching", !.urls = urls,
                                !.pending = DOMAIN urls]
  /\ UNCHANGED <<pc, list, option, ini, manager, applying, tx, history>>

CloseImport ==
  /\ Command
  /\ import.phase = "open"
  /\ import' = NoImport
  /\ UNCHANGED <<pc, list, option, ini, manager, applying, tx, history>>

\* IDCANCEL: the pool's onAbort and then the window's own state.
CancelImport ==
  /\ Command
  /\ import.phase = "fetching"
  /\ import.state # "Close"
  /\ import' = [import EXCEPT !.state = "Close"]
  /\ UNCHANGED <<pc, list, option, ini, manager, applying, tx, history>>

\* m_pool->abort()
Aborted(state) == IF state = "OK" THEN "Aborted" ELSE state

\* A download is over.  When it is the last one the pool's onDone follows.
Ended(i, state, queue, failed) ==
  LET rest == import.pending \ {i}
      done == rest = {}
  IN /\ pc = "rest"
     /\ import.phase = "fetching"
     /\ i \in import.pending
     /\ pc' = IF done /\ state = "OK" THEN "import" ELSE pc
     /\ import' = [import EXCEPT
          !.pending = rest, !.state = state, !.failed = failed,
          !.queue = IF done /\ state # "OK" THEN {} ELSE queue,
          !.phase = CASE ~done \/ state = "OK" -> "fetching"
                      [] done /\ state = "Aborted" -> "open"
                      [] done /\ state = "Close" -> "closed"]
     /\ UNCHANGED <<list, option, ini, manager, applying, tx, commands, history>>

DownloadAborted(i) ==
  /\ import.state # "OK"
  /\ Ended(i, import.state, import.queue, import.failed)

\* The download failed, its contents is not an index, or the remote is protected.
DownloadFailed(i) ==
  Ended(i, Aborted(import.state), import.queue, import.failed \union {i})

\* Import::read: what is queued for a remote that was read.
Imported(i) ==
  LET url == import.urls[i]
      known == Get(list, NameOf[url])
  IN IF known = NoRemote
       THEN [name |-> NameOf[url], url |-> url, enabled |-> TRUE, auto |-> "global"]
       ELSE [known EXCEPT !.url = url, !.enabled = TRUE]

DownloadRead(i) ==
  LET known == Get(list, Imported(i).name)
      overwrites == known # NoRemote /\ known.url # Imported(i).url
      data == [index |-> i, remote |-> Imported(i)]
  IN /\ import.phase = "fetching" /\ i \in import.pending
     /\ overwrites => known.name # Self
     /\ \E queue \in (IF known # Imported(i) THEN {import.queue \union {data}} ELSE {})
                     \union (IF overwrites \/ known = Imported(i) THEN {import.queue} ELSE {}) :
          Ended(i, import.state, queue, import.failed)

\* Import::processQueue, one call: d is the front of the sorted queue.
ImportNext ==
  /\ pc = "import"
  /\ \E d \in import.queue :
       /\ \A e \in import.queue : d.index <= e.index
       /\ tx' = AddSetTx(tx, d.remote)
       /\ list' = AddTo(list, d.remote)
       /\ import' = [import EXCEPT !.queue = @ \ {d}, !.done = @ \union {d.index}]
  /\ UNCHANGED <<pc, option, ini, manager, applying, commands, history>>

EndImport ==
  /\ pc = "import"
  /\ import.queue = {}
  /\ import' = NoImport
  /\ IF import.done # {}
       THEN CommitConfig(tx, list, TRUE)
       ELSE pc' = "rest" /\ UNCHANGED <<tx, ini, rows, unsaved>>
  /\ UNCHANGED <<list, option, mods, uninstall, toggled, changes, applying, commands,
                 drifted>>

-----------------------------------------------------------------------------
(* Scripts and the About window *)

\* AddSetRepository
AddSet(r) ==
  /\ Command
  /\ r.name = Self => r.url = Get(list, Self).url
  /\ tx' = AddSetTx(tx, r)
  /\ list' = AddTo(list, r)
  /\ unsaved' = TRUE
  /\ UNCHANGED <<pc, option, ini, manager, applying, import, drifted>>

ProcessQueue(refresh) ==
  /\ Command
  /\ CommitConfig(tx, list, refresh)
  /\ UNCHANGED <<list, option, mods, uninstall, toggled, changes, applying, import,
                 drifted>>

\* AboutIndexDelegate::install, of all packages or of updates only; remember
\* is the answer to the question about new packages, if it is asked.
AboutInstall(n, all, remember) ==
  LET known == Get(list, n)
      r == [known EXCEPT !.auto = IF remember THEN "on" ELSE @]
  IN /\ Command
     /\ known # NoRemote
     /\ remember => all /\ known.auto = "global" /\ ~option
     /\ list' = AddTo(list, [r EXCEPT !.enabled = TRUE])
     /\ CommitConfig(Synchronized(SetUp(tx), n, AutoInstall(r.auto, all)), list', TRUE)
     /\ UNCHANGED <<option, mods, uninstall, toggled, changes, applying, import, drifted>>

-----------------------------------------------------------------------------
Next ==
  \/ \E n \in Names :
       \/ ToggleEnabled(n) \/ Uninstall(n)
       \/ \E auto \in Autos : SetRemoteAutoInstall(n, auto)
       \/ ApplyMods(n) \/ ApplyUninstall(n)
       \/ \E all, remember \in BOOLEAN : AboutInstall(n, all, remember)
  \/ ToggleOption \/ Refuse \/ ResetConfig \/ RestoreDefault \/ EndReset
  \/ Reopen \/ Apply \/ EndApply
  \/ EndSyncs \/ Cancel \/ Finish \/ Teardown \/ SynchronizeAll \/ RefreshIndex
  \/ RemoveRemote \/ RefreshManager \/ WriteConfig
  \/ \E urls \in Inputs : Fetch(urls)
  \/ \E i \in DOMAIN import.urls :
       DownloadAborted(i) \/ DownloadFailed(i) \/ DownloadRead(i)
  \/ CloseImport \/ CancelImport \/ ImportNext \/ EndImport
  \/ \E r \in ScriptInputs : AddSet(r)
  \/ \E refresh \in BOOLEAN : ProcessQueue(refresh)

Spec == Init /\ [][Next]_vars

-----------------------------------------------------------------------------
(* Properties *)

\* Whenever no transaction will do it, what the user set is in the file, reading
\* it back gives the same list in the same order, and no slot of a removed remote
\* is left (reapack.cpp:359-376, config.cpp:208-219).  ACTION_RESETCONFIG and
\* AddSetRepository do not save by themselves.
SettingsAreSaved ==
  pc = "rest" /\ ~tx.open /\ ~unsaved =>
    /\ ReadRemotes(ini) = list
    /\ ini.option = option
    /\ \A k \in (ini.size + 1)..MaxSlots : ini.slots[k] = NoRemote

\* Every row of the manager is found in the list: a change to a row is never one to
\* the null remote (manager.cpp:673-680, reapack.cpp:178-190).
RowsAreFound == pc = "rest" => rows \subseteq DOMAIN list.map

\* The Apply button is enabled when something is pending and only then: the
\* counter agrees with what it counts (manager.cpp:186-194, 323-352, 415-452).  Restoring
\* the default settings under a pending option makes them differ.
ChangesAreCounted ==
  pc = "rest" /\ ~drifted =>
    changes = Cardinality(DOMAIN mods) + Cardinality(uninstall)
              + Cardinality(toggled \ {option})

\* Mods of a remote's install option that take effect together with the global one.
Overridden(n) == toggled = {TRUE} /\ n \in DOMAIN mods /\ mods[n].autoInstall # {}

\* What Apply synchronizes is enabled, and new packages are installed as the
\* settings that Apply leaves say (manager.cpp:601-655).  Excepted is a remote whose
\* own option was changed with the global one: the copy in the sync list is older.
SyncsObeySettings ==
  [][pc = "apply" =>
       \A t \in tx'.syncs \ tx.syncs :
         \/ Overridden(t.name)
         \/ LET r == Get(list', t.name)
            IN r.enabled /\ t.auto = AutoInstall(r.auto, option)]_vars

=============================================================================
