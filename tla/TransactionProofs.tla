------------------------- MODULE TransactionProofs -------------------------
(***************************************************************************)
(* Proofs about transactions, for all packages, requests and faults: the    *)
(* registry stays consistent, no task is dropped, a cancelled transaction   *)
(* changes nothing, failures are reported, conflicts are real.  As long as  *)
(* no two tasks are about one package and the entries that tasks hold are   *)
(* those of their packages, the files on disk, the action list and the      *)
(* registry agree, and the transaction implements Installer.                *)
(***************************************************************************)
EXTENDS Transaction, RegistryTablesProofs, SequenceTheorems

-----------------------------------------------------------------------------
(* The invariant of every transaction *)

Points == {"rest", "head", "commit", "prompt", "queues", "start", "recommit", "finish",
           "register", "over", "thrown"}

Tickets == [add : BOOLEAN, files : SUBSET Paths]

TypeOK ==
  /\ tables \in Tables /\ durable \in Tables
  /\ pc \in Points
  /\ disk \in [Paths -> Releases \union {NoRelease}]
  /\ scripts \subseteq Paths
  /\ next \subseteq Requests /\ queues \in Seq(SUBSET Requests) /\ active \in Seq(Requests)
  /\ jobs \subseteq Requests /\ failed \subseteq Requests /\ errors \subseteq Requests
  /\ entry \in [Requests -> EntryCopies]
  /\ old \in [Requests -> [files : SUBSET Paths, mains : SUBSET Paths]]
  /\ obsolete \subseteq EntryCopies \ {NoEntry}
  /\ cancelled \in BOOLEAN
  /\ tickets \in Seq(Tickets)
  /\ asked \subseteq made /\ made \subseteq Requests
  /\ dirty \subseteq Paths /\ suspect \subseteq Paths /\ lost \subseteq Paths

\* There is a savepoint while a queue is started, and the contents of the
\* database, of the file and of the savepoint are consistent.
RegistriesHold ==
  /\ ConsistentTables(tables) /\ ConsistentTables(durable)
  /\ IF pc = "start" THEN \E t \in Tables : saved = <<t>> /\ ConsistentTables(t)
                     ELSE saved = <<>>

Active == SeqRange(active)
Queued == UNION SeqRange(queues)

\* A task is in one place.
PlacedOnce ==
  /\ \A i, j \in DOMAIN queues : i # j => queues[i] \cap queues[j] = {}
  /\ \A i, j \in DOMAIN active : i # j => active[i] # active[j]
  /\ next \cap Queued = {} /\ next \cap Active = {} /\ Queued \cap Active = {}
  /\ Outstanding \subseteq asked

\* What is true at each point of runTasks.
PointsTold ==
  /\ pc = "start" => queues # <<>>
  /\ pc \in {"prompt", "queues", "start", "recommit"} => ~cancelled
  /\ pc \in {"prompt", "queues", "finish", "register", "over"} => active = <<>>
  /\ pc \in {"queues", "start", "recommit"} => obsolete = {}
  /\ pc = "start" => \A t \in Active : t.kind = "sync" => t \in jobs
  /\ pc = "recommit" => \A t \in Active : t.kind # "sync"
  /\ pc \in {"finish", "register", "over"} /\ ~cancelled =>
       next = {} /\ queues = <<>> /\ obsolete = {}
  /\ pc \in {"register", "over"} => tables = durable
  /\ pc = "over" => tickets = <<>>
  /\ ~cancelled => failed \subseteq errors

\* While a queue is started, a file was taken by an install, freed, or is as it
\* was; those of removed packages are not as they were.
FilesFreed ==
  pc = "start" =>
    \A p \in Paths :
      \/ TakenBy(Active, p)
      \/ tables.files[p] = NoFile
      \/ /\ tables.files[p] = saved[1].files[p]
         /\ \A u \in Active : u.kind = "uninstall" => ~OwnedBy(saved[1], p, entry[u].id)

TransactionInv == TypeOK /\ RegistriesHold /\ PlacedOnce /\ PointsTold /\ FilesFreed

-----------------------------------------------------------------------------
(* The invariant of transactions whose tasks do not disturb each other *)

Changes(t) == t.kind \in {"install", "uninstall"}

PackageOf(t) == IF t.kind = "install" THEN t.release.pkg ELSE t.pkg

\* No two outstanding tasks change one package, and the copy that each has is of
\* the entry its package has.
Undisturbed ==
  /\ \A t, u \in Outstanding :
       Changes(t) /\ Changes(u) /\ PackageOf(t) = PackageOf(u) => t = u
  /\ \A t \in Outstanding :
       Changes(t) => entry[t].id = GetEntry(Visible, PackageOf(t)).id

ChangedPackages == {PackageOf(t) : t \in {u \in Active : Changes(u)}}

\* The row of an entry and its files are in u as they are in t.
Alone(t, u, j) ==
  /\ u.entries[j] = t.entries[j]
  /\ \A p \in Paths : /\ OwnedBy(u, p, j) <=> OwnedBy(t, p, j)
                      /\ OwnedBy(t, p, j) => u.files[p] = t.files[p]

\* Rows and files of the other packages are as they were before the queue.
OthersKept ==
  pc = "start" =>
    \A j \in Ids :
      LET row == saved[1].entries[j]
      IN row # NoRow /\ row.release.pkg \notin ChangedPackages => Alone(saved[1], tables, j)

\* A started task knows the files its package has.
OldFilesTold(t) ==
  /\ t.kind = "install" =>
       old[t] = [files |-> FilesOf(t, Visible).files \ t.release.files,
                 mains |-> FilesOf(t, Visible).mains \ t.release.files]
  /\ t.kind = "uninstall" => old[t] = FilesOf(t, Visible)

OldTold == \A t \in Active : OldFilesTold(t)

\* The files are those of the registry, and those of the last commit where
\* nothing was written since.
DiskTold ==
  /\ pc # "thrown" => \A p \in Paths \ suspect : disk[p] = Recorded(Visible, p)
  /\ \A p \in Paths \ (suspect \union dirty) : disk[p] = Recorded(durable, p)

\* The last of the tickets about a path says whether it is one of the main files.
LastTicketTold(s, p, mains) ==
  \A i \in DOMAIN s :
    p \in s[i].files /\ (\A k \in DOMAIN s : k > i => p \notin s[k].files) =>
      (s[i].add <=> p \in mains)

FileScriptsTold(p) ==
  pc \notin {"register", "over"} /\ p \notin lost => (p \in scripts <=> p \in Mains(durable))

QueueScriptsTold(p) ==
  pc # "thrown" =>
    /\ LastTicketTold(tickets, p, Mains(Visible))
    /\ p \notin lost \union TicketFiles => (p \in scripts <=> p \in Mains(Visible))

ScriptsTold == \A p \in Paths \ Demoted : FileScriptsTold(p) /\ QueueScriptsTold(p)

AgreeInv == OthersKept /\ OldTold /\ DiskTold /\ ScriptsTold

-----------------------------------------------------------------------------
(* What a request has, by its kind.                                          *)
LEMMA RequestTold ==
  ASSUME NEW t \in Requests
  PROVE  /\ t.kind \in {"install", "uninstall", "flags", "sync"}
         /\ t.kind = "install" =>
              /\ t.release \in Releases /\ t.release.pkg \in Packages
              /\ t.release.files \subseteq Paths /\ t.release.mains \subseteq t.release.files
         /\ t.kind \in {"uninstall", "flags"} => t.pkg \in Packages
         /\ t.kind = "flags" => t.flags \in Flags
         /\ t.kind = "sync" => t.pkgs \subseteq Packages /\ t.index \subseteq Releases
         /\ t.from = "sync" => t.kind = "install"
         /\ t.from = "prompt" => t.kind = "uninstall"
BY TransactionAssumption, RegistryAssumption

(* The entry a task gets is a copy of a row, or empty.                       *)
LEMMA EntryForType ==
  ASSUME NEW t \in Requests, tables \in Tables, NEW view \in Tables
  PROVE  EntryFor(t, view) \in EntryCopies
<1>1. CASE t.kind = "install"
  BY <1>1, RequestTold, GetEntryCopy DEF EntryFor
<1>2. CASE t.kind = "sync"
  BY <1>2 DEF EntryFor, EntryCopies
<1>3. CASE t.kind \in {"uninstall", "flags"}
  BY <1>3, RequestTold, GetEntryCopy DEF EntryFor
<1> QED BY <1>1, <1>2, <1>3, RequestTold

(* The flags a package is pushed with.                                       *)
LEMMA FlagsOfType ==
  ASSUME NEW t \in Requests, entry \in [Requests -> EntryCopies]
  PROVE  FlagsOf(t) \in Flags
<1>1. entry[t] # NoEntry => entry[t].row \in Rows
  BY CopyId
<1> QED BY <1>1, TransactionAssumption DEF FlagsOf, Rows

(* The elements of a sequence that gets one more.                            *)
LEMMA RangeAppend ==
  ASSUME NEW S, NEW s \in Seq(S), NEW x \in S
  PROVE  /\ Append(s, x) \in Seq(S) /\ Append(s, x) # <<>>
         /\ Len(Append(s, x)) = Len(s) + 1 /\ Len(s) \in Nat
         /\ \A i \in 1..Len(s) : Append(s, x)[i] = s[i]
         /\ Append(s, x)[Len(s) + 1] = x
         /\ SeqRange(Append(s, x)) = SeqRange(s) \union {x}
<1>1. PICK n \in Nat : n = Len(s) /\ DOMAIN s = 1..n
  OBVIOUS
<1>2. PICK u : u = Append(s, x) /\ u \in Seq(S) /\ Len(u) = n + 1
  BY <1>1, AppendProperties
<1>3. \A i \in 1..n : u[i] = s[i]
  BY <1>1, <1>2, AppendProperties
<1>4. u[n + 1] = x
  BY <1>1, <1>2, AppendProperties
<1>5. DOMAIN u = 1..(n + 1)
  BY <1>2
<1>6. SeqRange(u) = SeqRange(s) \union {x}
  BY <1>1, <1>3, <1>4, <1>5 DEF SeqRange
<1>7. u # <<>>
  BY <1>1, <1>2
<1> QED BY <1>1, <1>2, <1>3, <1>4, <1>6, <1>7

(* The elements of a sequence are its first and those of the rest.           *)
LEMMA RangeTail ==
  ASSUME NEW S, NEW s \in Seq(S), s # <<>>
  PROVE  /\ Head(s) \in S /\ Head(s) = s[1] /\ Tail(s) \in Seq(S)
         /\ Len(s) \in Nat \ {0} /\ Len(Tail(s)) = Len(s) - 1
         /\ \A i \in 1..Len(Tail(s)) : Tail(s)[i] = s[i + 1]
         /\ SeqRange(s) = {Head(s)} \union SeqRange(Tail(s))
<1>1. PICK n \in Nat \ {0} : n = Len(s) /\ DOMAIN s = 1..n
  BY EmptySeq
<1>2. /\ Tail(s) \in Seq(S) /\ Len(Tail(s)) = n - 1 /\ Head(s) \in S
      /\ \A i \in 1..(n - 1) : Tail(s)[i] = s[i + 1]
  BY <1>1, HeadTailProperties
<1>3. Head(s) = s[1] /\ DOMAIN Tail(s) = 1..(n - 1)
  BY <1>1, <1>2
<1>4. PICK u : u = Tail(s)
  OBVIOUS
<1>5. \A i \in 1..n : i = 1 \/ (i - 1 \in 1..(n - 1) /\ i = (i - 1) + 1)
  BY <1>1
<1>6. \A i \in 1..(n - 1) : i + 1 \in 1..n
  BY <1>1
<1>7. SeqRange(s) = {s[i] : i \in 1..n} /\ SeqRange(u) = {u[i] : i \in 1..(n - 1)}
  BY <1>1, <1>3, <1>4 DEF SeqRange
<1>8. \A i \in 1..(n - 1) : u[i] = s[i + 1]
  BY <1>2, <1>4
<1>9. \A i \in 1..n : s[i] \in {s[1]} \union SeqRange(u)
  <2> TAKE i \in 1..n
  <2>1. CASE i = 1
    BY <2>1
  <2>2. CASE i # 1
    <3>1. PICK k \in 1..(n - 1) : i = k + 1
      BY <1>5, <2>2
    <3>2. s[i] = u[k]
      BY <1>8, <3>1
    <3> QED BY <1>7, <3>2
  <2> QED BY <2>1, <2>2
<1>10. SeqRange(s) = {s[1]} \union SeqRange(u)
  BY <1>1, <1>6, <1>7, <1>8, <1>9
<1> QED BY <1>1, <1>2, <1>3, <1>4, <1>10

(* Of a queue that is not over, its first set of tasks can lose one.         *)
LEMMA PoppedType ==
  ASSUME NEW t, queues \in Seq(SUBSET Requests), queues # <<>>
  PROVE  /\ Popped(t) \in Seq(SUBSET Requests) /\ Len(Popped(t)) = Len(queues)
         /\ Len(queues) \in Nat \ {0}
         /\ \A i \in 1..Len(queues) :
              Popped(t)[i] = IF i = 1 THEN Head(queues) \ {t} ELSE queues[i]
<1>1. Len(queues) \in Nat \ {0} /\ Head(queues) = queues[1]
  BY RangeTail
<1>2. 1 \in 1..Len(queues) /\ queues[1] \in SUBSET Requests
  BY <1>1, ElementOfSeq
<1>3. PICK S \in SUBSET Requests : S = queues[1] \ {t}
  BY <1>2
<1>4. Popped(t) = [queues EXCEPT ![1] = S]
  BY <1>3 DEF Popped
<1>5. /\ Popped(t) \in Seq(SUBSET Requests) /\ Len(Popped(t)) = Len(queues)
      /\ \A i \in 1..Len(queues) : Popped(t)[i] = IF i = 1 THEN S ELSE queues[i]
  BY <1>2, <1>4, ExceptSeq
<1> QED BY <1>1, <1>3, <1>5

(* Tickets are added one by one.                                             *)
LEMMA TicketType ==
  ASSUME NEW add \in BOOLEAN, NEW files \in SUBSET Paths
  PROVE  Ticket(add, files) \in Seq(Tickets)
<1>1. [add |-> add, files |-> files] \in Tickets
  BY DEF Tickets
<1> QED BY <1>1 DEF Ticket

(* The initial state.                                                        *)
LEMMA InitTold == Init => TransactionInv
<1> SUFFICES ASSUME Init PROVE TransactionInv
  OBVIOUS
<1>1. \A p \in Paths : Recorded(Initial, p) \in Releases \union {NoRelease}
  BY TransactionAssumption DEF Recorded, Tables, FileRows, Rows, ConsistentTables, FilesHaveEntry
<1>2. TypeOK
  <2>1. NoEntry \in EntryCopies /\ NoFiles \in [files : SUBSET Paths, mains : SUBSET Paths]
    BY DEF EntryCopies, NoFiles
  <2>2. Mains(Initial) \subseteq Paths
    BY DEF Mains
  <2>3. made \subseteq Requests
    BY DEF Init
  <2> QED BY <1>1, <2>1, <2>2, <2>3, TransactionAssumption, EmptySeq DEF Init, TypeOK, Points
<1>3. RegistriesHold
  BY TransactionAssumption DEF Init, RegistriesHold
<1>4. PlacedOnce
  BY DEF Init, PlacedOnce, Outstanding, Queued, Active, SeqRange
<1>5. PointsTold
  BY DEF Init, PointsTold
<1>6. FilesFreed
  BY DEF Init, FilesFreed
<1> QED BY <1>2, <1>3, <1>4, <1>5, <1>6 DEF TransactionInv

-----------------------------------------------------------------------------
(* Tasks move from one place to another *)

Separate(s) == \A i, j \in DOMAIN s : i # j => s[i] \cap s[j] = {}
Distinct(s) == \A i, j \in DOMAIN s : i # j => s[i] # s[j]

(* The tasks that were queued become the last queue.                         *)
LEMMA EntersQueues ==
  ASSUME TypeOK, PlacedOnce, EnterQueue
  PROVE  /\ queues' \in Seq(SUBSET Requests)
         /\ Queued' = Queued \union next
         /\ Separate(queues')
<1>1. CASE next = {}
  BY <1>1 DEF TypeOK, PlacedOnce, EnterQueue, Queued, Separate
<1>2. CASE next # {}
  <2>1. /\ queues \in Seq(SUBSET Requests) /\ next \in SUBSET Requests
        /\ queues' = Append(queues, next)
    BY <1>2 DEF TypeOK, EnterQueue
  <2>2. PICK n \in Nat : n = Len(queues) /\ DOMAIN queues = 1..n
    BY <2>1
  <2>3. PICK s : s = queues'
    OBVIOUS
  <2>4. /\ s \in Seq(SUBSET Requests) /\ Len(s) = n + 1
        /\ \A i \in 1..n : s[i] = queues[i]
        /\ s[n + 1] = next /\ SeqRange(s) = SeqRange(queues) \union {next}
    BY <2>1, <2>2, <2>3, RangeAppend
  <2>5. DOMAIN s = 1..(n + 1)
    BY <2>4
  <2>6. \A i \in 1..n : queues[i] \cap next = {}
    BY <2>2 DEF PlacedOnce, Queued, SeqRange
  <2>7. \A i, j \in 1..n : i # j => queues[i] \cap queues[j] = {}
    BY <2>2 DEF PlacedOnce
  <2>8. \A i \in 1..(n + 1) : i # n + 1 => i \in 1..n
    OBVIOUS
  <2>9. Separate(s)
    <3> SUFFICES ASSUME NEW i \in 1..(n + 1), NEW j \in 1..(n + 1), i # j
                 PROVE  s[i] \cap s[j] = {}
      BY <2>5 DEF Separate
    <3>1. CASE i = n + 1
      <4>1. s[i] = next /\ s[j] = queues[j] /\ j \in 1..n
        BY <2>4, <2>8, <3>1
      <4> QED BY <2>6, <4>1
    <3>2. CASE j = n + 1
      <4>1. s[j] = next /\ s[i] = queues[i] /\ i \in 1..n
        BY <2>4, <2>8, <3>2
      <4> QED BY <2>6, <4>1
    <3>3. CASE i # n + 1 /\ j # n + 1
      <4>1. s[j] = queues[j] /\ s[i] = queues[i] /\ i \in 1..n /\ j \in 1..n
        BY <2>4, <2>8, <3>3
      <4> QED BY <2>7, <4>1
    <3> QED BY <3>1, <3>2, <3>3
  <2>10. SeqRange(queues') = SeqRange(queues) \union {next}
    BY <2>3, <2>4
  <2>11. Queued' = Queued \union next
    BY <2>10 DEF Queued, SeqRange
  <2> QED BY <2>3, <2>4, <2>9, <2>11
<1> QED BY <1>1, <1>2

(* A task leaves the queue that is being started.                            *)
LEMMA LeavesQueue ==
  ASSUME TypeOK, PlacedOnce, queues # <<>>, NEW t, t \in Head(queues), queues' = Popped(t)
  PROVE  /\ t \in Requests /\ t \in Queued
         /\ queues' \in Seq(SUBSET Requests) /\ queues' # <<>>
         /\ Queued' = Queued \ {t}
         /\ Separate(queues')
<1>1. /\ queues \in Seq(SUBSET Requests) /\ Separate(queues)
  BY DEF TypeOK, PlacedOnce, Separate
<1>2. PICK n \in Nat \ {0} : n = Len(queues) /\ DOMAIN queues = 1..n
  BY <1>1, PoppedType
<1>3. PICK s : s = queues'
  OBVIOUS
<1>4. /\ s \in Seq(SUBSET Requests) /\ Len(s) = n
      /\ \A i \in 1..n : s[i] = IF i = 1 THEN Head(queues) \ {t} ELSE queues[i]
  BY <1>1, <1>2, <1>3, PoppedType
<1>5. DOMAIN s = 1..n /\ 1 \in 1..n /\ Head(queues) = queues[1]
  BY <1>2, <1>4
<1>6. \A i \in 1..n : t \in queues[i] => i = 1
  BY <1>1, <1>2, <1>5 DEF Separate
<1>7. \A i \in 1..n : s[i] = queues[i] \ {t}
  BY <1>4, <1>5, <1>6
<1>8. Separate(s)
  BY <1>1, <1>2, <1>5, <1>7 DEF Separate
<1>9. /\ Queued = UNION {queues[i] : i \in 1..n}
      /\ Queued' = UNION {s[i] : i \in 1..n}
  BY <1>2, <1>3, <1>5 DEF Queued, SeqRange
<1>10. Queued' = Queued \ {t}
  BY <1>7, <1>9
<1>11. s # <<>>
  BY <1>4
<1>12. t \in Queued /\ t \in Requests
  <2>1. queues[1] \in SUBSET Requests
    BY <1>1, <1>2, <1>5, ElementOfSeq
  <2> QED BY <1>5, <1>9, <2>1
<1> QED BY <1>3, <1>4, <1>8, <1>10, <1>11, <1>12

(* It becomes the last of the running tasks.                                 *)
LEMMA BecomesActive ==
  ASSUME TypeOK, PlacedOnce, NEW t \in Requests \ Active, active' = Append(active, t)
  PROVE  /\ active' \in Seq(Requests) /\ active' # <<>>
         /\ Active' = Active \union {t}
         /\ Distinct(active')
<1>1. active \in Seq(Requests) /\ Distinct(active)
  BY DEF TypeOK, PlacedOnce, Distinct
<1>2. PICK n \in Nat : n = Len(active) /\ DOMAIN active = 1..n
  BY <1>1
<1>3. PICK s : s = active'
  OBVIOUS
<1>4. /\ s \in Seq(Requests) /\ Len(s) = n + 1 /\ s # <<>>
      /\ \A i \in 1..n : s[i] = active[i]
      /\ s[n + 1] = t /\ SeqRange(s) = SeqRange(active) \union {t}
  BY <1>1, <1>2, <1>3, RangeAppend
<1>5. DOMAIN s = 1..(n + 1)
  BY <1>4
<1>6. \A i \in 1..n : active[i] # t
  BY <1>2 DEF Active, SeqRange
<1>7. \A i \in 1..(n + 1) : i # n + 1 => i \in 1..n
  OBVIOUS
<1>8. Distinct(s)
  <2> SUFFICES ASSUME NEW i \in 1..(n + 1), NEW j \in 1..(n + 1), i # j
               PROVE  s[i] # s[j]
    BY <1>5 DEF Distinct
  <2>1. CASE i = n + 1
    BY <1>4, <1>6, <1>7, <2>1
  <2>2. CASE j = n + 1
    BY <1>4, <1>6, <1>7, <2>2
  <2>3. CASE i # n + 1 /\ j # n + 1
    BY <1>1, <1>2, <1>4, <1>7, <2>3 DEF Distinct
  <2> QED BY <2>1, <2>2, <2>3
<1>9. SeqRange(active') = SeqRange(active) \union {t}
  BY <1>3, <1>4
<1> QED BY <1>3, <1>4, <1>8, <1>9 DEF Active

(* A queue with no tasks left is removed.                                    *)
LEMMA LeavesQueues ==
  ASSUME TypeOK, PlacedOnce, queues # <<>>, Head(queues) = {}, queues' = Tail(queues)
  PROVE  /\ queues' \in Seq(SUBSET Requests)
         /\ Queued' = Queued
         /\ Separate(queues')
<1>1. queues \in Seq(SUBSET Requests) /\ Separate(queues)
  BY DEF TypeOK, PlacedOnce, Separate
<1>2. PICK n \in Nat \ {0} : n = Len(queues) /\ DOMAIN queues = 1..n
  BY <1>1, RangeTail
<1>3. PICK s : s = queues'
  OBVIOUS
<1>4. /\ s \in Seq(SUBSET Requests) /\ Len(s) = n - 1
      /\ \A i \in 1..(n - 1) : s[i] = queues[i + 1]
      /\ SeqRange(queues) = {Head(queues)} \union SeqRange(s)
  BY <1>1, <1>2, <1>3, RangeTail
<1>5. DOMAIN s = 1..(n - 1) /\ \A i \in 1..(n - 1) : i + 1 \in 1..n
  BY <1>4
<1>6. Separate(s)
  <2> SUFFICES ASSUME NEW i \in 1..(n - 1), NEW j \in 1..(n - 1), i # j
               PROVE  s[i] \cap s[j] = {}
    BY <1>5 DEF Separate
  <2>1. i + 1 \in 1..n /\ j + 1 \in 1..n /\ i + 1 # j + 1
    BY <1>5
  <2>2. queues[i + 1] \cap queues[j + 1] = {}
    BY <1>1, <1>2, <2>1 DEF Separate
  <2> QED BY <1>4, <2>2
<1>7. SeqRange(queues) = {{}} \union SeqRange(queues')
  BY <1>3, <1>4
<1>8. Queued' = Queued
  BY <1>7 DEF Queued, SeqRange
<1> QED BY <1>3, <1>4, <1>6, <1>8

(* The first of the running tasks is through.                                *)
LEMMA LeavesActive ==
  ASSUME TypeOK, PlacedOnce, active # <<>>, NEW t, t = Head(active), active' = Tail(active)
  PROVE  /\ t \in Requests /\ t \in Active
         /\ active' \in Seq(Requests)
         /\ Active' = Active \ {t}
         /\ Distinct(active')
<1>1. active \in Seq(Requests) /\ Distinct(active)
  BY DEF TypeOK, PlacedOnce, Distinct
<1>2. PICK n \in Nat \ {0} : n = Len(active) /\ DOMAIN active = 1..n
  BY <1>1, RangeTail
<1>3. PICK s : s = active'
  OBVIOUS
<1>4. /\ s \in Seq(Requests) /\ Len(s) = n - 1
      /\ \A i \in 1..(n - 1) : s[i] = active[i + 1]
      /\ SeqRange(active) = {t} \union SeqRange(s)
      /\ t = active[1] /\ t \in Requests
  BY <1>1, <1>2, <1>3, RangeTail
<1>5. /\ DOMAIN s = 1..(n - 1) /\ 1 \in 1..n
      /\ \A i \in 1..(n - 1) : i + 1 \in 1..n /\ i + 1 # 1
  BY <1>2, <1>4
<1>6. Distinct(s)
  BY <1>1, <1>2, <1>4, <1>5 DEF Distinct
<1>7. t \notin SeqRange(s)
  BY <1>1, <1>2, <1>4, <1>5 DEF Distinct, SeqRange
<1>8. Active = {t} \union SeqRange(s) /\ Active' = SeqRange(s)
  BY <1>3, <1>4 DEF Active, SeqRange
<1> QED BY <1>3, <1>4, <1>6, <1>7, <1>8

(* The selected obsolete packages are uninstalled with the last queue.       *)
LEMMA JoinsQueues ==
  ASSUME TypeOK, PlacedOnce, PromptObsolete
  PROVE  \E S \in SUBSET (Requests \ made) :
           /\ \A t \in S : t.from = "prompt"
           /\ \A t \in S : entry'[t] \in obsolete /\ entry'[t].row.release.pkg = t.pkg
           /\ asked' = asked \union S /\ made' = made \union S
           /\ entry' \in [Requests -> EntryCopies]
           /\ \A t \in Requests \ S : entry'[t] = entry[t]
           /\ queues' \in Seq(SUBSET Requests)
           /\ Queued' = Queued \union S
           /\ Separate(queues')
<1>1. PICK selected \in ObsoleteQuery :
        LET S == UNION {PromptFor(e) : e \in selected}
            last == Len(queues)
        IN /\ queues' = IF S = {} THEN queues
                        ELSE IF queues = <<>> THEN <<S>>
                        ELSE [queues EXCEPT ![last] = @ \union S]
           /\ entry' = [t \in Requests |->
                IF t \in S THEN CHOOSE e \in selected : e.row.release.pkg = t.pkg
                           ELSE entry[t]]
           /\ asked' = asked \union S
           /\ made' = made \union S
  BY DEF PromptObsolete
<1>2. PICK S : S = UNION {PromptFor(e) : e \in selected}
  OBVIOUS
<1>3. /\ S \subseteq Requests \ made /\ \A t \in S : t.from = "prompt"
      /\ \A t \in S : \E e \in selected : e.row.release.pkg = t.pkg
  BY <1>2 DEF PromptFor
<1>4. /\ queues' = IF S = {} THEN queues
                   ELSE IF queues = <<>> THEN <<S>>
                   ELSE [queues EXCEPT ![Len(queues)] = queues[Len(queues)] \union S]
      /\ entry' = [t \in Requests |->
           IF t \in S THEN CHOOSE e \in selected : e.row.release.pkg = t.pkg
                      ELSE entry[t]]
      /\ asked' = asked \union S
      /\ made' = made \union S
  BY <1>1, <1>2
<1>5. /\ entry' \in [Requests -> EntryCopies] /\ \A t \in Requests \ S : entry'[t] = entry[t]
      /\ \A t \in S : entry'[t] \in obsolete /\ entry'[t].row.release.pkg = t.pkg
  <2>1. ASSUME NEW t \in S
        PROVE  /\ entry'[t] \in obsolete /\ entry'[t].row.release.pkg = t.pkg
               /\ entry'[t] \in EntryCopies
    <3>1. PICK found \in selected : found.row.release.pkg = t.pkg
      BY <1>3
    <3>2. PICK x : x = CHOOSE e \in selected : e.row.release.pkg = t.pkg
      OBVIOUS
    <3>3. x \in selected /\ x.row.release.pkg = t.pkg
      BY <3>1, <3>2
    <3>4. entry'[t] = x
      BY <1>3, <1>4, <3>2
    <3> QED BY <3>3, <3>4 DEF ObsoleteQuery, TypeOK
  <2>2. entry \in [Requests -> EntryCopies]
    BY DEF TypeOK
  <2> QED BY <1>3, <1>4, <2>1, <2>2
<1>6. Queued \subseteq made
  BY DEF TypeOK, PlacedOnce, Outstanding, Queued
<1>7. queues \in Seq(SUBSET Requests) /\ Separate(queues)
  BY DEF TypeOK, PlacedOnce, Separate
<1> DEFINE Goal == /\ queues' \in Seq(SUBSET Requests)
                   /\ Queued' = Queued \union S
                   /\ Separate(queues')
<1>8. ASSUME S = {} PROVE Goal
  BY <1>4, <1>7, <1>8 DEF Queued
<1>9. ASSUME S # {} /\ queues = <<>> PROVE Goal
  <2>1. queues' = <<S>> /\ S \in SUBSET Requests
    BY <1>3, <1>4, <1>9
  <2>2. PICK s : s = queues'
    OBVIOUS
  <2>3. s \in Seq(SUBSET Requests) /\ DOMAIN s = {1} /\ s[1] = S
    BY <2>1, <2>2
  <2>4. Separate(s) /\ SeqRange(s) = {S} /\ SeqRange(queues) = {}
    BY <1>9, <2>3 DEF Separate, SeqRange
  <2>5. SeqRange(queues') = {S}
    BY <2>2, <2>4
  <2>6. Queued' = S /\ Queued = {}
    BY <2>4, <2>5 DEF Queued, SeqRange
  <2> QED BY <2>2, <2>3, <2>4, <2>6
<1>10. ASSUME S # {} /\ queues # <<>> PROVE Goal
  <2>1. PICK n \in Nat \ {0} : n = Len(queues) /\ DOMAIN queues = 1..n
    BY <1>7, <1>10, EmptySeq
  <2>2. PICK s : s = queues'
    OBVIOUS
  <2>3. n \in 1..n /\ queues[n] \in SUBSET Requests
    BY <1>7, <2>1, ElementOfSeq
  <2>4. PICK U \in SUBSET Requests : U = queues[n] \union S
    BY <1>3, <2>3
  <2>5. s = [queues EXCEPT ![n] = U]
    BY <1>4, <1>10, <2>1, <2>2, <2>4
  <2>6. /\ s \in Seq(SUBSET Requests) /\ Len(s) = n
        /\ \A i \in 1..n : s[i] = IF i = n THEN U ELSE queues[i]
    BY <1>7, <2>1, <2>3, <2>5, ExceptSeq
  <2>7. DOMAIN s = 1..n
    BY <2>6
  <2>8. Queued = UNION {queues[i] : i \in 1..n} /\ Queued' = UNION {s[i] : i \in 1..n}
    BY <2>1, <2>2, <2>7 DEF Queued, SeqRange
  <2>9. \A i \in 1..n : queues[i] \cap S = {}
    BY <1>3, <1>6, <2>8
  <2>10. Separate(s)
    BY <1>7, <2>1, <2>3, <2>4, <2>6, <2>7, <2>9 DEF Separate
  <2>11. Queued' = Queued \union S
    BY <2>3, <2>4, <2>6, <2>8
  <2> QED BY <2>2, <2>6, <2>10, <2>11
<1>11. Goal
  BY <1>8, <1>9, <1>10
<1> QED BY <1>3, <1>4, <1>5, <1>11

(* The tickets are about paths.                                              *)
LEMMA TicketFilesType ==
  ASSUME TypeOK
  PROVE  TicketFiles \subseteq Paths
<1>1. \A i \in DOMAIN tickets : tickets[i] \in Tickets
  BY ElementOfSeq DEF TypeOK
<1> QED BY <1>1 DEF TicketFiles, Tickets

(* The first ticket is taken.                                                *)
LEMMA TakesTicket ==
  ASSUME TypeOK, RegisterQueued, tickets # <<>>
  PROVE  /\ tickets[1] \in Tickets
         /\ tickets' = Tail(tickets) /\ tickets' \in Seq(Tickets)
         /\ scripts' = IF tickets[1].add THEN scripts \union tickets[1].files
                                         ELSE scripts \ tickets[1].files
         /\ lost' = lost \ tickets[1].files
         /\ pc' = pc
<1>1. tickets \in Seq(Tickets)
  BY DEF TypeOK
<1>2. Tail(tickets) \in Seq(Tickets) /\ Head(tickets) \in Tickets /\ Head(tickets) = tickets[1]
  BY <1>1, RangeTail
<1>3. SubSeq(tickets, 1, 0) = <<>>
  BY SubSeqEmpty
<1>4. SubSeq(tickets, 2, Len(tickets)) = Tail(tickets)
  BY <1>1, TailIsSubSeq
<1>5. tickets' = SubSeq(tickets, 1, 0) \o SubSeq(tickets, 2, Len(tickets))
  BY DEF RegisterQueued, FirstTicket
<1>6. tickets' = Tail(tickets)
  BY <1>2, <1>3, <1>4, <1>5, ConcatEmptySeq
<1> QED BY <1>2, <1>6 DEF RegisterQueued, FirstTicket

(* The files a task finds are paths.                                         *)
LEMMA FilesOfType ==
  ASSUME NEW t, NEW view
  PROVE  /\ FilesOf(t, view) \in [files : SUBSET Paths, mains : SUBSET Paths]
         /\ FilesOf(t, view).files \subseteq Paths /\ FilesOf(t, view).mains \subseteq Paths
         /\ OldFiles(t) \in [files : SUBSET Paths, mains : SUBSET Paths]
BY DEF FilesOf, OldFiles, GetFiles, GetMainFiles

-----------------------------------------------------------------------------
(* Types *)

(* A push of start() or commit() leaves consistent tables.                   *)
LEMMA PushKeeps ==
  ASSUME TypeOK, RegistriesHold, NEW t \in Requests, t.kind = "install",
         Conflicts(tables, t.release) = {},
         \E i \in Ids : /\ IsPushId(tables, t.release.pkg, i)
                        /\ tables' = Pushed(tables, t.release, FlagsOf(t), i)
  PROVE  tables' \in Tables /\ ConsistentTables(tables')
<1>1. /\ tables \in Tables /\ ConsistentTables(tables)
      /\ t.release \in Releases /\ FlagsOf(t) \in Flags
  BY FlagsOfType, RequestTold DEF TypeOK, RegistriesHold
<1> QED BY <1>1, PushedType, PushedConsistent

(* So does the removal of the entry that a task holds.                       *)
LEMMA ForgetKeeps ==
  ASSUME TypeOK, RegistriesHold, NEW t \in Requests,
         tables' = Forgotten(tables, entry[t].id)
  PROVE  tables' \in Tables /\ ConsistentTables(tables')
<1>1. entry[t].id \in Ids \union {0}
  BY CopyId DEF TypeOK
<1> QED BY <1>1, ForgottenType, ForgottenConsistent DEF TypeOK, RegistriesHold

(* And setting the flags of that entry.                                      *)
LEMMA FlagsKeep ==
  ASSUME TypeOK, RegistriesHold, NEW t \in Requests, t.kind = "flags",
         tables' = FlagsSet(tables, entry[t].id, t.flags)
  PROVE  tables' \in Tables /\ ConsistentTables(tables')
<1>1. entry[t].id \in Ids \union {0} /\ t.flags \in Flags
  BY CopyId, RequestTold DEF TypeOK
<1> QED BY <1>1, FlagsSetType, FlagsSetConsistent DEF TypeOK, RegistriesHold

(* The steps of the main thread at rest, and the restart.                    *)
LEMMA RestTypes ==
  ASSUME TransactionInv, Apply \/ Abort \/ (\E t \in Requests : JobsEnd(t)) \/ Restart \/ Teardown
  PROVE  TypeOK'
<1> USE DEF TransactionInv, TypeOK, registry, outside, queue, tasks, history
<1>1. CASE Apply
  <2>1. PICK S \in SUBSET {t \in Requests \ made : t.from = "user"},
             view \in {tables, durable} : Enqueue(S, view)
    BY <1>1 DEF Apply
  <2>2. \A t \in S : EntryFor(t, view) \in EntryCopies
    BY <2>1, EntryForType
  <2>3. entry' \in [Requests -> EntryCopies]
    BY <2>1, <2>2 DEF Enqueue
  <2> QED BY <1>1, <2>1, <2>3 DEF Apply, Enqueue, Points
<1>2. CASE Abort
  BY <1>2, TicketFilesType, EmptySeq DEF Abort
<1>3. CASE \E t \in Requests : JobsEnd(t)
  BY <1>3 DEF JobsEnd, WhenIdle, Points
<1>4. ASSUME NewTransaction, suspect' \subseteq Paths, lost' \subseteq Paths PROVE TypeOK'
  <2>1. NoEntry \in EntryCopies /\ NoFiles \in [files : SUBSET Paths, mains : SUBSET Paths]
    BY DEF EntryCopies, NoFiles
  <2> QED BY <1>4, <2>1, EmptySeq DEF NewTransaction, Points
<1>5. CASE Restart
  <2>1. suspect' \subseteq Paths /\ lost' \subseteq Paths
    BY <1>5, TicketFilesType DEF Restart
  <2> QED BY <1>4, <1>5, <2>1 DEF Restart
<1>6. CASE Teardown
  <2>1. suspect' \subseteq Paths /\ lost' \subseteq Paths
    BY <1>6 DEF Teardown
  <2> QED BY <1>4, <1>6, <2>1 DEF Teardown
<1> QED BY <1>1, <1>2, <1>3, <1>5, <1>6

(* The steps of runTasks around the tasks.                                   *)
LEMMA RunTypes ==
  ASSUME TransactionInv,
         \/ EnterQueue \/ Committed \/ PromptObsolete \/ NextQueue \/ EndQueue \/ Recommitted
         \/ CommitRegistry \/ RegisterQueued
  PROVE  TypeOK'
<1> USE DEF TransactionInv, registry, outside, queue, tasks, history
<1>1. CASE EnterQueue
  <2>1. queues' \in Seq(SUBSET Requests)
    BY <1>1, EntersQueues
  <2> QED BY <1>1, <2>1 DEF EnterQueue, TypeOK, Points
<1>2. CASE Committed
  BY <1>2 DEF Committed, TypeOK, Points
<1>3. CASE PromptObsolete
  <2>1. PICK S \in SUBSET (Requests \ made) :
          /\ asked' = asked \union S /\ made' = made \union S
          /\ entry' \in [Requests -> EntryCopies]
          /\ queues' \in Seq(SUBSET Requests)
    BY <1>3, JoinsQueues
  <2> QED BY <1>3, <2>1 DEF PromptObsolete, TypeOK, Points
<1>4. CASE NextQueue
  BY <1>4 DEF NextQueue, TypeOK, Points
<1>5. CASE EndQueue
  <2>1. tables' \in Tables
    BY <1>5 DEF EndQueue, RegistriesHold
  <2>2. queues' \in Seq(SUBSET Requests)
    BY <1>5, LeavesQueues DEF EndQueue, PointsTold
  <2> QED BY <1>5, <2>1, <2>2 DEF EndQueue, TypeOK, Points
<1>6. CASE Recommitted
  BY <1>6 DEF Recommitted, TypeOK, Points
<1>7. CASE CommitRegistry
  BY <1>7 DEF CommitRegistry, TypeOK, Points
<1>8. CASE RegisterQueued
  <2>1. CASE tickets = <<>>
    BY <1>8, <2>1 DEF RegisterQueued, TypeOK, Points
  <2>2. CASE tickets # <<>>
    <3>1. /\ tickets[1] \in Tickets /\ tickets' \in Seq(Tickets)
          /\ scripts' = IF tickets[1].add THEN scripts \union tickets[1].files
                                          ELSE scripts \ tickets[1].files
          /\ lost' = lost \ tickets[1].files
          /\ pc' = pc
      BY <1>8, <2>2, TakesTicket
    <3>2. scripts' \subseteq Paths /\ lost' \subseteq Paths
      BY <3>1 DEF Tickets, TypeOK
    <3> QED BY <1>8, <3>1, <3>2 DEF RegisterQueued, TypeOK
  <2> QED BY <2>1, <2>2
<1> QED BY <1>1, <1>2, <1>3, <1>4, <1>5, <1>6, <1>7, <1>8

(* The start of a task takes it from its queue to the running tasks, unless  *)
(* it is refused.                                                            *)
LEMMA StartMoves ==
  ASSUME TransactionInv, NEW t \in Requests, StartTask(t)
  PROVE  /\ pc = "start" /\ pc' = pc /\ t \in Queued /\ t \notin Active
         /\ queues' \in Seq(SUBSET Requests) /\ queues' # <<>>
         /\ Queued' = Queued \ {t} /\ Separate(queues')
         /\ \/ RefuseInstall(t) /\ active' = active /\ Active' = Active
            \/ /\ active' \in Seq(Requests)
               /\ Active' = Active \union {t} /\ Distinct(active')
<1>1. IsTop(t) /\ queues' = Popped(t) /\ pc' = pc
  BY DEF StartTask, StartInstall, RefuseInstall, StartUninstall, StartOther
<1>2. pc = "start" /\ t \in Head(queues) /\ queues # <<>>
  BY <1>1 DEF IsTop, TransactionInv, PointsTold
<1>3. /\ t \in Queued
      /\ queues' \in Seq(SUBSET Requests) /\ queues' # <<>>
      /\ Queued' = Queued \ {t} /\ Separate(queues')
  BY <1>1, <1>2, LeavesQueue DEF TransactionInv
<1>4. t \notin Active
  BY <1>3 DEF TransactionInv, PlacedOnce
<1>5. CASE RefuseInstall(t)
  BY <1>1, <1>2, <1>3, <1>4, <1>5 DEF RefuseInstall, Active
<1>6. CASE active' = Append(active, t)
  <2>1. active' \in Seq(Requests) /\ Active' = Active \union {t} /\ Distinct(active')
    BY <1>4, <1>6, BecomesActive DEF TransactionInv
  <2> QED BY <1>1, <1>2, <1>3, <1>4, <2>1
<1> QED BY <1>5, <1>6 DEF StartTask, StartInstall, StartUninstall, StartOther

LEMMA StartTypes ==
  ASSUME TransactionInv, NEW t \in Requests, StartTask(t)
  PROVE  TypeOK' /\ ConsistentTables(tables')
<1> USE DEF TransactionInv, registry, outside, queue, tasks, history
<1>1. queues' \in Seq(SUBSET Requests) /\ active' \in Seq(Requests)
  BY StartMoves DEF TypeOK
<1>2. CASE StartInstall(t)
  <2>1. tables' \in Tables /\ ConsistentTables(tables')
    BY <1>2, PushKeeps DEF StartInstall
  <2>2. old' \in [Requests -> [files : SUBSET Paths, mains : SUBSET Paths]]
    BY <1>2, FilesOfType DEF StartInstall, TypeOK
  <2> QED BY <1>1, <1>2, <2>1, <2>2 DEF StartInstall, TypeOK
<1>3. CASE RefuseInstall(t)
  BY <1>1, <1>3 DEF RefuseInstall, TypeOK, RegistriesHold
<1>4. CASE StartUninstall(t)
  <2>1. tables' \in Tables /\ ConsistentTables(tables')
    BY <1>4, ForgetKeeps DEF StartUninstall
  <2>2. old' \in [Requests -> [files : SUBSET Paths, mains : SUBSET Paths]]
    BY <1>4, FilesOfType DEF StartUninstall, TypeOK
  <2> QED BY <1>1, <1>4, <2>1, <2>2 DEF StartUninstall, TypeOK
<1>5. CASE StartOther(t)
  BY <1>1, <1>5 DEF StartOther, TypeOK, RegistriesHold
<1> QED BY <1>2, <1>3, <1>4, <1>5 DEF StartTask

(* A task that is committed or rolled back is the first of the running ones. *)
LEMMA CommitMoves ==
  ASSUME TransactionInv, NEW t \in Requests, CommitTask(t)
  PROVE  /\ pc \in {"commit", "recommit"} /\ pc' \in {pc, "thrown"}
         /\ pc' # pc => CommitInstall(t)
         /\ t \in Active /\ active # <<>>
         /\ queues' = queues /\ Queued' = Queued
         /\ active' \in Seq(Requests) /\ Active' = Active \ {t} /\ Distinct(active')
<1>1. Committing(t) /\ queues' = queues /\ (pc' = pc \/ (pc' = "thrown" /\ CommitInstall(t)))
  BY DEF CommitTask, Rollback, FailInstall, CommitInstall, CommitUninstall, CommitFlags,
         CommitSync, queue
<1>2. /\ pc \in {"commit", "recommit"} /\ active # <<>>
      /\ t = Head(active) /\ active' = Tail(active)
  BY <1>1 DEF Committing
<1>3. t \in Active /\ active' \in Seq(Requests) /\ Active' = Active \ {t} /\ Distinct(active')
  BY <1>2, LeavesActive DEF TransactionInv
<1> QED BY <1>1, <1>2, <1>3 DEF Queued

LEMMA CommitTypes ==
  ASSUME TransactionInv, NEW t \in Requests, CommitTask(t)
  PROVE  TypeOK' /\ ConsistentTables(tables')
<1> USE DEF TransactionInv, registry, outside, queue, tasks, history
<1>1. active' \in Seq(Requests) /\ queues' \in Seq(SUBSET Requests)
  BY CommitMoves DEF TypeOK
<1>2. old[t].files \subseteq Paths /\ old[t].mains \subseteq Paths
  BY DEF TypeOK
<1>3. ASSUME NEW d \in [Paths -> Releases \union {NoRelease}], NEW S
      PROVE  Removed(d, S) \in [Paths -> Releases \union {NoRelease}]
  BY DEF Removed
<1>4. ASSUME t.kind = "install", NEW S
      PROVE  Written(S, t.release) \in [Paths -> Releases \union {NoRelease}]
  BY <1>4, RequestTold DEF Written, TypeOK
<1>5. CASE Rollback(t)
  BY <1>1, <1>5 DEF Rollback, TypeOK, RegistriesHold
<1>6. CASE FailInstall(t)
  <2>1. t.release.files \subseteq Paths
    BY <1>6, RequestTold DEF FailInstall
  <2>2. PICK bad \in t.release.files, gone \in BOOLEAN, done \in SUBSET t.release.files :
               /\ disk' = IF gone THEN Removed(Written(done, t.release), {bad})
                                  ELSE Written(done, t.release)
               /\ dirty' = dirty \union done \union {bad}
               /\ suspect' = suspect \union done \union {bad}
    BY <1>6 DEF FailInstall
  <2>3. disk' \in [Paths -> Releases \union {NoRelease}]
    BY <1>3, <1>4, <1>6, <2>2 DEF FailInstall
  <2>4. dirty' \subseteq Paths /\ suspect' \subseteq Paths
    BY <2>1, <2>2 DEF TypeOK
  <2> QED BY <1>1, <1>6, <2>3, <2>4 DEF FailInstall, TypeOK, RegistriesHold
<1>7. CASE CommitInstall(t)
  <2>1. t.release.files \subseteq Paths /\ t.release.mains \subseteq Paths
    BY <1>7, RequestTold DEF CommitInstall
  <2>2. PICK kept \in Undeletable(old[t].files) :
          /\ disk' = Removed(Written(t.release.files, t.release), old[t].files \ kept)
          /\ suspect' = (suspect \ t.release.files) \union kept
    BY <1>7 DEF CommitInstall
  <2>3. kept \subseteq Paths
    BY <1>2, <2>2 DEF Undeletable
  <2>4. disk' \in [Paths -> Releases \union {NoRelease}]
    BY <1>3, <1>4, <1>7, <2>2 DEF CommitInstall
  <2>5. dirty' \subseteq Paths /\ suspect' \subseteq Paths
    BY <1>2, <1>7, <2>1, <2>2, <2>3 DEF CommitInstall, TypeOK
  <2>6. CASE Conflicts(tables, t.release) = {}
    <3>1. tables' \in Tables /\ ConsistentTables(tables')
      BY <1>7, <2>6, PushKeeps DEF CommitInstall
    <3>2. tickets' \in Seq(Tickets)
      <4>1. /\ tickets \in Seq(Tickets) /\ Ticket(FALSE, old[t].mains) \in Seq(Tickets)
            /\ Ticket(TRUE, t.release.mains) \in Seq(Tickets)
        BY <1>2, <2>1, TicketType DEF TypeOK
      <4>2. tickets \o Ticket(FALSE, old[t].mains) \in Seq(Tickets)
        BY <4>1, ConcatProperties
      <4>3. (tickets \o Ticket(FALSE, old[t].mains)) \o Ticket(TRUE, t.release.mains)
              \in Seq(Tickets)
        BY <4>1, <4>2, ConcatProperties
      <4> QED BY <1>7, <2>6, <4>3 DEF CommitInstall
    <3>3. pc' \in Points
      BY <1>7, <2>6 DEF CommitInstall, TypeOK
    <3> QED BY <1>1, <1>7, <2>4, <2>5, <3>1, <3>2, <3>3 DEF CommitInstall, TypeOK
  <2>7. CASE Conflicts(tables, t.release) # {}
    <3>1. tables' = tables /\ tickets' = tickets /\ pc' = "thrown"
      BY <1>7, <2>7 DEF CommitInstall
    <3> QED BY <1>1, <1>7, <2>4, <2>5, <3>1 DEF CommitInstall, TypeOK, Points, RegistriesHold
  <2> QED BY <2>6, <2>7
<1>8. CASE CommitUninstall(t)
  <2>1. PICK kept \in Undeletable(old[t].files) :
          /\ disk' = Removed(disk, old[t].files \ kept)
          /\ suspect' = (suspect \ old[t].files) \union kept
          /\ errors' = IF kept = {} THEN errors ELSE errors \union {t}
    BY <1>8 DEF CommitUninstall
  <2>2. kept \subseteq Paths
    BY <1>2, <2>1 DEF Undeletable
  <2>3. disk' \in [Paths -> Releases \union {NoRelease}]
    BY <1>3, <2>1 DEF TypeOK
  <2>4. dirty' \subseteq Paths /\ suspect' \subseteq Paths /\ errors' \subseteq Requests
    BY <1>2, <1>8, <2>1, <2>2 DEF CommitUninstall, TypeOK
  <2>5. tables' \in Tables /\ ConsistentTables(tables')
    BY <1>8, ForgetKeeps DEF CommitUninstall
  <2>6. tickets' \in Seq(Tickets)
    <3>1. tickets \in Seq(Tickets) /\ Ticket(FALSE, old[t].mains) \in Seq(Tickets)
      BY <1>2, TicketType DEF TypeOK
    <3>2. tickets \o Ticket(FALSE, old[t].mains) \in Seq(Tickets)
      BY <3>1, ConcatProperties
    <3> QED BY <1>8, <3>2 DEF CommitUninstall
  <2> QED BY <1>1, <1>8, <2>3, <2>4, <2>5, <2>6 DEF CommitUninstall, TypeOK
<1>9. CASE CommitFlags(t)
  <2>1. tables' \in Tables /\ ConsistentTables(tables')
    BY <1>9, FlagsKeep DEF CommitFlags
  <2> QED BY <1>1, <1>9, <2>1 DEF CommitFlags, TypeOK
<1>10. CASE CommitSync(t)
  <2>1. InstallsOf(t) \subseteq Requests
    BY DEF InstallsOf
  <2>2. \A u \in Requests : EntryFor(u, tables) \in EntryCopies
    BY EntryForType DEF TypeOK
  <2>3. entry' \in [Requests -> EntryCopies]
    BY <1>10, <2>2 DEF CommitSync, TypeOK
  <2>4. ObsoleteOf(t) \subseteq EntryCopies \ {NoEntry}
    BY GetEntriesCopies DEF ObsoleteOf, TypeOK
  <2> QED BY <1>1, <1>10, <2>1, <2>3, <2>4 DEF CommitSync, TypeOK, RegistriesHold
<1> QED BY <1>5, <1>6, <1>7, <1>8, <1>9, <1>10 DEF CommitTask

(* Every step keeps the types.                                               *)
LEMMA TypeKept ==
  ASSUME TransactionInv, [Next]_vars
  PROVE  TypeOK'
<1>1. CASE UNCHANGED vars
  BY <1>1 DEF TransactionInv, TypeOK, vars, registry, outside, queue, tasks, history
<1>2. CASE \E t \in Requests : StartTask(t) \/ CommitTask(t)
  BY <1>2, StartTypes, CommitTypes
<1> QED BY <1>1, <1>2, RestTypes, RunTypes DEF Next, MainStep

(* Every step keeps the tables, the savepoint and the file consistent.       *)
LEMMA RegistriesKept ==
  ASSUME TransactionInv, [Next]_vars
  PROVE  RegistriesHold'
<1> USE DEF TransactionInv, RegistriesHold, registry
<1>1. CASE \E t \in Requests : StartTask(t)
  <2>1. PICK t \in Requests : StartTask(t)
    BY <1>1
  <2>2. ConsistentTables(tables') /\ pc = "start" /\ pc' = "start"
    BY <2>1, StartTypes, StartMoves
  <2>3. durable' = durable /\ saved' = saved
    BY <2>1 DEF StartTask, StartInstall, RefuseInstall, StartUninstall, StartOther
  <2> QED BY <2>2, <2>3
<1>2. CASE \E t \in Requests : CommitTask(t)
  <2>1. PICK t \in Requests : CommitTask(t)
    BY <1>2
  <2>2. ConsistentTables(tables') /\ pc # "start" /\ pc' # "start"
    BY <2>1, CommitTypes, CommitMoves
  <2>3. durable' = durable /\ saved' = saved
    BY <2>1 DEF CommitTask, Rollback, FailInstall, CommitInstall, CommitUninstall,
                CommitFlags, CommitSync
  <2> QED BY <2>2, <2>3
<1>3. CASE NextQueue
  <2>1. tables \in Tables
    BY DEF TypeOK
  <2> QED BY <1>3, <2>1 DEF NextQueue
<1>4. CASE EndQueue
  <2>1. PICK t \in Tables : saved = <<t>> /\ ConsistentTables(t)
    BY <1>4 DEF EndQueue
  <2>2. tables' = t
    BY <1>4, <2>1 DEF EndQueue
  <2> QED BY <1>4, <2>1, <2>2 DEF EndQueue
<1>5. CASE NewTransaction
  BY <1>5 DEF NewTransaction
<1>6. CASE Apply \/ Abort \/ (\E t \in Requests : JobsEnd(t))
  BY <1>6 DEF Apply, Abort, JobsEnd, WhenIdle
<1>7. CASE EnterQueue \/ Committed \/ PromptObsolete \/ Recommitted
  BY <1>7 DEF EnterQueue, Committed, PromptObsolete, Recommitted
<1>8. CASE CommitRegistry \/ RegisterQueued
  BY <1>8 DEF CommitRegistry, RegisterQueued
<1>9. CASE UNCHANGED vars
  BY <1>9 DEF vars
<1> QED BY <1>1, <1>2, <1>3, <1>4, <1>5, <1>6, <1>7, <1>8, <1>9
         DEF Next, MainStep, Teardown, Restart

(* Where the outstanding tasks are.                                          *)
LEMMA OutstandingIs ==
  /\ Outstanding = next \union Queued \union Active
  /\ Outstanding' = next' \union Queued' \union Active'
BY DEF Outstanding, Queued, Active

(* Every step keeps each task in one place.                                  *)
LEMMA PlacedKept ==
  ASSUME TransactionInv, [Next]_vars
  PROVE  PlacedOnce'
<1> USE DEF TransactionInv, PlacedOnce, Separate, Distinct, queue, tasks
<1>1. Outstanding = next \union Queued \union Active
  BY OutstandingIs
<1>2. Outstanding' = next' \union Queued' \union Active'
  BY OutstandingIs
<1>3. CASE Apply
  <2>1. PICK S \in SUBSET {t \in Requests \ made : t.from = "user"} :
          next' = next \union S /\ asked' = asked \union S
    BY <1>3 DEF Apply, Enqueue
  <2>2. S \cap Outstanding = {}
    BY DEF TypeOK
  <2>3. queues' = queues /\ active' = active /\ Queued' = Queued /\ Active' = Active
    BY <1>3 DEF Apply, Queued, Active
  <2> QED BY <1>1, <1>2, <2>1, <2>2, <2>3
<1>4. CASE EnterQueue
  <2>1. next' = {} /\ active' = active /\ asked' = asked /\ Active' = Active
    BY <1>4 DEF EnterQueue, Active
  <2>2. Queued' = Queued \union next /\ Separate(queues')
    BY <1>4, EntersQueues
  <2> QED BY <1>1, <1>2, <2>1, <2>2
<1>5. CASE PromptObsolete
  <2>1. next' = next /\ active' = active /\ Active' = Active
    BY <1>5 DEF PromptObsolete, Active
  <2>2. PICK S \in SUBSET (Requests \ made) :
          asked' = asked \union S /\ Queued' = Queued \union S /\ Separate(queues')
    BY <1>5, JoinsQueues
  <2>3. S \cap Outstanding = {}
    BY DEF TypeOK
  <2> QED BY <1>1, <1>2, <2>1, <2>2, <2>3
<1>6. CASE EndQueue
  <2>1. next' = next /\ active' = active /\ asked' = asked /\ Active' = Active
    BY <1>6 DEF EndQueue, Active
  <2>2. Queued' = Queued /\ Separate(queues')
    BY <1>6, LeavesQueues DEF EndQueue, PointsTold
  <2> QED BY <1>1, <1>2, <2>1, <2>2
<1>7. CASE \E t \in Requests : StartTask(t)
  <2>1. PICK t \in Requests : StartTask(t)
    BY <1>7
  <2>2. next' = next /\ asked' = asked
    BY <2>1 DEF StartTask, StartInstall, RefuseInstall, StartUninstall, StartOther
  <2>3. /\ t \in Queued /\ t \notin Active
        /\ Queued' = Queued \ {t} /\ Separate(queues')
        /\ \/ active' = active /\ Active' = Active
           \/ Active' = Active \union {t} /\ Distinct(active')
    BY <2>1, StartMoves
  <2> QED BY <1>1, <1>2, <2>2, <2>3
<1>8. CASE \E t \in Requests : CommitTask(t)
  <2>1. PICK t \in Requests : CommitTask(t)
    BY <1>8
  <2>2. queues' = queues /\ Queued' = Queued /\ Active' = Active \ {t} /\ Distinct(active')
    BY <2>1, CommitMoves
  <2>3. \/ next' = next /\ asked' = asked
        \/ next' = next \union InstallsOf(t) /\ asked' = asked \union InstallsOf(t)
    BY <2>1 DEF CommitTask, Rollback, FailInstall, CommitInstall, CommitUninstall,
                CommitFlags, CommitSync
  <2>4. InstallsOf(t) \cap Outstanding = {}
    BY DEF InstallsOf, TypeOK
  <2> QED BY <1>1, <1>2, <2>2, <2>3, <2>4
<1>9. CASE NewTransaction
  <2>1. next' = {} /\ queues' = <<>> /\ active' = <<>>
    BY <1>9 DEF NewTransaction
  <2>2. Queued' = {} /\ Active' = {}
    BY <2>1 DEF Queued, Active, SeqRange
  <2> QED BY <1>2, <2>1, <2>2
<1>10. ASSUME next' = next, queues' = queues, active' = active, asked' = asked
       PROVE  PlacedOnce'
  <2>1. Queued' = Queued /\ Active' = Active
    BY <1>10 DEF Queued, Active
  <2> QED BY <1>1, <1>2, <1>10, <2>1
<1>11. CASE Abort \/ (\E t \in Requests : JobsEnd(t))
  BY <1>10, <1>11 DEF Abort, JobsEnd
<1>12. CASE Committed \/ NextQueue \/ Recommitted \/ CommitRegistry \/ RegisterQueued
  BY <1>10, <1>12 DEF Committed, NextQueue, Recommitted, CommitRegistry, RegisterQueued
<1>13. CASE UNCHANGED vars
  BY <1>10, <1>13 DEF vars
<1> QED BY <1>3, <1>4, <1>5, <1>6, <1>7, <1>8, <1>9, <1>11, <1>12, <1>13
         DEF Next, MainStep, Teardown, Restart

(* Every step keeps what is true at each point of runTasks.                  *)
LEMMA PointsKept ==
  ASSUME TransactionInv, [Next]_vars
  PROVE  PointsTold'
<1> USE DEF TransactionInv, PointsTold, registry, queue, tasks
<1>1. CASE \E t \in Requests : StartTask(t)
  <2>1. PICK t \in Requests : StartTask(t)
    BY <1>1
  <2>2. /\ pc = "start" /\ pc' = "start" /\ queues' # <<>>
        /\ Active' = Active \/ Active' = Active \union {t}
    BY <2>1, StartMoves
  <2>3. /\ cancelled' = cancelled /\ obsolete' = obsolete /\ failed' = failed
        /\ errors \subseteq errors' /\ jobs \subseteq jobs'
        /\ t.kind = "sync" => t \in jobs' \/ Active' = Active
    BY <2>1, <2>2, StartMoves DEF StartTask, StartInstall, RefuseInstall, StartUninstall, StartOther
  <2> QED BY <2>2, <2>3
<1>2. CASE \E t \in Requests : CommitTask(t)
  <2>1. PICK t \in Requests : CommitTask(t)
    BY <1>2
  <2>2. /\ pc \in {"commit", "recommit"} /\ pc' \in {pc, "thrown"}
        /\ t \in Active /\ Active' = Active \ {t}
    BY <2>1, CommitMoves
  <2>3. /\ cancelled' = cancelled /\ failed' = failed /\ errors \subseteq errors'
        /\ obsolete' = obsolete \/ t.kind = "sync"
    BY <2>1 DEF CommitTask, Rollback, FailInstall, CommitInstall, CommitUninstall,
                CommitFlags, CommitSync
  <2> QED BY <2>2, <2>3
<1>3. CASE NewTransaction
  BY <1>3 DEF NewTransaction
<1>4. CASE Apply \/ Abort \/ (\E t \in Requests : JobsEnd(t))
  <2>1. pc = "rest" /\ pc' \in {"rest", "head"}
    BY <1>4 DEF Apply, Abort, JobsEnd, WhenIdle
  <2>2. ~cancelled' => failed' \subseteq errors'
    BY <1>4 DEF Apply, Abort, JobsEnd
  <2> QED BY <2>1, <2>2
<1>5. CASE EnterQueue
  BY <1>5 DEF EnterQueue
<1>6. CASE Committed
  BY <1>6 DEF Committed
<1>7. CASE PromptObsolete
  BY <1>7 DEF PromptObsolete
<1>8. CASE NextQueue
  <2>1. active = <<>> /\ Active' = {} /\ obsolete = {} /\ ~cancelled
    BY <1>8 DEF NextQueue, Active, SeqRange
  <2> QED BY <1>8, <2>1 DEF NextQueue
<1>9. CASE EndQueue
  <2>1. Active' = Active
    BY <1>9 DEF EndQueue, Active
  <2> QED BY <1>9, <2>1 DEF EndQueue
<1>10. CASE Recommitted
  BY <1>10 DEF Recommitted
<1>11. CASE CommitRegistry
  BY <1>11 DEF CommitRegistry
<1>12. CASE RegisterQueued
  <2>1. tickets # <<>> => pc' = pc
    BY <1>12 DEF RegisterQueued
  <2> QED BY <1>12, <2>1 DEF RegisterQueued
<1>13. CASE UNCHANGED vars
  <2>1. Active' = Active
    BY <1>13 DEF vars, Active
  <2> QED BY <1>13, <2>1 DEF vars
<1> QED BY <1>1, <1>2, <1>3, <1>4, <1>5, <1>6, <1>7, <1>8, <1>9, <1>10, <1>11, <1>12, <1>13
         DEF Next, MainStep, Teardown, Restart

(* A file that a push does not write is freed or left alone.                 *)
LEMMA PushFrees ==
  ASSUME NEW t \in Tables, NEW r \in Releases, NEW f \in Flags, NEW i \in Ids,
         ConsistentTables(t), Conflicts(t, r) = {}, IsPushId(t, r.pkg, i),
         NEW u, u = Pushed(t, r, f, i)
  PROVE  \A p \in Paths \ r.files : u.files[p] = NoFile \/ u.files[p] = t.files[p]
<1>1. WritesFiles(t, r, i, u)
  BY PushedWrites
<1> QED BY <1>1 DEF WritesFiles

(* Files of a removed entry are freed, the others are left alone.            *)
LEMMA ForgottenFrees ==
  ASSUME NEW t \in Tables, NEW i \in Ids \union {0}
  PROVE  \A p \in Paths :
           \/ Forgotten(t, i).files[p] = NoFile
           \/ Forgotten(t, i).files[p] = t.files[p] /\ ~OwnedBy(t, p, i)
<1>1. CASE i = 0
  <2>1. \A p \in Paths : ~OwnedBy(t, p, i)
    BY <1>1 DEF OwnedBy, Tables, FileRows, Ids
  <2> QED BY <1>1, <2>1 DEF Forgotten
<1>2. CASE i # 0
  BY <1>2 DEF Forgotten, WithoutFiles
<1> QED BY <1>1, <1>2

(* While a queue is started, every file is taken, free or as it was.         *)
LEMMA FilesKept ==
  ASSUME TransactionInv, [Next]_vars
  PROVE  FilesFreed'
<1> USE DEF TransactionInv, registry, queue, tasks
<1>1. CASE NextQueue
  <2>1. pc' = "start" => saved' = <<tables>> /\ tables' = tables /\ Active' = {}
    BY <1>1 DEF NextQueue, PointsTold, Active, SeqRange
  <2> QED BY <2>1 DEF FilesFreed
<1>2. CASE \E t \in Requests : StartTask(t)
  <2>1. PICK t \in Requests : StartTask(t)
    BY <1>2
  <2>2. /\ pc = "start" /\ pc' = "start"
        /\ Active' = Active \/ Active' = Active \union {t}
    BY <2>1, StartMoves
  <2>3. saved' = saved /\ entry' = entry
    BY <2>1 DEF StartTask, StartInstall, RefuseInstall, StartUninstall, StartOther
  <2>4. \A p \in Paths :
          \/ TakenBy(Active, p)
          \/ tables.files[p] = NoFile
          \/ /\ tables.files[p] = saved[1].files[p]
             /\ \A u \in Active : u.kind = "uninstall" => ~OwnedBy(saved[1], p, entry[u].id)
    BY <2>2 DEF FilesFreed
  <2>5. SUFFICES ASSUME NEW p \in Paths
                 PROVE  \/ TakenBy(Active', p)
                        \/ tables'.files[p] = NoFile
                        \/ /\ tables'.files[p] = saved[1].files[p]
                           /\ \A u \in Active' : u.kind = "uninstall" =>
                                ~OwnedBy(saved[1], p, entry[u].id)
    BY <2>3 DEF FilesFreed
  <2>6. TakenBy(Active, p) => TakenBy(Active', p)
    BY <2>2 DEF TakenBy
  <2>7. CASE StartInstall(t)
    <3>1. t.kind = "install" /\ t.release \in Releases /\ FlagsOf(t) \in Flags
      BY <2>7, RequestTold, FlagsOfType DEF StartInstall, TypeOK
    <3>2. PICK i \in Ids : /\ IsPushId(tables, t.release.pkg, i)
                           /\ tables' = Pushed(tables, t.release, FlagsOf(t), i)
      BY <2>7 DEF StartInstall
    <3>3. p \in t.release.files \/ tables'.files[p] = NoFile \/ tables'.files[p] = tables.files[p]
      <4>1. tables \in Tables /\ ConsistentTables(tables) /\ Conflicts(tables, t.release) = {}
        BY <2>7 DEF StartInstall, TypeOK, RegistriesHold
      <4>2. PICK u : u = tables'
        OBVIOUS
      <4>3. \A x \in Paths \ t.release.files : u.files[x] = NoFile \/ u.files[x] = tables.files[x]
        BY ONLY <3>1, <3>2, <4>1, <4>2, PushFrees
      <4> QED BY ONLY <4>2, <4>3, p \in Paths
    <3>4. t \in Active'
      <4>1. active' = Append(active, t) /\ t \notin Active
        BY <2>1, <2>7, StartMoves DEF StartInstall
      <4> QED BY <4>1, BecomesActive
    <3>5. p \in t.release.files => TakenBy(Active', p)
      BY <3>1, <3>4 DEF TakenBy
    <3>6. \A u \in Active' : u.kind = "uninstall" => u \in Active
      BY <2>2, <3>1
    <3> QED BY <2>4, <2>6, <3>3, <3>5, <3>6
  <2>8. CASE StartUninstall(t)
    <3>1. entry[t].id \in Ids \union {0} /\ tables \in Tables /\ tables' = Forgotten(tables, entry[t].id)
      BY <2>8, CopyId DEF StartUninstall, TypeOK
    <3>2. \/ tables'.files[p] = NoFile
          \/ tables'.files[p] = tables.files[p] /\ ~OwnedBy(tables, p, entry[t].id)
      BY <3>1, ForgottenFrees
    <3>3. tables.files[p] = saved[1].files[p] /\ OwnedBy(saved[1], p, entry[t].id)
            => OwnedBy(tables, p, entry[t].id)
      BY DEF OwnedBy
    <3> QED BY <2>2, <2>4, <2>6, <3>2, <3>3
  <2>9. CASE RefuseInstall(t) \/ StartOther(t)
    <3>1. tables' = tables /\ t.kind # "uninstall"
      BY <2>9 DEF RefuseInstall, StartOther
    <3> QED BY <2>2, <2>4, <2>6, <3>1
  <2> QED BY <2>1, <2>7, <2>8, <2>9 DEF StartTask
<1>3. CASE \E t \in Requests : CommitTask(t)
  BY <1>3, CommitMoves DEF FilesFreed
<1>4. CASE UNCHANGED vars
  <2>1. Active' = Active
    BY <1>4 DEF vars, Active
  <2> QED BY <1>4, <2>1 DEF FilesFreed, vars
<1>5. CASE EndQueue
  BY <1>5 DEF EndQueue, FilesFreed
<1>6. CASE RegisterQueued
  BY <1>6 DEF RegisterQueued, FilesFreed
<1>7. CASE Apply \/ Abort \/ (\E t \in Requests : JobsEnd(t))
  BY <1>7 DEF Apply, Abort, JobsEnd, WhenIdle, FilesFreed
<1>8. CASE NewTransaction \/ EnterQueue \/ Committed \/ PromptObsolete \/ Recommitted \/ CommitRegistry
  BY <1>8 DEF NewTransaction, EnterQueue, Committed, PromptObsolete, Recommitted,
              CommitRegistry, FilesFreed
<1> QED BY <1>1, <1>2, <1>3, <1>4, <1>5, <1>6, <1>7, <1>8
         DEF Next, MainStep, Teardown, Restart

-----------------------------------------------------------------------------
(* What holds of every transaction *)

(* The invariant is kept.                                                    *)
LEMMA TransactionKept ==
  ASSUME TransactionInv, [Next]_vars
  PROVE  TransactionInv'
BY TypeKept, RegistriesKept, PlacedKept, PointsKept, FilesKept DEF TransactionInv

(* Whatever is queued, fails, is cancelled or dies: a task is in one place,  *)
(* the savepoint is there when it is restored and nowhere else, and the      *)
(* contents of the database, of its file and of the savepoint are consistent *)
(* (transaction.cpp:145-244).                                                *)
THEOREM TransactionIsSound == Spec => []TransactionInv
<1>1. Init => TransactionInv
  BY InitTold
<1>2. TransactionInv /\ [Next]_vars => TransactionInv'
  BY TransactionKept
<1> QED BY <1>1, <1>2, PTL DEF Spec

(* The files, rows and main files of every package are those of one release, *)
(* in memory and in the database file, at every step (registry.cpp:119-207). *)
THEOREM TablesStayConsistent ==
  Spec => [](ConsistentTables(Visible) /\ ConsistentTables(durable))
<1>1. TransactionInv => ConsistentTables(Visible) /\ ConsistentTables(durable)
  BY DEF TransactionInv, RegistriesHold, Visible
<1> QED BY <1>1, TransactionIsSound, PTL

(* Nothing that was queued is left when a transaction ends by itself         *)
(* (transaction.cpp:145-174).                                                *)
THEOREM NothingIsDropped == Spec => []NoTaskIsDropped
<1>1. TransactionInv => NoTaskIsDropped
  <2> SUFFICES ASSUME TransactionInv, pc = "over", ~cancelled
               PROVE  Outstanding = {} /\ obsolete = {}
    BY DEF NoTaskIsDropped
  <2>1. next = {} /\ queues = <<>> /\ active = <<>> /\ obsolete = {}
    BY DEF TransactionInv, PointsTold
  <2> QED BY <2>1 DEF Outstanding, SeqRange
<1> QED BY <1>1, TransactionIsSound, PTL

(* A cancelled transaction changes no file and no package any more           *)
(* (transaction.cpp:155, 200-201).                                           *)
THEOREM CancelsAreHonoured == Spec => CancelHonoured
<1>1. ASSUME TransactionInv, Next, cancelled, ~Restart
      PROVE  disk' = disk /\ Visible' = Visible
  <2> USE DEF registry, outside
  <2>1. pc \notin {"prompt", "queues", "start", "recommit"}
    BY <1>1 DEF TransactionInv, PointsTold
  <2>2. saved = <<>> /\ Visible = tables
    BY <1>1, <2>1 DEF TransactionInv, RegistriesHold, Visible
  <2>3. ASSUME disk' = disk, tables' = tables, saved' = saved
        PROVE  disk' = disk /\ Visible' = Visible
    BY <2>3 DEF Visible
  <2>4. CASE \E t \in Requests : StartTask(t) \/ CommitTask(t)
    <3>1. PICK t \in Requests : StartTask(t) \/ CommitTask(t)
      BY <2>4
    <3>2. ~StartTask(t)
      BY <1>1, <2>1, StartMoves
    <3>3. Rollback(t)
      BY <1>1, <3>1, <3>2 DEF CommitTask, FailInstall, CommitInstall, CommitUninstall,
                              CommitFlags, CommitSync, RollsBack
    <3> QED BY <2>3, <3>3 DEF Rollback
  <2>5. CASE Teardown
    <3>1. tables = durable
      BY <1>1, <2>5 DEF Teardown, TransactionInv, PointsTold
    <3> QED BY <2>2, <2>3, <2>5, <3>1 DEF Teardown, NewTransaction
  <2>6. CASE Apply \/ Abort \/ (\E t \in Requests : JobsEnd(t))
    BY <2>3, <2>6 DEF Apply, Abort, JobsEnd
  <2>7. CASE EnterQueue \/ Committed \/ CommitRegistry \/ RegisterQueued
    BY <2>3, <2>7 DEF EnterQueue, Committed, CommitRegistry, RegisterQueued
  <2>8. ~(PromptObsolete \/ NextQueue \/ EndQueue \/ Recommitted)
    BY <2>1 DEF PromptObsolete, NextQueue, EndQueue, Recommitted
  <2> QED BY <1>1, <2>4, <2>5, <2>6, <2>7, <2>8 DEF Next, MainStep
<1>2. TransactionInv /\ [Next]_vars => [cancelled /\ ~Restart => disk' = disk /\ Visible' = Visible]_vars
  BY <1>1
<1> QED BY <1>2, TransactionIsSound, PTL DEF Spec, CancelHonoured

(* A task is through when it is refused, when it was the first of the        *)
(* running ones, or when the transaction is gone.                            *)
LEMMA ThroughBy ==
  ASSUME TransactionInv, [Next]_vars, NEW t \in Outstanding \ Outstanding'
  PROVE  \/ RefuseInstall(t)
         \/ CommitTask(t) /\ Active' = Active \ {t}
         \/ Teardown \/ Restart
<1> USE DEF TransactionInv, queue
<1>1. /\ t \in next \union Queued \union Active
      /\ t \notin next' /\ t \notin Queued' /\ t \notin Active'
  BY OutstandingIs
<1>2. CASE Apply
  <2>1. next \subseteq next' /\ Queued' = Queued /\ Active' = Active
    BY <1>2 DEF Apply, Enqueue, Queued, Active
  <2> QED BY <1>1, <2>1
<1>3. CASE EnterQueue
  <2>1. Queued' = Queued \union next /\ Active' = Active
    BY <1>3, EntersQueues DEF EnterQueue, Active
  <2> QED BY <1>1, <2>1
<1>4. CASE PromptObsolete
  <2>1. next' = next /\ Active' = Active
    BY <1>4 DEF PromptObsolete, Active
  <2>2. Queued \subseteq Queued'
    BY <1>4, JoinsQueues
  <2> QED BY <1>1, <2>1, <2>2
<1>5. CASE EndQueue
  <2>1. next' = next /\ Active' = Active
    BY <1>5 DEF EndQueue, Active
  <2>2. Queued' = Queued
    BY <1>5, LeavesQueues DEF EndQueue, PointsTold
  <2> QED BY <1>1, <2>1, <2>2
<1>6. CASE \E u \in Requests : StartTask(u)
  <2>1. PICK u \in Requests : StartTask(u)
    BY <1>6
  <2>2. next' = next
    BY <2>1 DEF StartTask, StartInstall, RefuseInstall, StartUninstall, StartOther
  <2>3. /\ Queued' = Queued \ {u}
        /\ (RefuseInstall(u) /\ Active' = Active) \/ Active' = Active \union {u}
    BY <2>1, StartMoves
  <2> QED BY <1>1, <2>2, <2>3
<1>7. CASE \E u \in Requests : CommitTask(u)
  <2>1. PICK u \in Requests : CommitTask(u)
    BY <1>7
  <2>2. next \subseteq next'
    BY <2>1 DEF CommitTask, Rollback, FailInstall, CommitInstall, CommitUninstall,
                CommitFlags, CommitSync
  <2>3. Queued' = Queued /\ Active' = Active \ {u}
    BY <2>1, CommitMoves
  <2> QED BY <1>1, <2>1, <2>2, <2>3
<1>8. ~(next' = next /\ queues' = queues /\ active' = active)
  BY <1>1 DEF Queued, Active
<1>9. ~(Abort \/ (\E u \in Requests : JobsEnd(u)) \/ UNCHANGED vars)
  BY <1>8 DEF Abort, JobsEnd, vars, tasks
<1>10. ~(Committed \/ NextQueue \/ Recommitted \/ CommitRegistry \/ RegisterQueued)
  BY <1>8 DEF Committed, NextQueue, Recommitted, CommitRegistry, RegisterQueued
<1> QED BY <1>2, <1>3, <1>4, <1>5, <1>6, <1>7, <1>9, <1>10
         DEF Next, MainStep

(* An install that is through has an error in the report or did happen,      *)
(* unless the transaction is cancelled (install.cpp:45-57, 103-112,          *)
(* transaction.cpp:36-41).                                                   *)
THEOREM EveryFailureIsReported == Spec => FailuresAreReported
<1> DEFINE Told ==
      \A t \in Outstanding \ Outstanding' :
        t.kind = "install" /\ ~cancelled /\ ~Restart /\ pc' # "thrown" =>
          \/ t \in errors'
          \/ \E i \in Ids : /\ tables'.entries[i] # NoRow
                            /\ tables'.entries[i].release = t.release
<1>1. ASSUME TransactionInv, Next, NEW t \in Outstanding \ Outstanding',
             t.kind = "install", ~cancelled, ~Restart, pc' # "thrown"
      PROVE  \/ t \in errors'
             \/ \E i \in Ids : /\ tables'.entries[i] # NoRow
                               /\ tables'.entries[i].release = t.release
  <2> USE DEF registry, tasks
  <2>1. ~Teardown
    <3>1. pc = "over" => Outstanding = {}
      BY <1>1 DEF TransactionInv, PointsTold, Outstanding, SeqRange
    <3> QED BY <1>1, <3>1 DEF Teardown
  <2>2. CASE RefuseInstall(t)
    BY <2>2 DEF RefuseInstall
  <2>3. CASE CommitTask(t)
    <3>1. CASE Rollback(t)
      <4>1. t \in failed /\ failed \subseteq errors /\ errors' = errors
        BY <1>1, <3>1 DEF Rollback, RollsBack, TransactionInv, PointsTold
      <4> QED BY <4>1
    <3>2. CASE FailInstall(t)
      BY <3>2 DEF FailInstall
    <3>3. CASE CommitInstall(t)
      <4>1. t \in Requests /\ Conflicts(tables, t.release) = {}
        BY <1>1, <3>3, OutstandingIs DEF CommitInstall, TransactionInv, TypeOK, PlacedOnce
      <4>2. t.release \in Releases /\ FlagsOf(t) \in Flags /\ tables \in Tables /\ ConsistentTables(tables)
        BY <1>1, <4>1, RequestTold, FlagsOfType DEF TransactionInv, TypeOK, RegistriesHold
      <4>3. PICK i \in Ids : /\ IsPushId(tables, t.release.pkg, i)
                             /\ tables' = Pushed(tables, t.release, FlagsOf(t), i)
        BY <3>3, <4>1 DEF CommitInstall
      <4>4. WritesRow(tables, t.release, FlagsOf(t), i, tables')
        BY ONLY <4>1, <4>2, <4>3, PushedWrites
      <4> QED BY <4>4 DEF WritesRow
    <3>4. ~(CommitUninstall(t) \/ CommitFlags(t) \/ CommitSync(t))
      BY <1>1 DEF CommitUninstall, CommitFlags, CommitSync
    <3> QED BY <2>3, <3>1, <3>2, <3>3, <3>4 DEF CommitTask
  <2> QED BY <1>1, <2>1, <2>2, <2>3, ThroughBy
<1>2. TransactionInv /\ [Next]_vars => [Told]_vars
  BY <1>1
<1> QED BY <1>2, TransactionIsSound, PTL DEF Spec, FailuresAreReported

(* An install is refused only for a file that no task of its queue frees by  *)
(* uninstalling its owner, unless another install was faster (task.cpp:38).  *)
THEOREM RefusalsAreReal == Spec => ConflictsAreReal
<1>1. ASSUME TransactionInv, NEW t \in Requests, RefuseInstall(t),
             NEW p \in Conflicts(tables, t.release),
             NEW u \in Head(queues) \union SeqRange(active), u.kind = "uninstall"
      PROVE  ~OwnedBy(saved[1], p, entry[u].id) \/ TakenBy(SeqRange(active), p)
  <2>1. pc = "start" /\ t.kind = "install" /\ \A v \in Head(queues) : Priority(v) <= Priority(t)
    BY <1>1 DEF RefuseInstall, IsTop
  <2>2. u \notin Head(queues)
    BY <1>1, <2>1 DEF Priority
  <2>3. p \in Paths /\ tables.files[p] # NoFile
    BY <1>1, <2>1, RequestTold DEF Conflicts
  <2> QED BY <1>1, <2>1, <2>2, <2>3 DEF TransactionInv, FilesFreed, Active
<1> DEFINE Told ==
      \A t \in Requests : RefuseInstall(t) =>
        \A p \in Conflicts(tables, t.release) :
          \A u \in Head(queues) \union SeqRange(active) :
            u.kind = "uninstall" => \/ ~OwnedBy(saved[1], p, entry[u].id)
                                    \/ TakenBy(SeqRange(active), p)
<1>2. TransactionInv /\ [Next]_vars => [Told]_vars
  BY <1>1
<1> QED BY <1>2, TransactionIsSound, PTL DEF Spec, ConflictsAreReal

-----------------------------------------------------------------------------
(* What a push and a removal do to the files and to the other packages *)

(* A push writes the files of its release, takes away the others that the    *)
(* package had, and leaves the packages and files of others alone.           *)
LEMMA PushEffect ==
  ASSUME NEW t \in Tables, NEW r \in Releases, NEW f \in Flags, NEW i \in Ids,
         ConsistentTables(t), Conflicts(t, r) = {}, IsPushId(t, r.pkg, i),
         NEW u, u = Pushed(t, r, f, i), NEW id, id = GetEntry(t, r.pkg).id
  PROVE  /\ \A p \in r.files : Recorded(u, p) = r /\ (p \in Mains(u) <=> p \in r.mains)
         /\ \A p \in r.files \ r.mains : p \in Mains(t) => p \in Demoted
         /\ \A p \in Paths \ r.files :
              /\ id # 0 /\ OwnedBy(t, p, id) => Recorded(u, p) = NoRelease /\ p \notin Mains(u)
              /\ ~(id # 0 /\ OwnedBy(t, p, id)) =>
                   Recorded(u, p) = Recorded(t, p) /\ (p \in Mains(u) <=> p \in Mains(t))
         /\ \A j \in Ids : t.entries[j] # NoRow /\ t.entries[j].release.pkg # r.pkg => Alone(t, u, j)
<1>1. WritesRow(t, r, f, i, u) /\ WritesFiles(t, r, i, u)
  BY PushedWrites
<1>2. /\ r.pkg \in Packages /\ r.files \subseteq Paths /\ r.mains \subseteq r.files
      /\ u.entries[i].release = r
      /\ \A j \in Ids \ {i} : u.entries[j] = t.entries[j]
      /\ \A j \in Ids : Names(t, j, r.pkg) => j = i
  BY <1>1 DEF WritesRow
<1>3. /\ \A p \in r.files : /\ u.files[p] # NoFile
                            /\ u.files[p].entry = i
                            /\ u.files[p].main <=> p \in r.mains
      /\ \A p \in Paths \ r.files : /\ OwnedBy(t, p, i) => u.files[p] = NoFile
                                    /\ ~OwnedBy(t, p, i) => u.files[p] = t.files[p]
  BY <1>1 DEF WritesFiles
<1>4. /\ \A p \in Paths : t.files[p] # NoFile =>
           /\ t.files[p].entry \in Ids /\ t.entries[t.files[p].entry] # NoRow
           /\ t.files[p].main <=> p \in t.entries[t.files[p].entry].release.mains
      /\ \A j \in Ids : t.entries[j] # NoRow => t.entries[j].release \in Releases
  BY DEF ConsistentTables, FilesHaveEntry, MainFilesTold, Tables, FileRows, Rows
<1>5. t.entries[i] # NoRow => Names(t, i, r.pkg)
  BY DEF IsPushId
<1>6. \A p \in Paths : OwnedBy(t, p, i) <=> id # 0 /\ OwnedBy(t, p, id)
  <2>1. id \in Ids \union {0} /\ (id # 0 => Names(t, id, r.pkg)) /\ (id = 0 => ~HasEntry(t, r.pkg))
    BY <1>2, GetEntryCopy, CopyId
  <2>2. CASE id # 0
    BY <1>2, <2>1, <2>2
  <2>3. CASE id = 0
    BY <1>4, <1>5, <2>1, <2>3 DEF OwnedBy, HasEntry
  <2> QED BY <2>2, <2>3
<1>7. \A p \in r.files : Recorded(u, p) = r /\ (p \in Mains(u) <=> p \in r.mains)
  BY <1>2, <1>3 DEF Recorded, Mains
<1>8. \A p \in r.files \ r.mains : p \in Mains(t) => p \in Demoted
  <2> SUFFICES ASSUME NEW p \in r.files \ r.mains, p \in Mains(t) PROVE p \in Demoted
    OBVIOUS
  <2>1. p \in Paths /\ t.files[p] # NoFile /\ t.files[p].main
    BY DEF Mains
  <2>2. Names(t, t.files[p].entry, r.pkg)
    BY <2>1 DEF Conflicts
  <2>3. PICK s \in Releases : s = t.entries[t.files[p].entry].release
    BY <1>4, <2>1
  <2>4. p \in s.mains /\ s.pkg = r.pkg
    BY <1>4, <2>1, <2>2, <2>3 DEF Names
  <2> QED BY <2>1, <2>4 DEF Demoted
<1>9. ASSUME NEW p \in Paths \ r.files
      PROVE  /\ id # 0 /\ OwnedBy(t, p, id) => Recorded(u, p) = NoRelease /\ p \notin Mains(u)
             /\ ~(id # 0 /\ OwnedBy(t, p, id)) =>
                  Recorded(u, p) = Recorded(t, p) /\ (p \in Mains(u) <=> p \in Mains(t))
  <2>1. CASE OwnedBy(t, p, i)
    <3>1. u.files[p] = NoFile
      BY <1>3, <2>1
    <3> QED BY <1>6, <2>1, <3>1 DEF Recorded, Mains
  <2>2. CASE ~OwnedBy(t, p, i)
    <3>1. u.files[p] = t.files[p] /\ (t.files[p] # NoFile => t.files[p].entry \in Ids \ {i})
      BY <1>3, <1>4, <2>2 DEF OwnedBy
    <3>2. Recorded(u, p) = Recorded(t, p)
      BY <1>2, <3>1 DEF Recorded
    <3> QED BY <1>6, <2>2, <3>1, <3>2 DEF Mains
  <2> QED BY <2>1, <2>2
<1>10. ASSUME NEW j \in Ids, t.entries[j] # NoRow, t.entries[j].release.pkg # r.pkg
       PROVE  Alone(t, u, j)
  <2>1. j # i
    BY <1>5, <1>10 DEF Names
  <2>2. \A p \in Paths : /\ OwnedBy(u, p, j) <=> OwnedBy(t, p, j)
                         /\ OwnedBy(t, p, j) => u.files[p] = t.files[p]
    BY <1>1, <2>1, WrittenOwners
  <2> QED BY <1>2, <2>1, <2>2 DEF Alone
<1> QED BY <1>7, <1>8, <1>9, <1>10

(* A removal takes the files of the entry away and leaves the others alone.  *)
LEMMA ForgetEffect ==
  ASSUME NEW t \in Tables, NEW i \in Ids \union {0}, ConsistentTables(t),
         NEW u, u = Forgotten(t, i)
  PROVE  /\ \A p \in Paths :
              /\ i # 0 /\ OwnedBy(t, p, i) => Recorded(u, p) = NoRelease /\ p \notin Mains(u)
              /\ ~(i # 0 /\ OwnedBy(t, p, i)) =>
                   Recorded(u, p) = Recorded(t, p) /\ (p \in Mains(u) <=> p \in Mains(t))
         /\ \A j \in Ids : j # i => Alone(t, u, j)
<1>1. CASE i = 0
  BY <1>1 DEF Forgotten, Alone
<1>2. CASE i # 0
  <2>1. /\ \A j \in Ids \ {i} : u.entries[j] = t.entries[j]
        /\ \A p \in Paths : u.files[p] = IF OwnedBy(t, p, i) THEN NoFile ELSE t.files[p]
    BY <1>2 DEF Forgotten, WithoutFiles, Tables
  <2>2. \A p \in Paths : t.files[p] # NoFile => t.files[p].entry \in Ids
    BY DEF Tables, FileRows
  <2>3. \A p \in Paths :
          /\ OwnedBy(t, p, i) => Recorded(u, p) = NoRelease /\ p \notin Mains(u)
          /\ ~OwnedBy(t, p, i) =>
               Recorded(u, p) = Recorded(t, p) /\ (p \in Mains(u) <=> p \in Mains(t))
    BY <2>1, <2>2 DEF Recorded, Mains, OwnedBy
  <2>4. \A j \in Ids : j # i => Alone(t, u, j)
    BY <2>1 DEF Alone, OwnedBy
  <2> QED BY <1>2, <2>3, <2>4
<1> QED BY <1>1, <1>2

(* Flags change neither files nor releases.                                  *)
LEMMA FlagsEffect ==
  ASSUME NEW t \in Tables, NEW i \in Ids \union {0}, NEW f \in Flags, ConsistentTables(t),
         NEW u, u = FlagsSet(t, i, f)
  PROVE  /\ u.files = t.files
         /\ Mains(u) = Mains(t)
         /\ \A p \in Paths : Recorded(u, p) = Recorded(t, p)
<1>1. /\ u.files = t.files
      /\ \A j \in Ids : u.entries[j].release = t.entries[j].release
  BY FlagsSetSameReleases
<1>2. \A p \in Paths : t.files[p] # NoFile => t.files[p].entry \in Ids
  BY DEF Tables, FileRows
<1> QED BY <1>1, <1>2 DEF Mains, Recorded

(* Only commits and restarts change what the registry shows.                 *)
LEMMA VisibleKept ==
  ASSUME TransactionInv, [Next]_vars, ~(\E t \in Requests : CommitTask(t)), ~Restart
  PROVE  Visible' = Visible
<1> USE DEF TransactionInv, RegistriesHold, registry
<1>1. CASE \E t \in Requests : StartTask(t)
  <2>1. PICK t \in Requests : StartTask(t)
    BY <1>1
  <2>2. pc = "start" /\ saved' = saved
    BY <2>1, StartMoves DEF StartTask, StartInstall, RefuseInstall, StartUninstall, StartOther
  <2>3. PICK s \in Tables : saved = <<s>>
    BY <2>2
  <2> QED BY <2>2, <2>3 DEF Visible
<1>2. CASE NextQueue
  BY <1>2 DEF NextQueue, Visible
<1>3. CASE EndQueue
  BY <1>3 DEF EndQueue, Visible
<1>4. CASE Teardown
  BY <1>4 DEF Teardown, NewTransaction, Visible, PointsTold
<1>5. ASSUME tables' = tables, saved' = saved PROVE Visible' = Visible
  BY <1>5 DEF Visible
<1>6. CASE Apply \/ Abort \/ (\E t \in Requests : JobsEnd(t))
  BY <1>5, <1>6 DEF Apply, Abort, JobsEnd
<1>7. CASE EnterQueue \/ Committed \/ PromptObsolete \/ Recommitted \/ CommitRegistry
  BY <1>5, <1>7 DEF EnterQueue, Committed, PromptObsolete, Recommitted, CommitRegistry
<1>8. CASE RegisterQueued \/ UNCHANGED vars
  BY <1>5, <1>8 DEF RegisterQueued, vars
<1> QED BY <1>1, <1>2, <1>3, <1>4, <1>6, <1>7, <1>8 DEF Next, MainStep

(* A running task stays as it was queued and started.                        *)
LEMMA ActiveKept ==
  ASSUME TransactionInv, [Next]_vars, NEW t \in Active
  PROVE  \/ NewTransaction
         \/ entry'[t] = entry[t] /\ old'[t] = old[t]
<1> USE DEF TransactionInv, tasks
<1>1. t \in Requests /\ t \in asked /\ t \in made
  <2>1. t \in Outstanding
    BY OutstandingIs
  <2> QED BY <2>1 DEF TypeOK, PlacedOnce
<1>2. CASE Apply
  <2>1. PICK S \in SUBSET (Requests \ made), view \in {tables, durable} :
          entry' = [u \in Requests |-> IF u \in S THEN EntryFor(u, view) ELSE entry[u]]
    BY <1>2 DEF Apply, Enqueue
  <2> QED BY <1>1, <1>2, <2>1 DEF Apply
<1>3. CASE PromptObsolete
  <2>1. PICK S \in SUBSET (Requests \ made) : \A u \in Requests \ S : entry'[u] = entry[u]
    BY <1>3, JoinsQueues
  <2> QED BY <1>1, <1>3, <2>1 DEF PromptObsolete
<1>4. CASE \E u \in Requests : StartTask(u)
  <2>1. PICK u \in Requests : StartTask(u)
    BY <1>4
  <2>2. u # t
    BY <2>1, StartMoves
  <2>3. entry' = entry /\ (old' = old \/ \E x : old' = [old EXCEPT ![u] = x])
    BY <2>1 DEF StartTask, StartInstall, RefuseInstall, StartUninstall, StartOther
  <2> QED BY <1>1, <2>2, <2>3 DEF TypeOK
<1>5. CASE \E u \in Requests : CommitSync(u)
  <2>1. PICK u \in Requests : CommitSync(u)
    BY <1>5
  <2>2. t \notin InstallsOf(u)
    BY <1>1 DEF InstallsOf
  <2> QED BY <1>1, <2>1, <2>2 DEF CommitSync
<1>6. CASE \E u \in Requests : Rollback(u) \/ FailInstall(u) \/ CommitInstall(u)
                                \/ CommitUninstall(u) \/ CommitFlags(u)
  BY <1>6 DEF Rollback, FailInstall, CommitInstall, CommitUninstall, CommitFlags
<1>7. CASE Abort \/ (\E u \in Requests : JobsEnd(u)) \/ UNCHANGED vars
  BY <1>7 DEF Abort, JobsEnd, vars
<1>8. CASE EnterQueue \/ Committed \/ NextQueue \/ EndQueue \/ Recommitted
           \/ CommitRegistry \/ RegisterQueued
  BY <1>8 DEF EnterQueue, Committed, NextQueue, EndQueue, Recommitted, CommitRegistry,
              RegisterQueued
<1> QED BY <1>2, <1>3, <1>4, <1>5, <1>6, <1>7, <1>8
         DEF Next, MainStep, CommitTask, Teardown, Restart

(* Tasks that were started or are to be, undisturbed.                        *)
LEMMA UndisturbedTold ==
  ASSUME TransactionInv, Undisturbed, NEW t \in Queued \union Active, Changes(t)
  PROVE  /\ t \in Requests /\ PackageOf(t) \in Packages
         /\ entry[t].id = GetEntry(Visible, PackageOf(t)).id
         /\ entry[t].id \in Ids \union {0}
         /\ entry[t].id # 0 => Names(Visible, entry[t].id, PackageOf(t))
         /\ \A u \in Active : Changes(u) /\ PackageOf(u) = PackageOf(t) => t = u
<1>1. t \in Outstanding /\ Active \subseteq Outstanding
  BY OutstandingIs
<1>2. t \in Requests
  BY <1>1 DEF TransactionInv, PlacedOnce, TypeOK
<1>3. PackageOf(t) \in Packages
  BY <1>2, RequestTold DEF PackageOf, Changes
<1>4. entry[t].id = GetEntry(Visible, PackageOf(t)).id
  BY <1>1 DEF Undisturbed
<1>5. Visible \in Tables
  BY DEF TransactionInv, TypeOK, RegistriesHold, Visible
<1> QED BY <1>1, <1>2, <1>3, <1>4, <1>5, GetEntryCopy, CopyId DEF Undisturbed

(* Files of an entry that was left alone.                                    *)
LEMMA AloneFiles ==
  ASSUME NEW t \in Requests, NEW a, NEW b, entry[t].id # 0 => Alone(a, b, entry[t].id)
  PROVE  FilesOf(t, a) = FilesOf(t, b)
<1>1. GetFiles(a, entry[t]) = GetFiles(b, entry[t])
  BY DEF GetFiles, Alone
<1>2. GetMainFiles(a, entry[t]) = GetMainFiles(b, entry[t])
  BY <1>1 DEF GetMainFiles, GetFiles, Alone
<1> QED BY <1>1, <1>2 DEF FilesOf

(* While a queue is started, packages that no started task changes keep      *)
(* their rows and files.                                                     *)
LEMMA OthersStayKept ==
  ASSUME TransactionInv, Undisturbed, OthersKept, [Next]_vars
  PROVE  OthersKept'
<1> USE DEF TransactionInv, registry, queue, tasks
<1>1. CASE \E t \in Requests : StartTask(t)
  <2>1. PICK t \in Requests : StartTask(t)
    BY <1>1
  <2>2. /\ pc = "start" /\ pc' = "start" /\ t \in Queued
        /\ \/ Active' = Active /\ RefuseInstall(t)
           \/ Active' = Active \union {t}
    BY <2>1, StartMoves
  <2>3. saved' = saved
    BY <2>1 DEF StartTask, StartInstall, RefuseInstall, StartUninstall, StartOther
  <2>4. PICK s \in Tables : saved = <<s>> /\ saved[1] = s /\ Visible = s
    BY <2>2 DEF RegistriesHold, Visible
  <2>5. SUFFICES ASSUME NEW j \in Ids, s.entries[j] # NoRow,
                        s.entries[j].release.pkg \notin ChangedPackages'
                 PROVE  Alone(s, tables', j)
    BY <2>3, <2>4 DEF OthersKept
  <2>6. /\ s.entries[j].release.pkg \notin ChangedPackages
        /\ Changes(t) /\ ~RefuseInstall(t) => s.entries[j].release.pkg # PackageOf(t)
    BY <2>2, <2>5 DEF ChangedPackages
  <2>7. Alone(s, tables, j)
    BY <2>2, <2>4, <2>5, <2>6 DEF OthersKept
  <2>8. Alone(tables, tables', j) => Alone(s, tables', j)
    BY <2>7 DEF Alone
  <2>9. tables \in Tables /\ ConsistentTables(tables)
    BY DEF TypeOK, RegistriesHold
  <2>10. CASE StartInstall(t)
    <3>1. t.kind = "install" /\ t.release \in Releases /\ FlagsOf(t) \in Flags
      BY <2>10, RequestTold, FlagsOfType DEF StartInstall, TypeOK
    <3>2. PICK i \in Ids : /\ IsPushId(tables, t.release.pkg, i)
                           /\ tables' = Pushed(tables, t.release, FlagsOf(t), i)
      BY <2>10 DEF StartInstall
    <3>3. /\ tables.entries[j] # NoRow /\ tables.entries[j].release.pkg # t.release.pkg
          /\ Conflicts(tables, t.release) = {}
      BY <2>5, <2>6, <2>7, <2>10, <3>1 DEF Alone, Changes, PackageOf, StartInstall, RefuseInstall
    <3>4. PICK id : id = GetEntry(tables, t.release.pkg).id
      OBVIOUS
    <3>5. Alone(tables, tables', j)
      BY ONLY <2>9, <3>1, <3>2, <3>3, <3>4, PushEffect, j \in Ids
    <3> QED BY <2>8, <3>5
  <2>11. CASE StartUninstall(t)
    <3>1. Changes(t) /\ t.kind = "uninstall" /\ PackageOf(t) = t.pkg /\ ~RefuseInstall(t)
      BY <2>11 DEF Changes, PackageOf, StartUninstall, RefuseInstall
    <3>2. entry[t].id \in Ids \union {0} /\ (entry[t].id # 0 => Names(s, entry[t].id, t.pkg))
      BY <2>2, <2>4, <3>1, UndisturbedTold
    <3>3. j # entry[t].id
      BY <2>6, <3>1, <3>2, RegistryAssumption DEF Names, Ids
    <3>4. tables' = Forgotten(tables, entry[t].id)
      BY <2>11 DEF StartUninstall
    <3>5. Alone(tables, tables', j)
      BY ONLY <2>9, <3>2, <3>3, <3>4, ForgetEffect, j \in Ids
    <3> QED BY <2>8, <3>5
  <2>12. CASE RefuseInstall(t) \/ StartOther(t)
    BY <2>7, <2>12 DEF RefuseInstall, StartOther
  <2> QED BY <2>1, <2>10, <2>11, <2>12 DEF StartTask
<1>2. CASE NextQueue
  <2>1. pc' = "start" => saved' = <<tables>> /\ tables' = tables
    BY <1>2 DEF NextQueue
  <2> QED BY <2>1 DEF OthersKept, Alone
<1>3. CASE UNCHANGED vars
  <2>1. Active' = Active
    BY <1>3 DEF vars, Active
  <2> QED BY <1>3, <2>1 DEF OthersKept, vars, ChangedPackages
<1>4. CASE \E t \in Requests : CommitTask(t)
  BY <1>4, CommitMoves DEF OthersKept
<1>5. CASE EndQueue \/ RegisterQueued
  BY <1>5 DEF EndQueue, RegisterQueued, OthersKept
<1>6. CASE Apply \/ Abort \/ (\E t \in Requests : JobsEnd(t))
  BY <1>6 DEF Apply, Abort, JobsEnd, WhenIdle, OthersKept
<1>7. CASE NewTransaction \/ EnterQueue \/ Committed \/ PromptObsolete \/ Recommitted \/ CommitRegistry
  BY <1>7 DEF NewTransaction, EnterQueue, Committed, PromptObsolete, Recommitted,
              CommitRegistry, OthersKept
<1> QED BY <1>1, <1>2, <1>3, <1>4, <1>5, <1>6, <1>7
         DEF Next, MainStep, Teardown, Restart

(* A commit leaves the packages of the other running tasks alone.            *)
LEMMA CommitsAlone ==
  ASSUME TransactionInv, Undisturbed, NEW t \in Requests, CommitTask(t),
         NEW u \in Active \ {t}, Changes(u), entry[u].id # 0
  PROVE  Alone(tables, tables', entry[u].id) \/ tables'.files = tables.files
<1> USE DEF TransactionInv, registry
<1>1. t \in Active /\ pc # "start"
  BY CommitMoves
<1>2. Visible = tables /\ tables \in Tables /\ ConsistentTables(tables)
  BY <1>1 DEF RegistriesHold, Visible, TypeOK
<1>3. PICK j \in Ids : j = entry[u].id /\ Names(tables, j, PackageOf(u))
  BY <1>2, UndisturbedTold
<1>4. Changes(t) => PackageOf(t) # PackageOf(u)
  BY <1>1, UndisturbedTold
<1>5. tables.entries[j] # NoRow /\ tables.entries[j].release.pkg = PackageOf(u)
  BY <1>3 DEF Names
<1>6. CASE CommitInstall(t)
  <2>1. /\ t.kind = "install" /\ t.release \in Releases /\ FlagsOf(t) \in Flags
        /\ tables.entries[j].release.pkg # t.release.pkg
    BY <1>4, <1>5, <1>6, RequestTold, FlagsOfType DEF CommitInstall, TypeOK, Changes, PackageOf
  <2>2. CASE Conflicts(tables, t.release) = {}
    <3>1. PICK i \in Ids : /\ IsPushId(tables, t.release.pkg, i)
                           /\ tables' = Pushed(tables, t.release, FlagsOf(t), i)
      BY <1>6, <2>2 DEF CommitInstall
    <3>2. PICK id : id = GetEntry(tables, t.release.pkg).id
      OBVIOUS
    <3>3. Alone(tables, tables', j)
      BY ONLY <1>2, <1>5, <2>1, <2>2, <3>1, <3>2, PushEffect, j \in Ids
    <3> QED BY <1>3, <3>3
  <2>3. CASE Conflicts(tables, t.release) # {}
    BY <1>6, <2>3 DEF CommitInstall
  <2> QED BY <2>2, <2>3
<1>7. CASE CommitUninstall(t)
  <2>1. t.kind = "uninstall" /\ Changes(t) /\ PackageOf(t) = t.pkg
    BY <1>7 DEF CommitUninstall, Changes, PackageOf
  <2>2. entry[t].id \in Ids \union {0} /\ (entry[t].id # 0 => Names(tables, entry[t].id, t.pkg))
    BY <1>1, <1>2, <2>1, UndisturbedTold
  <2>3. j # entry[t].id
    BY <1>3, <1>4, <2>1, <2>2, RegistryAssumption DEF Names, Ids
  <2>4. tables' = Forgotten(tables, entry[t].id)
    BY <1>7 DEF CommitUninstall
  <2>5. Alone(tables, tables', j)
    BY ONLY <1>2, <2>2, <2>3, <2>4, ForgetEffect, j \in Ids
  <2> QED BY <1>3, <2>5
<1>8. CASE CommitFlags(t)
  <2>1. entry[t].id \in Ids \union {0} /\ t.flags \in Flags
    BY <1>8, CopyId, RequestTold DEF TypeOK, CommitFlags
  <2> QED BY <1>2, <1>8, <2>1, FlagsEffect DEF CommitFlags
<1>9. CASE Rollback(t) \/ FailInstall(t) \/ CommitSync(t)
  BY <1>9 DEF Rollback, FailInstall, CommitSync
<1> QED BY <1>6, <1>7, <1>8, <1>9 DEF CommitTask

(* Every running task knows the files of its package, of before its queue.   *)
LEMMA OldStaysTold ==
  ASSUME TransactionInv, TransactionInv', Undisturbed, OthersKept, OldTold, [Next]_vars
  PROVE  OldTold'
<1> USE DEF TransactionInv, registry, queue, tasks
<1>1. ASSUME NEW t \in Active, ~NewTransaction,
             Changes(t) => FilesOf(t, Visible') = FilesOf(t, Visible)
      PROVE  OldFilesTold(t)'
  <2>1. entry'[t] = entry[t] /\ old'[t] = old[t]
    BY <1>1, ActiveKept
  <2>2. FilesOf(t, Visible)' = FilesOf(t, Visible')
    BY <2>1 DEF FilesOf
  <2>3. Changes(t) => FilesOf(t, Visible)' = FilesOf(t, Visible)
    BY <1>1, <2>2
  <2>4. OldFilesTold(t)
    BY DEF OldTold
  <2>5. CASE t.kind = "install"
    <3>1. FilesOf(t, Visible)' = FilesOf(t, Visible)
      BY <2>3, <2>5 DEF Changes
    <3> QED BY <2>1, <2>4, <2>5, <3>1 DEF OldFilesTold
  <2>6. CASE t.kind = "uninstall"
    <3>1. FilesOf(t, Visible)' = FilesOf(t, Visible)
      BY <2>3, <2>6 DEF Changes
    <3> QED BY <2>1, <2>4, <2>6, <3>1 DEF OldFilesTold
  <2>7. CASE t.kind \notin {"install", "uninstall"}
    BY <2>7 DEF OldFilesTold
  <2> QED BY <2>5, <2>6, <2>7
<1>2. CASE NewTransaction
  <2>1. Active' = {}
    BY <1>2 DEF NewTransaction, Active, SeqRange
  <2> QED BY <2>1 DEF OldTold
<1>3. CASE ~NewTransaction /\ \E t \in Requests : CommitTask(t)
  <2>1. PICK t \in Requests : CommitTask(t)
    BY <1>3
  <2>2. /\ pc # "start" /\ pc' # "start" /\ Active' = Active \ {t}
    BY <2>1, CommitMoves
  <2>3. Visible = tables /\ Visible' = tables'
    BY <2>2 DEF RegistriesHold, Visible
  <2>4. SUFFICES ASSUME NEW u \in Active \ {t}, Changes(u)
                 PROVE  FilesOf(u, tables') = FilesOf(u, tables)
    BY <1>1, <1>3, <2>2, <2>3 DEF OldTold
  <2>5. u \in Requests
    BY <2>4, UndisturbedTold
  <2>6. CASE entry[u].id # 0 /\ tables'.files = tables.files
    BY <2>6 DEF FilesOf, GetFiles, GetMainFiles, OwnedBy
  <2>7. CASE entry[u].id # 0 => Alone(tables, tables', entry[u].id)
    BY <2>5, <2>7, AloneFiles
  <2> QED BY <2>1, <2>4, <2>6, <2>7, CommitsAlone
<1>4. CASE ~NewTransaction /\ \E t \in Requests : StartTask(t)
  <2>1. PICK t \in Requests : StartTask(t)
    BY <1>4
  <2>2. /\ pc = "start" /\ t \in Queued /\ t \notin Active
        /\ Active' = Active \/ Active' = Active \union {t}
    BY <2>1, StartMoves
  <2>3. saved' = saved /\ entry' = entry
    BY <2>1 DEF StartTask, StartInstall, RefuseInstall, StartUninstall, StartOther
  <2>4. PICK s \in Tables : saved = <<s>> /\ saved[1] = s /\ Visible = s /\ Visible' = s
    BY <2>2, <2>3 DEF RegistriesHold, Visible
  <2>5. \A u \in Active : OldFilesTold(u)'
    BY <1>1, <1>4, <2>4
  <2>6. Changes(t) => FilesOf(t, tables) = FilesOf(t, s)
    <3> SUFFICES ASSUME Changes(t) PROVE FilesOf(t, tables) = FilesOf(t, s)
      OBVIOUS
    <3>1. /\ entry[t].id \in Ids \union {0}
          /\ entry[t].id # 0 => Names(s, entry[t].id, PackageOf(t))
          /\ \A u \in Active : Changes(u) /\ PackageOf(u) = PackageOf(t) => t = u
      BY <2>2, <2>4, UndisturbedTold
    <3>2. PackageOf(t) \notin ChangedPackages
      BY <2>2, <3>1 DEF ChangedPackages
    <3>3. entry[t].id # 0 => Alone(s, tables, entry[t].id)
      BY <2>2, <2>4, <3>1, <3>2 DEF OthersKept, Names
    <3>4. FilesOf(t, s) = FilesOf(t, tables)
      BY <3>3, AloneFiles
    <3> QED BY <3>4
  <2>7. FilesOf(t, Visible)' = FilesOf(t, s)
    BY <2>3, <2>4 DEF FilesOf
  <2>8. t \in Active' => OldFilesTold(t)'
    <3>1. CASE StartInstall(t)
      <4>1. old'[t] = OldFiles(t) /\ t.kind = "install"
        BY <3>1 DEF StartInstall, TypeOK
      <4> QED BY <2>6, <2>7, <4>1 DEF OldFilesTold, OldFiles, Changes
    <3>2. CASE StartUninstall(t)
      <4>1. old'[t] = FilesOf(t, tables) /\ t.kind = "uninstall"
        BY <3>2 DEF StartUninstall, TypeOK
      <4> QED BY <2>6, <2>7, <4>1 DEF OldFilesTold, Changes
    <3>3. CASE RefuseInstall(t)
      BY <2>2, <3>3 DEF RefuseInstall, Active
    <3>4. CASE StartOther(t)
      BY <3>4 DEF StartOther, OldFilesTold
    <3> QED BY <2>1, <3>1, <3>2, <3>3, <3>4 DEF StartTask
  <2> QED BY <2>2, <2>5, <2>8 DEF OldTold
<1>5. CASE /\ ~NewTransaction /\ ~(\E t \in Requests : CommitTask(t))
           /\ ~(\E t \in Requests : StartTask(t))
  <2>1. Visible' = Visible
    BY <1>5, VisibleKept DEF Restart
  <2>2. Active' = Active
    <3>1. active' = active
      BY <1>5 DEF Next, MainStep, Apply, Abort, JobsEnd, EnterQueue, Committed, PromptObsolete,
         NextQueue, EndQueue, Recommitted, CommitRegistry, RegisterQueued, Teardown, Restart, vars
    <3> QED BY <3>1 DEF Active
  <2> QED BY <1>1, <1>5, <2>1, <2>2 DEF OldTold
<1> QED BY <1>2, <1>3, <1>4, <1>5

(* What a commit of a task writes and takes away.                            *)
LEMMA CommitsInstall ==
  ASSUME TransactionInv, Undisturbed, OldTold, NEW t \in Requests, CommitInstall(t),
         Conflicts(tables, t.release) = {}
  PROVE  /\ t.release.files \subseteq Paths /\ Visible = tables /\ Visible' = tables'
         /\ old[t].files \cap t.release.files = {} /\ old[t].mains \cap t.release.files = {}
         /\ \A p \in t.release.files :
              /\ Recorded(tables', p) = t.release
              /\ p \in Mains(tables') <=> p \in t.release.mains
         /\ \A p \in t.release.files \ t.release.mains : p \in Mains(tables) => p \in Demoted
         /\ \A p \in old[t].files : Recorded(tables', p) = NoRelease
         /\ \A p \in Paths \ (old[t].files \union t.release.files) :
              Recorded(tables', p) = Recorded(tables, p)
         /\ \A p \in old[t].mains : p \notin Mains(tables')
         /\ \A p \in Paths \ (old[t].mains \union t.release.files) :
              p \in Mains(tables') <=> p \in Mains(tables)
<1> USE DEF TransactionInv, registry
<1>1. pc # "start" /\ pc' # "start" /\ t \in Active /\ Changes(t) /\ PackageOf(t) = t.release.pkg
  BY CommitMoves DEF CommitTask, CommitInstall, Changes, PackageOf
<1>2. /\ Visible = tables /\ Visible' = tables'
      /\ tables \in Tables /\ ConsistentTables(tables)
  BY <1>1 DEF RegistriesHold, Visible, TypeOK, CommitInstall
<1>3. /\ t.kind = "install" /\ t.release \in Releases /\ FlagsOf(t) \in Flags
      /\ t.release.files \subseteq Paths
  BY RequestTold, FlagsOfType DEF CommitInstall, TypeOK
<1>4. PICK i \in Ids : /\ IsPushId(tables, t.release.pkg, i)
                       /\ tables' = Pushed(tables, t.release, FlagsOf(t), i)
  BY DEF CommitInstall
<1>5. PICK id : id = GetEntry(tables, t.release.pkg).id /\ id = entry[t].id
  BY <1>1, <1>2, UndisturbedTold
<1>6. /\ \A p \in t.release.files : /\ Recorded(tables', p) = t.release
                                    /\ p \in Mains(tables') <=> p \in t.release.mains
      /\ \A p \in t.release.files \ t.release.mains : p \in Mains(tables) => p \in Demoted
      /\ \A p \in Paths \ t.release.files :
           /\ id # 0 /\ OwnedBy(tables, p, id) =>
                Recorded(tables', p) = NoRelease /\ p \notin Mains(tables')
           /\ ~(id # 0 /\ OwnedBy(tables, p, id)) =>
                /\ Recorded(tables', p) = Recorded(tables, p)
                /\ p \in Mains(tables') <=> p \in Mains(tables)
  <2>1. Conflicts(tables, t.release) = {}
    OBVIOUS
  <2>2. PICK r, f, u : r = t.release /\ f = FlagsOf(t) /\ u = tables'
    OBVIOUS
  <2>3. /\ r \in Releases /\ f \in Flags /\ Conflicts(tables, r) = {}
        /\ IsPushId(tables, r.pkg, i) /\ u = Pushed(tables, r, f, i)
        /\ id = GetEntry(tables, r.pkg).id
    BY <1>3, <1>4, <1>5, <2>1, <2>2
  <2>4. /\ \A p \in r.files : Recorded(u, p) = r /\ (p \in Mains(u) <=> p \in r.mains)
        /\ \A p \in r.files \ r.mains : p \in Mains(tables) => p \in Demoted
        /\ \A p \in Paths \ r.files :
             /\ id # 0 /\ OwnedBy(tables, p, id) => Recorded(u, p) = NoRelease /\ p \notin Mains(u)
             /\ ~(id # 0 /\ OwnedBy(tables, p, id)) =>
                  /\ Recorded(u, p) = Recorded(tables, p)
                  /\ p \in Mains(u) <=> p \in Mains(tables)
    BY ONLY <1>2, <2>3, PushEffect, i \in Ids
  <2> QED BY ONLY <2>2, <2>4
<1>7. /\ old[t].files = FilesOf(t, tables).files \ t.release.files
      /\ old[t].mains = FilesOf(t, tables).mains \ t.release.files
  <2>1. OldFilesTold(t)
    BY <1>1 DEF OldTold
  <2>2. old[t] = [files |-> FilesOf(t, tables).files \ t.release.files,
                  mains |-> FilesOf(t, tables).mains \ t.release.files]
    BY ONLY <1>2, <1>3, <2>1 DEF OldFilesTold
  <2> QED BY ONLY <2>2
<1>8. /\ FilesOf(t, tables).files = {p \in Paths : id # 0 /\ OwnedBy(tables, p, id)}
      /\ FilesOf(t, tables).mains = {p \in Paths : id # 0 /\ OwnedBy(tables, p, id) /\ p \in Mains(tables)}
  BY <1>5 DEF FilesOf, GetFiles, GetMainFiles, OwnedBy, Mains
<1>9. ASSUME NEW p \in Paths \ (old[t].mains \union t.release.files)
      PROVE  p \in Mains(tables') <=> p \in Mains(tables)
  BY <1>6, <1>7, <1>8
<1> QED BY <1>2, <1>3, <1>6, <1>7, <1>8, <1>9

LEMMA CommitsUninstall ==
  ASSUME TransactionInv, OldTold, NEW t \in Requests, CommitUninstall(t)
  PROVE  /\ Visible = tables /\ Visible' = tables'
         /\ \A p \in old[t].files : Recorded(tables', p) = NoRelease
         /\ \A p \in Paths \ old[t].files : Recorded(tables', p) = Recorded(tables, p)
         /\ \A p \in old[t].mains : p \notin Mains(tables')
         /\ \A p \in Paths \ old[t].mains : p \in Mains(tables') <=> p \in Mains(tables)
<1> USE DEF TransactionInv, registry
<1>1. pc # "start" /\ pc' # "start" /\ t \in Active
  BY CommitMoves DEF CommitTask, CommitUninstall
<1>2. /\ Visible = tables /\ Visible' = tables'
      /\ tables \in Tables /\ ConsistentTables(tables)
  BY <1>1 DEF RegistriesHold, Visible, TypeOK, CommitUninstall
<1>3. PICK id \in Ids \union {0} : id = entry[t].id
  BY CopyId DEF TypeOK
<1>4. tables' = Forgotten(tables, id)
  BY <1>3 DEF CommitUninstall
<1>5. \A p \in Paths :
        /\ id # 0 /\ OwnedBy(tables, p, id) =>
             Recorded(tables', p) = NoRelease /\ p \notin Mains(tables')
        /\ ~(id # 0 /\ OwnedBy(tables, p, id)) =>
             /\ Recorded(tables', p) = Recorded(tables, p)
             /\ p \in Mains(tables') <=> p \in Mains(tables)
  BY <1>2, <1>4, ForgetEffect
<1>6. old[t] = FilesOf(t, tables)
  BY <1>1, <1>2 DEF OldTold, OldFilesTold, CommitUninstall
<1>7. /\ old[t].files = {p \in Paths : id # 0 /\ OwnedBy(tables, p, id)}
      /\ old[t].mains = {p \in Paths : id # 0 /\ OwnedBy(tables, p, id) /\ p \in Mains(tables)}
  BY <1>3, <1>6 DEF FilesOf, GetFiles, GetMainFiles, OwnedBy, Mains
<1> QED BY <1>2, <1>5, <1>7

(* The files on disk stay those of the registry.                             *)
LEMMA DiskStaysTold ==
  ASSUME TransactionInv, TransactionInv', Undisturbed, OldTold, DiskTold, [Next]_vars
  PROVE  DiskTold'
<1> USE DEF TransactionInv, registry, outside, queue, tasks, history
<1>1. ASSUME NEW t \in Requests, CommitTask(t) PROVE DiskTold'
  <2>1. pc # "start" /\ pc' # "start" /\ pc # "thrown" /\ durable' = durable
    BY <1>1, CommitMoves DEF CommitTask, Rollback, FailInstall, CommitInstall, CommitUninstall,
                             CommitFlags, CommitSync
  <2>2. Visible = tables /\ Visible' = tables' /\ tables \in Tables /\ ConsistentTables(tables)
    BY <2>1 DEF RegistriesHold, Visible, TypeOK
  <2>3. CASE FailInstall(t)
    <3>1. PICK bad \in t.release.files, gone \in BOOLEAN, done \in SUBSET t.release.files :
            /\ disk' = IF gone THEN Removed(Written(done, t.release), {bad})
                               ELSE Written(done, t.release)
            /\ dirty' = dirty \union done \union {bad}
            /\ suspect' = suspect \union done \union {bad}
      BY <2>3 DEF FailInstall
    <3>2. \A p \in Paths \ suspect' : disk'[p] = disk[p]
      BY <3>1 DEF Removed, Written
    <3>3. suspect \subseteq suspect' /\ dirty \subseteq dirty' /\ tables' = tables
      BY <2>3, <3>1 DEF FailInstall
    <3> QED BY <2>1, <2>2, <3>2, <3>3 DEF DiskTold
  <2>4. CASE CommitInstall(t)
    <3>1. PICK kept \in Undeletable(old[t].files) :
            /\ disk' = Removed(Written(t.release.files, t.release), old[t].files \ kept)
            /\ suspect' = (suspect \ t.release.files) \union kept
      BY <2>4 DEF CommitInstall
    <3>2. dirty' = dirty \union t.release.files \union old[t].files /\ kept \subseteq old[t].files
      BY <2>4, <3>1 DEF CommitInstall, Undeletable
    <3>3. \A p \in Paths \ (suspect' \union dirty') :
            disk'[p] = disk[p] /\ p \notin suspect \union dirty
      BY <3>1, <3>2 DEF Removed, Written
    <3>4. pc' # "thrown" => \A p \in Paths \ suspect' : disk'[p] = Recorded(tables', p)
      <4> SUFFICES ASSUME pc' # "thrown", NEW p \in Paths \ suspect'
                   PROVE  disk'[p] = Recorded(tables', p)
        OBVIOUS
      <4>1. Conflicts(tables, t.release) = {}
        BY <2>4 DEF CommitInstall
      <4>2. /\ old[t].files \cap t.release.files = {}
            /\ p \in t.release.files => Recorded(tables', p) = t.release
            /\ p \in old[t].files => Recorded(tables', p) = NoRelease
            /\ p \notin old[t].files \union t.release.files =>
                 Recorded(tables', p) = Recorded(tables, p)
        BY <2>4, <4>1, CommitsInstall
      <4>3. p \in t.release.files => disk'[p] = t.release
        BY <3>1, <4>2 DEF Removed, Written
      <4>4. p \in old[t].files => disk'[p] = NoRelease
        BY <3>1 DEF Removed
      <4>5. p \notin old[t].files \union t.release.files => disk'[p] = disk[p] /\ p \notin suspect
        BY <3>1 DEF Removed, Written
      <4> QED BY <2>1, <2>2, <4>2, <4>3, <4>4, <4>5 DEF DiskTold
    <3> QED BY <2>1, <2>2, <3>3, <3>4 DEF DiskTold
  <2>5. CASE CommitUninstall(t)
    <3>1. PICK kept \in Undeletable(old[t].files) :
            /\ disk' = Removed(disk, old[t].files \ kept)
            /\ suspect' = (suspect \ old[t].files) \union kept
      BY <2>5 DEF CommitUninstall
    <3>2. dirty' = dirty \union old[t].files /\ kept \subseteq old[t].files
      BY <2>5, <3>1 DEF CommitUninstall, Undeletable
    <3>3. \A p \in Paths \ (suspect' \union dirty') :
            disk'[p] = disk[p] /\ p \notin suspect \union dirty
      BY <3>1, <3>2 DEF Removed
    <3>4. \A p \in Paths \ suspect' :
            /\ p \in old[t].files => disk'[p] = NoRelease /\ Recorded(tables', p) = NoRelease
            /\ p \notin old[t].files =>
                 /\ disk'[p] = disk[p] /\ p \notin suspect
                 /\ Recorded(tables', p) = Recorded(tables, p)
      BY <2>5, <3>1, CommitsUninstall DEF Removed
    <3> QED BY <2>1, <2>2, <3>3, <3>4 DEF DiskTold
  <2>6. CASE CommitFlags(t)
    <3>1. entry[t].id \in Ids \union {0} /\ t.flags \in Flags
      BY <2>6, CopyId, RequestTold DEF TypeOK, CommitFlags
    <3>2. \A p \in Paths : Recorded(tables', p) = Recorded(tables, p)
      BY <2>2, <2>6, <3>1, FlagsEffect DEF CommitFlags
    <3> QED BY <2>1, <2>2, <2>6, <3>2 DEF DiskTold, CommitFlags
  <2>7. CASE Rollback(t) \/ CommitSync(t)
    BY <2>1, <2>2, <2>7 DEF Rollback, CommitSync, DiskTold
  <2> QED BY <1>1, <2>3, <2>4, <2>5, <2>6, <2>7 DEF CommitTask
<1>2. CASE Restart
  <2>1. /\ Visible' = durable /\ durable' = durable /\ disk' = disk
        /\ dirty' = {} /\ suspect' = suspect \union dirty
    BY <1>2 DEF Restart, NewTransaction, Visible
  <2> QED BY <2>1 DEF DiskTold
<1>3. CASE ~(\E t \in Requests : CommitTask(t)) /\ ~Restart
  <2>1. Visible' = Visible
    BY <1>3, VisibleKept
  <2>2. disk' = disk /\ suspect' = suspect /\ (pc = "thrown" => pc' = "thrown")
    BY <1>3 DEF Next, MainStep, StartTask, StartInstall, RefuseInstall, StartUninstall, StartOther,
                IsTop, Apply, Abort, JobsEnd, EnterQueue, Committed, PromptObsolete, NextQueue,
                EndQueue, Recommitted, CommitRegistry, RegisterQueued, Teardown, NewTransaction, vars
  <2>3. CASE CommitRegistry \/ Teardown
    <3>1. /\ durable' = Visible /\ dirty' = {} /\ pc # "thrown"
      BY <2>3 DEF CommitRegistry, Teardown, NewTransaction, Visible, RegistriesHold, PointsTold
    <3> QED BY <2>1, <2>2, <3>1 DEF DiskTold
  <2>4. CASE durable' = durable /\ dirty' = dirty
    BY <2>1, <2>2, <2>4 DEF DiskTold
  <2> QED BY <1>3, <2>3, <2>4
       DEF Next, MainStep, StartTask, StartInstall, RefuseInstall, StartUninstall, StartOther,
           Apply, Abort, JobsEnd, EnterQueue, Committed, PromptObsolete, NextQueue,
           EndQueue, Recommitted, RegisterQueued, vars
<1> QED BY <1>1, <1>2, <1>3

-----------------------------------------------------------------------------
(* The last ticket about a path *)

FilesIn(s) == UNION {s[i].files : i \in DOMAIN s}

(* A ticket more.                                                            *)
LEMMA TicketAdded ==
  ASSUME NEW s \in Seq(Tickets), NEW add \in BOOLEAN, NEW files \in SUBSET Paths, NEW p,
         NEW before, NEW after, LastTicketTold(s, p, before),
         p \in files => (p \in after <=> add), p \notin files => (p \in after <=> p \in before),
         NEW u, u = s \o Ticket(add, files)
  PROVE  /\ u \in Seq(Tickets)
         /\ LastTicketTold(u, p, after)
         /\ p \in FilesIn(u) <=> p \in files \/ p \in FilesIn(s)
<1>1. CASE files = {}
  <2>1. u = s
    BY <1>1, ConcatEmptySeq DEF Ticket
  <2>2. LastTicketTold(s, p, after)
    BY <1>1 DEF LastTicketTold
  <2> QED BY <1>1, <2>1, <2>2
<1>2. CASE files # {}
  <2>1. PICK T \in Tickets : T = [add |-> add, files |-> files]
    BY DEF Tickets
  <2>2. T.files = files /\ (T.add <=> add)
    BY <2>1
  <2>3. u = Append(s, T)
    BY <1>2, <2>1, AppendIsConcat DEF Ticket
  <2>4. PICK n \in Nat : n = Len(s) /\ DOMAIN s = 1..n
    OBVIOUS
  <2>5. /\ u \in Seq(Tickets) /\ Len(u) = n + 1 /\ u[n + 1] = T
        /\ \A i \in 1..n : u[i] = s[i]
    BY <2>3, <2>4, AppendProperties
  <2>6. DOMAIN u = 1..(n + 1) /\ n + 1 \in 1..(n + 1)
    BY <2>5
  <2>7. \A i \in 1..(n + 1) : i # n + 1 => i \in 1..n /\ n + 1 > i
    OBVIOUS
  <2>8. 1..n \subseteq 1..(n + 1)
    OBVIOUS
  <2>9. p \in files => LastTicketTold(u, p, after)
    <3> SUFFICES ASSUME p \in files, NEW i \in 1..(n + 1), p \in u[i].files,
                        \A k \in 1..(n + 1) : k > i => p \notin u[k].files
                 PROVE  u[i].add <=> p \in after
      BY <2>6 DEF LastTicketTold
    <3>1. i = n + 1
      BY <2>2, <2>5, <2>6, <2>7
    <3> QED BY Zenon, <2>2, <2>5, <3>1
  <2>10. p \notin files => LastTicketTold(u, p, after)
    <3> SUFFICES ASSUME p \notin files, NEW i \in 1..(n + 1), p \in u[i].files,
                        \A k \in 1..(n + 1) : k > i => p \notin u[k].files
                 PROVE  u[i].add <=> p \in after
      BY <2>6 DEF LastTicketTold
    <3>1. i \in 1..n
      BY <2>2, <2>5, <2>7
    <3>2. p \in s[i].files /\ \A k \in 1..n : k > i => p \notin s[k].files
      BY <2>5, <2>8, <3>1
    <3>3. s[i].add <=> p \in before
      BY Zenon, <2>4, <3>1, <3>2 DEF LastTicketTold
    <3> QED BY Zenon, <2>5, <3>1, <3>3
  <2>11. p \in FilesIn(u) <=> \E i \in 1..(n + 1) : p \in u[i].files
    BY <2>6 DEF FilesIn
  <2>12. p \in FilesIn(s) <=> \E i \in 1..n : p \in s[i].files
    BY <2>4 DEF FilesIn
  <2>13. p \in FilesIn(u) <=> p \in files \/ p \in FilesIn(s)
    BY <2>2, <2>5, <2>6, <2>7, <2>8, <2>11, <2>12
  <2> QED BY <2>5, <2>9, <2>10, <2>13
<1> QED BY <1>1, <1>2

(* The first ticket less.                                                    *)
LEMMA TicketTaken ==
  ASSUME NEW s \in Seq(Tickets), s # <<>>, NEW p, NEW mains, LastTicketTold(s, p, mains)
  PROVE  /\ LastTicketTold(Tail(s), p, mains)
         /\ p \in s[1].files /\ p \notin FilesIn(Tail(s)) => (s[1].add <=> p \in mains)
         /\ p \in FilesIn(s) <=> p \in s[1].files \/ p \in FilesIn(Tail(s))
<1>1. PICK n \in Nat \ {0} : n = Len(s) /\ DOMAIN s = 1..n
  BY EmptySeq
<1>2. PICK u : u = Tail(s)
  OBVIOUS
<1>3. u \in Seq(Tickets) /\ Len(u) = n - 1 /\ \A i \in 1..(n - 1) : u[i] = s[i + 1]
  BY <1>1, <1>2, RangeTail
<1>4. DOMAIN u = 1..(n - 1) /\ 1 \in 1..n
  BY <1>3
<1>5. \A i \in 1..(n - 1) : i + 1 \in 1..n
  OBVIOUS
<1>6. \A k \in 1..n : k > 1 => k - 1 \in 1..(n - 1) /\ s[k] = u[k - 1]
  BY <1>3
<1>7. ASSUME NEW i \in 1..(n - 1), p \in u[i].files,
             \A k \in 1..(n - 1) : k > i => p \notin u[k].files
      PROVE  u[i].add <=> p \in mains
  <2>1. PICK m \in 1..n : m = i + 1 /\ s[m] = u[i]
    BY <1>3, <1>5
  <2>2. \A k \in 1..n : k > m => p \notin s[k].files
    <3> SUFFICES ASSUME NEW k \in 1..n, k > m PROVE p \notin s[k].files
      OBVIOUS
    <3>1. k > 1 /\ k - 1 > i
      BY <2>1
    <3> QED BY <1>6, <1>7, <3>1
  <2>3. s[m].add <=> p \in mains
    BY Zenon, <1>1, <1>7, <2>1, <2>2 DEF LastTicketTold
  <2> QED BY Zenon, <2>1, <2>3
<1>8. LastTicketTold(u, p, mains)
  BY Zenon, <1>4, <1>7 DEF LastTicketTold
<1>9. p \in FilesIn(u) <=> \E i \in 1..(n - 1) : p \in u[i].files
  BY <1>4 DEF FilesIn
<1>10. p \in FilesIn(s) <=> \E i \in 1..n : p \in s[i].files
  BY <1>1 DEF FilesIn
<1>11. \A k \in 1..n : k = 1 \/ k > 1
  OBVIOUS
<1>12. p \in FilesIn(s) <=> p \in s[1].files \/ p \in FilesIn(u)
  <2>1. p \in FilesIn(u) => p \in FilesIn(s)
    BY <1>3, <1>5, <1>9, <1>10
  <2>2. p \in FilesIn(s) => p \in s[1].files \/ p \in FilesIn(u)
    BY <1>6, <1>9, <1>10, <1>11
  <2> QED BY <1>4, <1>10, <2>1, <2>2
<1>13. p \in s[1].files /\ p \notin FilesIn(u) => (s[1].add <=> p \in mains)
  <2> SUFFICES ASSUME p \in s[1].files, p \notin FilesIn(u) PROVE s[1].add <=> p \in mains
    OBVIOUS
  <2>1. \A k \in 1..n : k > 1 => p \notin s[k].files
    BY <1>6, <1>9
  <2> QED BY Zenon, <1>1, <1>4, <2>1 DEF LastTicketTold
<1> QED BY <1>2, <1>8, <1>12, <1>13

(* Tickets for the files of a release that are gone and those that are new.  *)
LEMMA TicketsAdded ==
  ASSUME NEW s \in Seq(Tickets), NEW gone \in SUBSET Paths, NEW added \in SUBSET Paths,
         gone \cap added = {}, NEW p, NEW before, NEW after, LastTicketTold(s, p, before),
         p \in added => p \in after, p \in gone => p \notin after,
         p \notin gone \union added => (p \in after <=> p \in before),
         NEW v, v = s \o Ticket(FALSE, gone), NEW u, u = v \o Ticket(TRUE, added)
  PROVE  /\ LastTicketTold(u, p, after)
         /\ p \in FilesIn(u) <=> p \in gone \/ p \in added \/ p \in FilesIn(s)
<1>1. PICK meanwhile : meanwhile = before \ gone
  OBVIOUS
<1>2. /\ v \in Seq(Tickets)
      /\ LastTicketTold(v, p, meanwhile)
      /\ p \in FilesIn(v) <=> p \in gone \/ p \in FilesIn(s)
  BY <1>1, TicketAdded
<1>3. /\ p \in added => (p \in after <=> TRUE)
      /\ p \notin added => (p \in after <=> p \in meanwhile)
  BY <1>1
<1>4. LastTicketTold(u, p, after) /\ (p \in FilesIn(u) <=> p \in added \/ p \in FilesIn(v))
  BY <1>2, <1>3, TicketAdded
<1> QED BY <1>2, <1>4

(* REAPER's action list and the tickets stay those of the registry.          *)
LEMMA ScriptsStayTold ==
  ASSUME TransactionInv, TransactionInv', Undisturbed, OldTold, ScriptsTold, [Next]_vars
  PROVE  ScriptsTold'
<1> USE DEF TransactionInv, registry, outside, queue, tasks, history
<1>1. \A p \in Paths \ Demoted : FileScriptsTold(p) /\ QueueScriptsTold(p)
  BY DEF ScriptsTold
<1>2. TicketFiles = FilesIn(tickets) /\ TicketFiles' = FilesIn(tickets')
  BY DEF TicketFiles, FilesIn
<1>3. tickets \in Seq(Tickets)
  BY DEF TypeOK
<1>4. ASSUME tickets' = <<>>
      PROVE  \A p, mains : LastTicketTold(tickets', p, mains) /\ TicketFiles' = {}
  BY <1>4 DEF LastTicketTold, TicketFiles
<1> SUFFICES ASSUME NEW p \in Paths \ Demoted
             PROVE  FileScriptsTold(p)' /\ QueueScriptsTold(p)'
  BY DEF ScriptsTold
<1> DEFINE Goal == FileScriptsTold(p)' /\ QueueScriptsTold(p)'
<1>5. ASSUME scripts' = scripts, lost' = lost, tickets' = tickets, Visible' = Visible,
             pc = "thrown" => pc' = "thrown",
             \/ durable' = durable /\ (pc \in {"register", "over"} => pc' \in {"register", "over"})
             \/ pc' \in {"register", "over"}
      PROVE  Goal
  <2>1. TicketFiles' = TicketFiles
    BY <1>5 DEF TicketFiles
  <2> QED BY <1>1, <1>5, <2>1 DEF FileScriptsTold, QueueScriptsTold
<1>6. ASSUME NEW t \in Requests, CommitTask(t) PROVE Goal
  <2>1. /\ pc \in {"commit", "recommit"} /\ pc' \in {pc, "thrown"}
        /\ scripts' = scripts /\ lost' = lost /\ durable' = durable
    BY <1>6, CommitMoves DEF CommitTask, Rollback, FailInstall, CommitInstall, CommitUninstall,
                             CommitFlags, CommitSync
  <2>2. Visible = tables /\ Visible' = tables' /\ tables \in Tables /\ ConsistentTables(tables)
    BY <2>1 DEF RegistriesHold, Visible, TypeOK
  <2>3. FileScriptsTold(p)'
    BY <1>1, <2>1 DEF FileScriptsTold
  <2>4. /\ LastTicketTold(tickets, p, Mains(tables))
        /\ p \notin lost \union FilesIn(tickets) => (p \in scripts <=> p \in Mains(tables))
    BY <1>1, <1>2, <2>1, <2>2 DEF QueueScriptsTold
  <2>5. old[t].mains \in SUBSET Paths
    BY DEF TypeOK
  <2>6. ASSUME LastTicketTold(tickets', p, Mains(tables')),
               p \in FilesIn(tickets) => p \in FilesIn(tickets'),
               p \notin FilesIn(tickets') => (p \in Mains(tables') <=> p \in Mains(tables))
        PROVE  QueueScriptsTold(p)'
    <3>1. QueueScriptsTold(p)' <=>
            (pc' # "thrown" =>
               /\ LastTicketTold(tickets', p, Mains(Visible'))
               /\ p \notin lost' \union TicketFiles' => (p \in scripts' <=> p \in Mains(Visible')))
      BY DEF QueueScriptsTold
    <3> QED BY <1>2, <2>1, <2>2, <2>4, <2>6, <3>1
  <2>7. ASSUME CommitInstall(t) /\ Conflicts(tables, t.release) = {} PROVE QueueScriptsTold(p)'
    <3>1. tickets' = tickets \o Ticket(FALSE, old[t].mains) \o Ticket(TRUE, t.release.mains)
      BY <2>7 DEF CommitInstall
    <3>2. /\ old[t].mains \cap t.release.files = {}
          /\ p \in t.release.files => (p \in Mains(tables') <=> p \in t.release.mains)
          /\ p \in t.release.files \ t.release.mains => p \notin Mains(tables)
          /\ p \in old[t].mains => p \notin Mains(tables')
          /\ p \notin old[t].mains \union t.release.files =>
               (p \in Mains(tables') <=> p \in Mains(tables))
      BY <2>7, CommitsInstall
    <3>3. t.release.mains \in SUBSET Paths /\ t.release.mains \subseteq t.release.files
      BY <2>7, RequestTold DEF CommitInstall
    <3>4. p \notin old[t].mains \union t.release.mains => (p \in Mains(tables) <=> p \in Mains(tables'))
      BY <3>2, <3>3
    <3>5. /\ LastTicketTold(tickets', p, Mains(tables'))
          /\ p \in FilesIn(tickets') <=>
               p \in old[t].mains \/ p \in t.release.mains \/ p \in FilesIn(tickets)
      <4>1. PICK s, v, u, before, after, gone, added :
              /\ s = tickets /\ v = tickets \o Ticket(FALSE, old[t].mains) /\ u = tickets'
              /\ before = Mains(tables) /\ after = Mains(tables')
              /\ gone = old[t].mains /\ added = t.release.mains
        OBVIOUS
      <4>2. /\ s \in Seq(Tickets) /\ LastTicketTold(s, p, before)
            /\ gone \in SUBSET Paths /\ added \in SUBSET Paths /\ gone \cap added = {}
            /\ p \in added => p \in after
            /\ p \in gone => p \notin after
            /\ p \notin gone \union added => (p \in after <=> p \in before)
            /\ v = s \o Ticket(FALSE, gone) /\ u = v \o Ticket(TRUE, added)
        BY <1>3, <2>4, <2>5, <3>1, <3>2, <3>3, <3>4, <4>1
      <4>3. /\ LastTicketTold(u, p, after)
            /\ p \in FilesIn(u) <=> p \in gone \/ p \in added \/ p \in FilesIn(s)
        BY ONLY <4>2, TicketsAdded
      <4> QED BY ONLY <4>1, <4>3
    <3> QED BY <2>6, <3>4, <3>5
  <2>8. ASSUME CommitInstall(t) /\ Conflicts(tables, t.release) # {} PROVE QueueScriptsTold(p)'
    BY <2>8 DEF CommitInstall, QueueScriptsTold
  <2>9. ASSUME CommitUninstall(t) PROVE QueueScriptsTold(p)'
    <3>1. tickets' = tickets \o Ticket(FALSE, old[t].mains) \o Ticket(TRUE, {})
      <4>1. Ticket(FALSE, old[t].mains) \in Seq(Tickets)
        BY <2>5, TicketType
      <4>2. tickets \o Ticket(FALSE, old[t].mains) \in Seq(Tickets)
        BY <1>3, <4>1, ConcatProperties
      <4> QED BY <2>9, <4>2, ConcatEmptySeq DEF CommitUninstall, Ticket
    <3>2. /\ p \in old[t].mains => p \notin Mains(tables')
          /\ p \notin old[t].mains => (p \in Mains(tables') <=> p \in Mains(tables))
      BY <2>9, CommitsUninstall
    <3>3. p \notin old[t].mains \union {} => (p \in Mains(tables) <=> p \in Mains(tables'))
      BY <3>2
    <3>4. /\ LastTicketTold(tickets', p, Mains(tables'))
          /\ p \in FilesIn(tickets') <=> p \in old[t].mains \/ p \in {} \/ p \in FilesIn(tickets)
      <4>1. PICK s, v, u, before, after, gone, added :
              /\ s = tickets /\ v = tickets \o Ticket(FALSE, old[t].mains) /\ u = tickets'
              /\ before = Mains(tables) /\ after = Mains(tables')
              /\ gone = old[t].mains /\ added = {}
        OBVIOUS
      <4>2. /\ s \in Seq(Tickets) /\ LastTicketTold(s, p, before)
            /\ gone \in SUBSET Paths /\ added \in SUBSET Paths /\ gone \cap added = {}
            /\ p \in added => p \in after
            /\ p \in gone => p \notin after
            /\ p \notin gone \union added => (p \in after <=> p \in before)
            /\ v = s \o Ticket(FALSE, gone) /\ u = v \o Ticket(TRUE, added)
        BY <1>3, <2>4, <2>5, <3>1, <3>2, <3>3, <4>1
      <4>3. /\ LastTicketTold(u, p, after)
            /\ p \in FilesIn(u) <=> p \in gone \/ p \in added \/ p \in FilesIn(s)
        BY ONLY <4>2, TicketsAdded
      <4> QED BY ONLY <4>1, <4>3
    <3> QED BY <2>6, <3>3, <3>4
  <2>10. ASSUME CommitFlags(t) PROVE QueueScriptsTold(p)'
    <3>1. entry[t].id \in Ids \union {0} /\ t.flags \in Flags
      BY <2>10, CopyId, RequestTold DEF TypeOK, CommitFlags
    <3>2. Mains(tables') = Mains(tables)
      BY <2>2, <2>10, <3>1, FlagsEffect DEF CommitFlags
    <3>3. tickets' = tickets
      BY <2>10 DEF CommitFlags
    <3> QED BY <2>4, <2>6, <3>2, <3>3
  <2>11. ASSUME Rollback(t) \/ FailInstall(t) \/ CommitSync(t) PROVE QueueScriptsTold(p)'
    <3>1. tables' = tables /\ tickets' = tickets
      BY <2>11 DEF Rollback, FailInstall, CommitSync
    <3> QED BY <2>4, <2>6, <3>1
  <2> QED BY <1>6, <2>3, <2>7, <2>8, <2>9, <2>10, <2>11 DEF CommitTask
<1>7. CASE Abort
  <2>1. /\ pc' = pc /\ tickets' = <<>> /\ lost' = lost \union TicketFiles
        /\ scripts' = scripts /\ durable' = durable /\ Visible' = Visible
    BY <1>7 DEF Abort, Visible
  <2> QED BY <1>1, <1>4, <2>1 DEF FileScriptsTold, QueueScriptsTold
<1>8. CASE RegisterQueued /\ tickets = <<>>
  BY <1>5, <1>8, VisibleKept DEF RegisterQueued, Visible
<1>9. CASE RegisterQueued /\ tickets # <<>>
  <2>1. /\ pc = "register" /\ pc' = "register" /\ Visible' = Visible
        /\ tickets' = Tail(tickets) /\ tickets[1] \in Tickets
        /\ scripts' = IF tickets[1].add THEN scripts \union tickets[1].files
                                        ELSE scripts \ tickets[1].files
        /\ lost' = lost \ tickets[1].files
    BY <1>9, TakesTicket DEF RegisterQueued, Visible
  <2>2. PICK first : first = tickets[1] /\ first \in Tickets
    BY <2>1
  <2>3. /\ LastTicketTold(tickets, p, Mains(Visible))
        /\ p \notin lost \union FilesIn(tickets) => (p \in scripts <=> p \in Mains(Visible))
    BY <1>1, <1>2, <2>1 DEF QueueScriptsTold
  <2>4. /\ LastTicketTold(tickets', p, Mains(Visible'))
        /\ p \in first.files /\ p \notin FilesIn(tickets') => (first.add <=> p \in Mains(Visible))
        /\ p \in FilesIn(tickets) <=> p \in first.files \/ p \in FilesIn(tickets')
    BY <1>3, <1>9, <2>1, <2>2, <2>3, TicketTaken
  <2>5. ASSUME p \notin lost' \union FilesIn(tickets')
        PROVE  p \in scripts' <=> p \in Mains(Visible')
    <3>1. CASE p \in first.files
      <4>1. first.add <=> p \in Mains(Visible)
        BY <1>3, <2>4, <2>5, <3>1
      <4>2. p \in scripts' <=> first.add
        BY <2>1, <2>2, <3>1
      <4> QED BY <2>1, <4>1, <4>2
    <3>2. CASE p \notin first.files
      <4>1. p \notin lost \union FilesIn(tickets)
        BY <2>1, <2>2, <2>4, <2>5, <3>2
      <4>2. p \in scripts' <=> p \in scripts
        BY <2>1, <2>2, <3>2
      <4> QED BY <2>1, <2>3, <4>1, <4>2
    <3> QED BY <3>1, <3>2
  <2> QED BY <1>2, <2>1, <2>4, <2>5 DEF FileScriptsTold, QueueScriptsTold
<1>10. CASE Teardown \/ Restart
  <2>1. /\ pc' = "rest" /\ tickets' = <<>> /\ scripts' = scripts
        /\ durable' = durable /\ Visible' = durable
    BY <1>10 DEF Teardown, Restart, NewTransaction, Visible
  <2>2. CASE pc \in {"register", "over"}
    <3>1. Visible = durable
      BY <2>2 DEF Visible, RegistriesHold, PointsTold
    <3>2. p \notin lost' => p \notin lost \union TicketFiles
      BY <1>10, <2>2 DEF Teardown, Restart, PointsTold, TicketFiles
    <3>3. p \notin lost' => (p \in scripts <=> p \in Mains(durable))
      BY <1>1, <2>2, <3>1, <3>2 DEF QueueScriptsTold
    <3> QED BY <1>4, <2>1, <3>3 DEF FileScriptsTold, QueueScriptsTold
  <2>3. CASE pc \notin {"register", "over"}
    <3>1. lost' = lost
      BY <1>10, <2>3 DEF Teardown, Restart
    <3> QED BY <1>1, <1>4, <2>1, <2>3, <3>1 DEF FileScriptsTold, QueueScriptsTold
  <2> QED BY <2>2, <2>3
<1>11. CASE /\ ~(\E t \in Requests : CommitTask(t))
            /\ ~Abort /\ ~RegisterQueued /\ ~Teardown /\ ~Restart
  <2>1. Visible' = Visible
    BY <1>11, VisibleKept
  <2>2. scripts' = scripts /\ lost' = lost /\ tickets' = tickets
    BY <1>11 DEF Next, MainStep, StartTask, StartInstall, RefuseInstall, StartUninstall, StartOther,
                Apply, JobsEnd, EnterQueue, Committed, PromptObsolete, NextQueue,
                EndQueue, Recommitted, CommitRegistry, vars
  <2>3. /\ pc = "thrown" => pc' = "thrown"
        /\ \/ durable' = durable /\ (pc \in {"register", "over"} => pc' \in {"register", "over"})
           \/ pc' \in {"register", "over"}
    BY <1>11 DEF Next, MainStep, StartTask, StartInstall, RefuseInstall, StartUninstall, StartOther,
                IsTop, Apply, JobsEnd, EnterQueue, Committed, PromptObsolete, NextQueue,
                EndQueue, Recommitted, CommitRegistry, vars
  <2> QED BY <1>5, <2>1, <2>2, <2>3
<1> QED BY <1>6, <1>7, <1>8, <1>9, <1>10, <1>11

-----------------------------------------------------------------------------
(* Undisturbed transactions *)

LEMMA AgreeInit == Init => AgreeInv
<1> SUFFICES ASSUME Init PROVE AgreeInv
  OBVIOUS
<1>1. /\ Visible = Initial /\ durable = Initial /\ saved = <<>> /\ pc = "rest"
      /\ scripts = Mains(Initial) /\ disk = [p \in Paths |-> Recorded(Initial, p)]
      /\ active = <<>> /\ tickets = <<>>
  BY DEF Init, Visible
<1>2. Active = {} /\ TicketFiles = {}
  BY <1>1 DEF Active, SeqRange, TicketFiles
<1>3. OthersKept /\ OldTold
  BY <1>1, <1>2 DEF OthersKept, OldTold
<1>4. DiskTold
  BY <1>1 DEF DiskTold
<1>5. \A p, mains : LastTicketTold(tickets, p, mains)
  BY <1>1 DEF LastTicketTold
<1>6. ScriptsTold
  BY <1>1, <1>2, <1>5 DEF ScriptsTold, FileScriptsTold, QueueScriptsTold
<1> QED BY <1>3, <1>4, <1>6 DEF AgreeInv

(* As long as no two tasks are about one package and every task has the      *)
(* entry of its package, every step keeps the files, the action list and the *)
(* tickets those of the registry.                                            *)
LEMMA AgreeKept ==
  TransactionInv /\ TransactionInv' /\ Undisturbed /\ AgreeInv /\ [Next]_vars => AgreeInv'
BY OthersStayKept, OldStaysTold, DiskStaysTold, ScriptsStayTold DEF AgreeInv

(* The same over a whole behaviour.                                          *)
THEOREM UndisturbedAgree == Spec /\ []Undisturbed => []AgreeInv
<1>1. Init => AgreeInv
  BY AgreeInit
<1>2. TransactionInv /\ TransactionInv' /\ Undisturbed /\ AgreeInv /\ [Next]_vars => AgreeInv'
  BY AgreeKept
<1> QED BY <1>1, <1>2, TransactionIsSound, PTL DEF Spec

(* Undisturbed transactions, whatever fails in them, leave on disk the files *)
(* of the releases that the registry has (install.cpp:97-137, task.cpp:44-56,*)
(* transaction.cpp:176-209).                                                 *)
THEOREM DiskStaysRight == Spec /\ []Undisturbed => []DiskAgrees
<1>1. TransactionInv /\ AgreeInv => DiskAgrees
  <2> SUFFICES ASSUME TransactionInv, AgreeInv, pc \in {"rest", "over"}
               PROVE  \A p \in Paths \ suspect : disk[p] = Recorded(tables, p)
    BY DEF DiskAgrees
  <2>1. Visible = tables
    BY DEF TransactionInv, RegistriesHold, Visible
  <2> QED BY <2>1 DEF AgreeInv, DiskTold
<1> QED BY <1>1, TransactionIsSound, UndisturbedAgree, PTL

(* When an undisturbed transaction is over, REAPER's action list has the     *)
(* main files of the installed packages (transaction.cpp:220-244).           *)
THEOREM ScriptsStayRight == Spec /\ []Undisturbed => []ScriptsAgree
<1>1. TransactionInv /\ AgreeInv => ScriptsAgree
  <2> SUFFICES ASSUME TransactionInv, AgreeInv, pc = "over",
                      NEW p \in Paths \ (lost \union Demoted)
               PROVE  p \in scripts <=> p \in Mains(durable)
    BY DEF ScriptsAgree
  <2>1. Visible = durable /\ tickets = <<>>
    BY DEF TransactionInv, RegistriesHold, PointsTold, Visible
  <2>2. TicketFiles = {}
    BY <2>1 DEF TicketFiles
  <2> QED BY <2>1, <2>2 DEF AgreeInv, ScriptsTold, QueueScriptsTold
<1> QED BY <1>1, TransactionIsSound, UndisturbedAgree, PTL

-----------------------------------------------------------------------------
(* A transaction implements Installer *)

\* The id of a copy is that of a row of the package, or of none: SQLite gives
\* the id of a removed entry to another package, and a copy that is older than
\* that would name the other package.
NoReusedIds ==
  \A t \in Outstanding : t.kind = "uninstall" =>
    LET i == entry[t].id
    IN i = 0 \/ Visible.entries[i] = NoRow \/ Names(Visible, i, t.pkg)

(* The removal of an id changes what is installed by the package of its row  *)
(* at most.                                                                  *)
LEMMA RemovesOwn ==
  ASSUME NEW t \in Tables, NEW i \in Ids \union {0}, ConsistentTables(t), NEW pkg \in Packages,
         i = 0 \/ t.entries[i] = NoRow \/ Names(t, i, pkg), NEW u, u = Forgotten(t, i)
  PROVE  \/ InstalledIn(u) = InstalledIn(t)
         \/ InstalledIn(u) = [InstalledIn(t) EXCEPT ![pkg] = NoRow]
<1>1. u \in Tables /\ OneEntryPerPackage(u) /\ OneEntryPerPackage(t)
  BY ForgottenType, ForgottenConsistent DEF ConsistentTables
<1>2. /\ InstalledIn(u) \in [Packages -> Releases \union {NoRow}]
      /\ InstalledIn(t) \in [Packages -> Releases \union {NoRow}]
  BY <1>1, InstalledType
<1>3. CASE i = 0
  BY <1>3 DEF Forgotten
<1>4. CASE i # 0
  <2>1. u.entries[i] = NoRow /\ \A j \in Ids \ {i} : u.entries[j] = t.entries[j]
    BY <1>4 DEF Forgotten, Tables
  <2>2. ASSUME NEW other \in Packages, ~Names(t, i, other)
        PROVE  InstalledIn(u)[other] = InstalledIn(t)[other]
    <3>1. \A j \in Ids : Names(u, j, other) <=> Names(t, j, other)
      BY <2>1, <2>2 DEF Names
    <3>2. \A j \in Ids : Names(t, j, other) => u.entries[j].release = t.entries[j].release
      BY <2>1, <2>2
    <3> QED BY <1>1, <3>1, <3>2, SameInstalled
  <2>3. CASE Names(t, i, pkg)
    <3>1. \A j \in Ids : ~Names(u, j, pkg)
      BY <1>1, <1>4, <2>1, <2>3 DEF Names, OneEntryPerPackage
    <3>2. InstalledIn(u)[pkg] = NoRow
      BY <3>1 DEF InstalledIn, HasEntry
    <3>3. \A other \in Packages \ {pkg} : ~Names(t, i, other)
      BY <2>3 DEF Names
    <3> QED BY <1>2, <2>2, <3>2, <3>3
  <2>4. CASE t.entries[i] = NoRow
    <3>1. \A other \in Packages : ~Names(t, i, other)
      BY <2>4 DEF Names
    <3> QED BY <1>2, <2>2, <3>1
  <2> QED BY <1>4, <2>3, <2>4
<1> QED BY <1>3, <1>4

(* A commit of a task installs or removes its package, asks for the installs *)
(* that a synchronization found, or changes nothing of this.                 *)
LEMMA CommitsAreInstaller ==
  ASSUME TransactionInv, NoReusedIds, NEW t \in Requests, CommitTask(t)
  PROVE  [Promised!Next]_(Promised!vars)
<1> USE DEF TransactionInv, registry, tasks
<1>1. pc # "start" /\ pc' # "start" /\ t \in Active
  BY CommitMoves
<1>2. saved = <<>> /\ saved' = saved /\ durable' = durable
  BY <1>1 DEF RegistriesHold, CommitTask, Rollback, FailInstall, CommitInstall,
              CommitUninstall, CommitFlags, CommitSync
<1>3. Visible = tables /\ Visible' = tables' /\ tables \in Tables /\ ConsistentTables(tables)
  BY <1>2 DEF RegistriesHold, Visible, TypeOK
<1>4. t \in Outstanding /\ t \in asked
  BY <1>1, OutstandingIs DEF PlacedOnce
<1>5. ASSUME asked' = asked, InstalledIn(tables') = InstalledIn(tables)
      PROVE  UNCHANGED Promised!vars
  BY <1>2, <1>3, <1>5 DEF Promised!vars
<1>6. CASE CommitInstall(t) /\ Conflicts(tables, t.release) = {}
  <2>1. t.kind = "install" /\ t.release \in Releases /\ FlagsOf(t) \in Flags
    BY <1>6, RequestTold, FlagsOfType DEF CommitInstall, TypeOK
  <2>2. PICK i \in Ids : /\ IsPushId(tables, t.release.pkg, i)
                         /\ tables' = Pushed(tables, t.release, FlagsOf(t), i)
    BY <1>6 DEF CommitInstall
  <2>3. InstalledIn(tables') = [InstalledIn(tables) EXCEPT ![t.release.pkg] = t.release]
    <3>1. PICK r, f, u : r = t.release /\ f = FlagsOf(t) /\ u = tables'
      OBVIOUS
    <3>2. InstalledIn(Pushed(tables, r, f, i)) = [InstalledIn(tables) EXCEPT ![r.pkg] = r]
      BY <1>3, <1>6, <2>1, <2>2, <3>1, PushedInstalls
    <3> QED BY <2>2, <3>1, <3>2
  <2>4. Promised!Free(t.release)
    BY <1>3, <1>6, <2>1, NoConflictIsFree DEF Promised!Free
  <2>5. Promised!Install(t)
    BY <1>2, <1>3, <1>6, <2>1, <2>3, <2>4 DEF Promised!Install, CommitInstall
  <2> QED BY <1>4, <2>5 DEF Promised!Next
<1>7. CASE CommitUninstall(t)
  <2>1. t.kind = "uninstall" /\ t.pkg \in Packages /\ asked' = asked
    BY <1>7, RequestTold DEF CommitUninstall
  <2>2. PICK i \in Ids \union {0} : i = entry[t].id
    BY CopyId DEF TypeOK
  <2>3. i = 0 \/ tables.entries[i] = NoRow \/ Names(tables, i, t.pkg)
    BY <1>3, <1>4, <2>1, <2>2 DEF NoReusedIds
  <2>4. tables' = Forgotten(tables, i)
    BY <1>7, <2>2 DEF CommitUninstall
  <2>5. \/ InstalledIn(tables') = InstalledIn(tables)
        \/ InstalledIn(tables') = [InstalledIn(tables) EXCEPT ![t.pkg] = NoRow]
    <3>1. PICK pkg, u : pkg = t.pkg /\ u = tables'
      OBVIOUS
    <3> QED BY ONLY <1>3, <2>1, <2>3, <2>4, <3>1, RemovesOwn, i \in Ids \union {0}
  <2>6. ASSUME InstalledIn(tables') = [InstalledIn(tables) EXCEPT ![t.pkg] = NoRow]
        PROVE  Promised!Remove(t)
    BY <1>2, <1>3, <2>1, <2>6 DEF Promised!Remove
  <2> QED BY <1>4, <1>5, <2>1, <2>5, <2>6 DEF Promised!Next
<1>8. CASE CommitFlags(t)
  <2>1. entry[t].id \in Ids \union {0} /\ t.flags \in Flags /\ asked' = asked
    BY <1>8, CopyId, RequestTold DEF TypeOK, CommitFlags
  <2> QED BY <1>3, <1>5, <1>8, <2>1, FlagsSetInstalled DEF CommitFlags
<1>9. CASE CommitSync(t)
  <2>1. tables' = tables /\ (asked' = asked \union InstallsOf(t) \/ asked' = asked \union {})
    BY <1>9 DEF CommitSync
  <2>2. InstallsOf(t) \in SUBSET Requests /\ {} \in SUBSET Requests
    BY DEF InstallsOf
  <2> QED BY <1>2, <1>3, <2>1, <2>2 DEF Promised!Next, Promised!Ask
<1>10. CASE \/ Rollback(t) \/ FailInstall(t)
            \/ CommitInstall(t) /\ Conflicts(tables, t.release) # {}
  <2>1. tables' = tables /\ asked' = asked
    BY <1>10 DEF Rollback, FailInstall, CommitInstall
  <2> QED BY <1>5, <2>1
<1> QED BY <1>6, <1>7, <1>8, <1>9, <1>10 DEF CommitTask

(* So does every other step.                                                 *)
LEMMA StepsAreInstaller ==
  TransactionInv /\ NoReusedIds /\ [Next]_vars => [Promised!Next]_(Promised!vars)
<1> SUFFICES ASSUME TransactionInv, NoReusedIds, [Next]_vars
             PROVE  [Promised!Next]_(Promised!vars)
  OBVIOUS
<1> USE DEF TransactionInv, registry, tasks
<1>1. CASE \E t \in Requests : CommitTask(t)
  BY <1>1, CommitsAreInstaller
<1>2. CASE Restart
  <2>1. /\ asked' = {} /\ durable' = durable /\ tables' = durable /\ saved' = <<>>
    BY <1>2 DEF Restart, NewTransaction
  <2>2. Visible' = durable
    BY <2>1 DEF Visible
  <2> QED BY <2>1, <2>2 DEF Promised!Next, Promised!Lose
<1>3. ASSUME ~(\E t \in Requests : CommitTask(t)), ~Restart
      PROVE  [Promised!Next]_(Promised!vars)
  <2>1. Visible' = Visible
    BY <1>3, VisibleKept
  <2>2. ASSUME asked' = asked, durable' = durable PROVE UNCHANGED Promised!vars
    BY <2>1, <2>2 DEF Promised!vars
  <2>3. ASSUME durable' = durable, \E more \in SUBSET Requests : asked' = asked \union more
        PROVE  Promised!Ask
    BY <2>1, <2>3 DEF Promised!Ask
  <2>4. CASE Apply
    BY <2>3, <2>4 DEF Apply, Enqueue, Promised!Next
  <2>5. CASE PromptObsolete
    <3>1. PICK selected \in ObsoleteQuery :
            asked' = asked \union UNION {PromptFor(e) : e \in selected}
      BY <2>5 DEF PromptObsolete
    <3>2. UNION {PromptFor(e) : e \in selected} \in SUBSET Requests
      BY DEF PromptFor
    <3> QED BY <2>3, <2>5, <3>1, <3>2 DEF PromptObsolete, Promised!Next
  <2>6. CASE CommitRegistry
    <3>1. Visible = tables /\ durable' = tables /\ asked' = asked
      BY <2>6 DEF CommitRegistry, RegistriesHold, Visible
    <3> QED BY <2>1, <3>1 DEF Promised!Next, Promised!Finish
  <2>7. CASE Teardown
    <3>1. Visible = durable /\ durable' = durable /\ asked' = {}
      BY <2>7 DEF Teardown, NewTransaction, RegistriesHold, PointsTold, Visible
    <3> QED BY <2>1, <3>1 DEF Promised!Next, Promised!NextTransaction
  <2>8. CASE \E t \in Requests : StartTask(t) \/ JobsEnd(t)
    BY <2>2, <2>8 DEF StartTask, StartInstall, RefuseInstall, StartUninstall, StartOther, JobsEnd
  <2>9. CASE Abort \/ EnterQueue \/ Committed \/ NextQueue \/ EndQueue \/ Recommitted
             \/ RegisterQueued \/ UNCHANGED vars
    BY <2>2, <2>9 DEF Abort, EnterQueue, Committed, NextQueue, EndQueue, Recommitted,
                      RegisterQueued, vars
  <2> QED BY <1>3, <2>4, <2>5, <2>6, <2>7, <2>8, <2>9 DEF Next, MainStep
<1> QED BY <1>1, <1>2, <1>3

(* As long as no copy of an entry outlives it, only packages that were asked *)
(* for are installed or removed, each as a whole and never over a file of    *)
(* another, and all of a transaction becomes durable or nothing              *)
(* (transaction.cpp:145-244, install.cpp:97-137, task.cpp:44-65).            *)
THEOREM TransactionImplementsInstaller == Spec /\ []NoReusedIds => ImplementsInstaller
<1>1. Init => Promised!Init
  BY DEF Init, Visible, Promised!Init
<1>2. TransactionInv /\ NoReusedIds /\ [Next]_vars => [Promised!Next]_(Promised!vars)
  BY StepsAreInstaller
<1> QED BY <1>1, <1>2, TransactionIsSound, PTL DEF Spec, ImplementsInstaller, Promised!Spec

-----------------------------------------------------------------------------
(* Whose transactions are undisturbed *)

\* An index has one latest release of each package, of those of its repository;
\* a release is installed by one task of a synchronization, and an obsolete
\* package removed by one of the prompt.
OneTaskEach ==
  /\ \A t \in Requests : t.kind = "sync" =>
       /\ \A r \in t.index : r.pkg \in t.pkgs
       /\ \A r, s \in t.index : r.pkg = s.pkg => r = s
  /\ \A t, u \in Requests : t.from = "sync" /\ u.from = "sync" /\ t.release = u.release => t = u
  /\ \A t, u \in Requests : t.from = "prompt" /\ u.from = "prompt" /\ t.pkg = u.pkg => t = u

\* The user removes a package by its entry of now.
QueuesEntriesOfNow ==
  [][\A t \in next' \ next : t.kind = "uninstall" =>
       entry'[t].id = GetEntry(tables, t.pkg).id]_vars

\* The packages of tasks and of obsolete entries are different ones.
Exclusive ==
  /\ \A t, u \in Outstanding : t # u => PackagesOf(t) \cap PackagesOf(u) = {}
  /\ \A e \in obsolete, t \in Outstanding : e.row.release.pkg \notin PackagesOf(t)
  /\ pc \in {"rest", "head"} => obsolete = {}

\* The entries of tasks and the obsolete ones are those of their packages.
EntriesOfNow ==
  /\ \A t \in Outstanding : Changes(t) => entry[t].id = GetEntry(Visible, PackageOf(t)).id
  /\ \A e \in obsolete : /\ e.row.release.pkg \in Packages
                         /\ e.id = GetEntry(Visible, e.row.release.pkg).id

(* The packages a request is about.                                          *)
LEMMA PackagesTold ==
  ASSUME NEW t \in Requests
  PROVE  /\ PackagesOf(t) \subseteq Packages
         /\ Changes(t) => PackagesOf(t) = {PackageOf(t)} /\ PackageOf(t) \in Packages
         /\ t.kind = "install" => PackagesOf(t) = {t.release.pkg}
         /\ t.kind = "uninstall" => PackagesOf(t) = {t.pkg} /\ PackageOf(t) = t.pkg
         /\ t.kind = "sync" => PackagesOf(t) = t.pkgs
BY RequestTold DEF PackagesOf, PackageOf, Changes

LEMMA ExclusiveUndisturbed ==
  TransactionInv /\ Exclusive /\ EntriesOfNow => Undisturbed
<1> SUFFICES ASSUME TransactionInv, Exclusive, EntriesOfNow PROVE Undisturbed
  OBVIOUS
<1>1. Outstanding \subseteq Requests
  BY DEF TransactionInv, PlacedOnce, TypeOK
<1>2. ASSUME NEW t \in Outstanding, NEW u \in Outstanding,
             Changes(t), Changes(u), PackageOf(t) = PackageOf(u)
      PROVE  t = u
  <2>1. PackageOf(t) \in PackagesOf(t) \cap PackagesOf(u)
    BY <1>1, <1>2, PackagesTold
  <2> QED BY <2>1 DEF Exclusive
<1> QED BY <1>2 DEF Undisturbed, EntriesOfNow

(* A package whose rows did not change has the same entry.                   *)
LEMMA SameId ==
  ASSUME NEW t \in Tables, NEW u \in Tables, ConsistentTables(t), ConsistentTables(u),
         NEW pkg \in Packages, \A i \in Ids : Names(t, i, pkg) <=> Names(u, i, pkg)
  PROVE  GetEntry(t, pkg).id = GetEntry(u, pkg).id
<1>1. OneEntryPerPackage(t) /\ OneEntryPerPackage(u)
  BY DEF ConsistentTables
<1>2. CASE \E i \in Ids : Names(t, i, pkg)
  <2>1. PICK i \in Ids : Names(t, i, pkg) /\ Names(u, i, pkg)
    BY <1>2
  <2>2. GetEntry(t, pkg) = [id |-> i, row |-> t.entries[i]]
    BY <1>1, <2>1, InstalledAt
  <2>3. GetEntry(u, pkg) = [id |-> i, row |-> u.entries[i]]
    BY <1>1, <2>1, InstalledAt
  <2> QED BY <2>2, <2>3
<1>3. CASE ~\E i \in Ids : Names(t, i, pkg)
  BY <1>3 DEF GetEntry, HasEntry
<1> QED BY <1>2, <1>3

(* A commit leaves the entries of other packages to them.                    *)
LEMMA CommitsElsewhere ==
  ASSUME TransactionInv, TransactionInv', EntriesOfNow, NEW t \in Requests, CommitTask(t),
         NEW pkg \in Packages \ PackagesOf(t)
  PROVE  GetEntry(Visible', pkg).id = GetEntry(Visible, pkg).id
<1> USE DEF TransactionInv, registry
<1>1. pc # "start" /\ pc' # "start" /\ t \in Outstanding
  BY CommitMoves, OutstandingIs
<1>2. /\ Visible = tables /\ Visible' = tables'
      /\ tables \in Tables /\ ConsistentTables(tables)
      /\ tables' \in Tables /\ ConsistentTables(tables')
  BY <1>1 DEF RegistriesHold, Visible, TypeOK
<1>3. ASSUME \A i \in Ids : Names(tables, i, pkg) <=> Names(tables', i, pkg)
      PROVE  GetEntry(Visible', pkg).id = GetEntry(Visible, pkg).id
  <2>1. PICK u : u = tables'
    OBVIOUS
  <2>2. GetEntry(tables, pkg).id = GetEntry(u, pkg).id
    BY <1>2, <1>3, <2>1, SameId
  <2> QED BY <1>2, <2>1, <2>2
<1>4. CASE CommitInstall(t) /\ Conflicts(tables, t.release) = {}
  <2>1. /\ t.kind = "install" /\ t.release \in Releases /\ FlagsOf(t) \in Flags
        /\ pkg # t.release.pkg
    BY <1>4, RequestTold, PackagesTold, FlagsOfType DEF CommitInstall, TypeOK
  <2>2. PICK i \in Ids : /\ IsPushId(tables, t.release.pkg, i)
                         /\ tables' = Pushed(tables, t.release, FlagsOf(t), i)
    BY <1>4 DEF CommitInstall
  <2>3. PICK r, f, u : r = t.release /\ f = FlagsOf(t) /\ u = tables'
    OBVIOUS
  <2>4. WritesRow(tables, r, f, i, u)
    BY <1>2, <1>4, <2>1, <2>2, <2>3, PushedWrites
  <2>5. /\ u.entries[i].release = r /\ \A j \in Ids \ {i} : u.entries[j] = tables.entries[j]
    BY <2>4 DEF WritesRow
  <2>6. ~Names(tables, i, pkg) /\ ~Names(u, i, pkg)
    BY <2>1, <2>2, <2>3, <2>5 DEF IsPushId, Names
  <2> QED BY <1>3, <2>3, <2>5, <2>6 DEF Names
<1>5. CASE CommitUninstall(t)
  <2>1. Changes(t) /\ PackageOf(t) = t.pkg /\ t.pkg \in Packages /\ pkg # t.pkg
    BY <1>5, PackagesTold DEF CommitUninstall, Changes
  <2>2. PICK i : i = entry[t].id /\ i = GetEntry(tables, t.pkg).id
    BY <1>1, <1>2, <2>1 DEF EntriesOfNow
  <2>3. i \in Ids \union {0} /\ (i # 0 => Names(tables, i, t.pkg))
    BY <1>2, <2>1, <2>2, GetEntryType, GetEntryCopy
  <2>4. tables' = Forgotten(tables, i)
    BY <1>5, <2>2 DEF CommitUninstall
  <2>5. CASE i = 0
    BY <1>3, <2>4, <2>5 DEF Forgotten
  <2>6. CASE i # 0
    <3>1. tables'.entries[i] = NoRow /\ \A j \in Ids \ {i} : tables'.entries[j] = tables.entries[j]
      BY <1>2, <2>3, <2>4, <2>6 DEF Forgotten, Tables
    <3> QED BY <1>3, <2>1, <2>3, <2>6, <3>1 DEF Names
  <2> QED BY <2>5, <2>6
<1>6. CASE CommitFlags(t)
  <2>1. PICK i \in Ids \union {0} : i = entry[t].id
    BY CopyId DEF TypeOK
  <2>2. t.flags \in Flags /\ tables' = FlagsSet(tables, i, t.flags)
    BY <1>6, <2>1, RequestTold DEF CommitFlags
  <2>3. \A j \in Ids : /\ tables'.entries[j] = NoRow <=> tables.entries[j] = NoRow
                       /\ tables'.entries[j].release = tables.entries[j].release
    BY <1>2, <2>2, FlagsSetSameReleases
  <2> QED BY <1>3, <2>3 DEF Names
<1>7. CASE \/ Rollback(t) \/ FailInstall(t) \/ CommitSync(t)
           \/ CommitInstall(t) /\ Conflicts(tables, t.release) # {}
  <2>1. tables' = tables
    BY <1>7 DEF Rollback, FailInstall, CommitInstall, CommitSync
  <2> QED BY <1>2, <2>1
<1> QED BY <1>4, <1>5, <1>6, <1>7 DEF CommitTask

(* Every step of a patient user keeps tasks and obsolete entries apart and   *)
(* their entries of now.                                                     *)
LEMMA PatientKept ==
  ASSUME ~Impatient, OneTaskEach, TransactionInv, TransactionInv', Exclusive, EntriesOfNow,
         [Next]_vars,
         \A t \in next' \ next : t.kind = "uninstall" => entry'[t].id = GetEntry(tables, t.pkg).id
  PROVE  Exclusive' /\ EntriesOfNow'
<1> USE DEF TransactionInv, registry, queue, tasks
<1> DEFINE Goal == Exclusive' /\ EntriesOfNow'
<1>1. Outstanding \subseteq Requests /\ Outstanding \subseteq made
  BY DEF PlacedOnce, TypeOK
<1>2. /\ Outstanding = next \union Queued \union Active
      /\ Outstanding' = next' \union Queued' \union Active'
  BY OutstandingIs
<1>3. ASSUME Outstanding' \subseteq Outstanding, obsolete' \subseteq obsolete, entry' = entry,
             Visible' = Visible, pc' \in {"rest", "head"} => obsolete' = {}
      PROVE  Goal
  BY <1>3 DEF Exclusive, EntriesOfNow
<1>4. CASE Apply
  <2>1. PICK S \in SUBSET {t \in Requests \ made : t.from = "user"}, view \in {tables, durable} :
          Disjoint(S) /\ Enqueue(S, view)
    BY <1>4 DEF Apply
  <2>2. Queued' = Queued /\ Active' = Active
    BY <1>4 DEF Apply, Queued, Active
  <2>3. Outstanding' = Outstanding \union S /\ S \subseteq next' \ next
    BY <1>1, <1>2, <2>1, <2>2 DEF Enqueue
  <2>4. obsolete = {} /\ obsolete' = {}
    BY <1>4 DEF Apply, Exclusive
  <2>5. Exclusive'
    BY <2>1, <2>3, <2>4 DEF Exclusive, Disjoint
  <2>6. Visible = tables /\ Visible' = tables /\ tables \in Tables
    BY <1>4 DEF Apply, Visible, RegistriesHold, TypeOK
  <2>7. ASSUME NEW t \in Outstanding', Changes(t)
        PROVE  entry'[t].id = GetEntry(Visible', PackageOf(t)).id
    <3>1. CASE t \in S
      <4>1. t.kind = "install" => entry'[t] = GetEntry(tables, t.release.pkg)
        BY <2>1, <3>1 DEF Enqueue, EntryFor
      <4>2. t.kind = "uninstall" => entry'[t].id = GetEntry(tables, t.pkg).id
        BY <2>3, <3>1
      <4> QED BY <2>6, <2>7, <4>1, <4>2 DEF Changes, PackageOf
    <3>2. CASE t \notin S
      <4>1. t \in Outstanding /\ entry'[t] = entry[t]
        BY <1>1, <2>1, <2>3, <2>7, <3>2 DEF Enqueue
      <4> QED BY <2>6, <2>7, <4>1 DEF EntriesOfNow
    <3> QED BY <3>1, <3>2
  <2> QED BY <2>4, <2>5, <2>7 DEF EntriesOfNow
<1>5. CASE PromptObsolete
  <2>1. PICK S \in SUBSET (Requests \ made) :
          /\ \A t \in S : t.from = "prompt"
          /\ \A t \in S : entry'[t] \in obsolete /\ entry'[t].row.release.pkg = t.pkg
          /\ \A t \in Requests \ S : entry'[t] = entry[t]
          /\ Queued' = Queued \union S
    BY <1>5, JoinsQueues
  <2>2. Active' = Active /\ next' = next /\ obsolete' = {} /\ pc' = "queues" /\ Visible' = Visible
    BY <1>5 DEF PromptObsolete, Active, Visible
  <2>3. Outstanding' = Outstanding \union S
    BY <1>2, <2>1, <2>2
  <2>4. \A t \in S : t.kind = "uninstall" /\ PackagesOf(t) = {t.pkg} /\ PackageOf(t) = t.pkg
    BY <2>1, RequestTold, PackagesTold
  <2>5. ASSUME NEW t \in S, NEW u \in Outstanding' \ {t} PROVE t.pkg \notin PackagesOf(u)
    <3>1. CASE u \in S
      BY <2>1, <2>4, <2>5, <3>1 DEF OneTaskEach
    <3>2. CASE u \in Outstanding
      <4>1. PICK e \in obsolete : e.row.release.pkg = t.pkg
        BY <2>1
      <4> QED BY <3>2, <4>1 DEF Exclusive
    <3> QED BY <2>3, <3>1, <3>2
  <2>6. Exclusive'
    <3>1. ASSUME NEW t \in Outstanding', NEW u \in Outstanding', t # u
          PROVE  PackagesOf(t) \cap PackagesOf(u) = {}
      <4>1. CASE t \in S
        BY <2>4, <2>5, <3>1, <4>1
      <4>2. CASE u \in S
        BY <2>4, <2>5, <3>1, <4>2
      <4>3. CASE t \in Outstanding /\ u \in Outstanding
        BY <3>1, <4>3 DEF Exclusive
      <4> QED BY <2>3, <4>1, <4>2, <4>3
    <3> QED BY <2>2, <3>1 DEF Exclusive
  <2>7. ASSUME NEW t \in Outstanding', Changes(t)
        PROVE  entry'[t].id = GetEntry(Visible', PackageOf(t)).id
    <3>1. CASE t \in S
      <4>1. PICK e \in obsolete : entry'[t] = e /\ e.row.release.pkg = t.pkg
        BY <2>1, <3>1
      <4>2. e.id = GetEntry(Visible, e.row.release.pkg).id
        BY <4>1 DEF EntriesOfNow
      <4> QED BY <2>2, <2>4, <3>1, <4>1, <4>2
    <3>2. CASE t \notin S
      <4>1. t \in Outstanding /\ entry'[t] = entry[t]
        BY <1>1, <2>1, <2>3, <2>7, <3>2
      <4> QED BY <2>2, <2>7, <4>1 DEF EntriesOfNow
    <3> QED BY <3>1, <3>2
  <2> QED BY <2>2, <2>6, <2>7 DEF EntriesOfNow
<1>6. ASSUME NEW t \in Requests, CommitTask(t) PROVE Goal
  <2>1. /\ pc \in {"commit", "recommit"} /\ pc' \in {pc, "thrown"} /\ t \in Active
        /\ Queued' = Queued /\ Active' = Active \ {t}
    BY <1>6, CommitMoves
  <2>2. t \in Outstanding /\ t \notin next \union Queued
    BY <1>2, <2>1 DEF PlacedOnce
  <2>3. pc # "start" /\ pc' # "start"
    BY <2>1
  <2>4. Visible = tables /\ tables \in Tables /\ Visible' = tables'
    BY <2>3 DEF RegistriesHold, Visible, TypeOK
  <2>5. \A u \in Outstanding \ {t} : Changes(u) =>
          GetEntry(Visible', PackageOf(u)).id = GetEntry(Visible, PackageOf(u)).id
    <3> TAKE u \in Outstanding \ {t}
    <3> HAVE Changes(u)
    <3>1. PackageOf(u) \in Packages \ PackagesOf(t)
      BY <1>1, <2>2, PackagesTold DEF Exclusive
    <3> QED BY <1>6, <3>1, CommitsElsewhere
  <2>6. \A e \in obsolete :
          GetEntry(Visible', e.row.release.pkg).id = GetEntry(Visible, e.row.release.pkg).id
    <3> TAKE e \in obsolete
    <3>1. e.row.release.pkg \in Packages \ PackagesOf(t)
      BY <2>2 DEF Exclusive, EntriesOfNow
    <3> QED BY <1>6, <3>1, CommitsElsewhere
  <2>7. ASSUME next' = next, entry' = entry, obsolete' = obsolete PROVE Goal
    <3>1. Outstanding' = Outstanding \ {t}
      BY <1>2, <2>1, <2>2, <2>7
    <3>2. Exclusive'
      BY <2>1, <2>7, <3>1 DEF Exclusive
    <3> QED BY <2>5, <2>6, <2>7, <3>1, <3>2 DEF EntriesOfNow
  <2>8. ASSUME t.kind = "sync", next' = next \union InstallsOf(t), tables' = tables,
               entry' = [u \in Requests |->
                 IF u \in InstallsOf(t) THEN EntryFor(u, tables) ELSE entry[u]],
               obsolete' = obsolete \union ObsoleteOf(t)
        PROVE  Goal
    <3>1. Outstanding' = (Outstanding \ {t}) \union InstallsOf(t)
      BY <1>2, <2>1, <2>2, <2>8
    <3>2. /\ InstallsOf(t) \subseteq Requests /\ InstallsOf(t) \cap Outstanding = {}
          /\ \A u \in InstallsOf(t) : u.from = "sync" /\ u.release \in t.index
      BY <1>1 DEF InstallsOf
    <3>3. \A u \in InstallsOf(t) :
            /\ u.kind = "install" /\ PackagesOf(u) = {u.release.pkg}
            /\ PackageOf(u) = u.release.pkg /\ u.release.pkg \in t.pkgs
      BY <2>8, <3>2, RequestTold, PackagesTold DEF PackageOf, OneTaskEach
    <3>4. PackagesOf(t) = t.pkgs
      BY <2>8 DEF PackagesOf
    <3>5. \A u, v \in InstallsOf(t) : u.release.pkg = v.release.pkg => u = v
      BY <2>8, <3>2 DEF OneTaskEach
    <3>6. \A e \in ObsoleteOf(t) :
            /\ e.row.release.pkg \in t.pkgs /\ \A r \in t.index : r.pkg # e.row.release.pkg
            /\ \E i \in Ids : e = [id |-> i, row |-> tables.entries[i]] /\ tables.entries[i] # NoRow
      BY DEF ObsoleteOf, GetEntries
    <3>7. ASSUME NEW u \in Outstanding', NEW v \in Outstanding', u # v
          PROVE  PackagesOf(u) \cap PackagesOf(v) = {}
      <4>1. CASE u \in InstallsOf(t) /\ v \in InstallsOf(t)
        BY <3>3, <3>5, <3>7, <4>1
      <4>2. CASE u \in InstallsOf(t) /\ v \in Outstanding \ {t}
        BY <2>2, <3>3, <3>4, <4>2 DEF Exclusive
      <4>3. CASE u \in Outstanding \ {t} /\ v \in InstallsOf(t)
        BY <2>2, <3>3, <3>4, <4>3 DEF Exclusive
      <4>4. CASE u \in Outstanding \ {t} /\ v \in Outstanding \ {t}
        BY <3>7, <4>4 DEF Exclusive
      <4> QED BY <3>1, <4>1, <4>2, <4>3, <4>4
    <3>8. ASSUME NEW e \in obsolete', NEW u \in Outstanding'
          PROVE  e.row.release.pkg \notin PackagesOf(u)
      <4>1. CASE e \in obsolete /\ u \in Outstanding
        BY <4>1 DEF Exclusive
      <4>2. CASE e \in obsolete /\ u \in InstallsOf(t)
        BY <2>2, <3>3, <3>4, <4>2 DEF Exclusive
      <4>3. CASE e \in ObsoleteOf(t) /\ u \in InstallsOf(t)
        BY <3>2, <3>3, <3>6, <4>3
      <4>4. CASE e \in ObsoleteOf(t) /\ u \in Outstanding \ {t}
        BY <2>2, <3>4, <3>6, <4>4 DEF Exclusive
      <4> QED BY <2>8, <3>1, <4>1, <4>2, <4>3, <4>4
    <3>9. Exclusive'
      BY <2>1, <3>7, <3>8 DEF Exclusive
    <3>10. ASSUME NEW u \in Outstanding', Changes(u)
           PROVE  entry'[u].id = GetEntry(Visible', PackageOf(u)).id
      <4>1. CASE u \in InstallsOf(t)
        BY <2>4, <2>8, <3>2, <3>3, <4>1 DEF EntryFor
      <4>2. CASE u \in Outstanding \ {t}
        <5>1. entry'[u] = entry[u]
          BY <1>1, <2>8, <3>2, <4>2
        <5> QED BY <2>5, <3>10, <4>2, <5>1 DEF EntriesOfNow
      <4> QED BY <3>1, <4>1, <4>2
    <3>11. ASSUME NEW e \in obsolete'
           PROVE  /\ e.row.release.pkg \in Packages
                  /\ e.id = GetEntry(Visible', e.row.release.pkg).id
      <4>1. CASE e \in obsolete
        BY <2>6, <4>1 DEF EntriesOfNow
      <4>2. CASE e \in ObsoleteOf(t)
        <5>1. PICK i \in Ids : e = [id |-> i, row |-> tables.entries[i]] /\ tables.entries[i] # NoRow
          BY <3>6, <4>2
        <5>2. e.id = i /\ e.row = tables.entries[i]
          BY <5>1
        <5>3. PICK pkg : pkg = e.row.release.pkg
          OBVIOUS
        <5>4. pkg \in Packages /\ Names(tables, i, pkg)
          BY <2>8, <3>6, <4>2, <5>1, <5>2, <5>3, RequestTold DEF Names
        <5>5. GetEntry(tables, pkg) = [id |-> i, row |-> tables.entries[i]]
          BY <2>4, <5>4, InstalledAt DEF RegistriesHold, ConsistentTables
        <5> QED BY <2>4, <2>8, <5>2, <5>3, <5>4, <5>5
      <4> QED BY <2>8, <4>1, <4>2
    <3> QED BY <3>9, <3>10, <3>11 DEF EntriesOfNow
  <2>9. CASE Rollback(t) \/ FailInstall(t) \/ CommitInstall(t) \/ CommitUninstall(t) \/ CommitFlags(t)
    BY <2>7, <2>9 DEF Rollback, FailInstall, CommitInstall, CommitUninstall, CommitFlags
  <2>10. CASE CommitSync(t)
    BY <2>7, <2>8, <2>10 DEF CommitSync
  <2> QED BY <1>6, <2>9, <2>10 DEF CommitTask
<1>7. CASE Teardown \/ Restart
  <2>1. /\ next' = {} /\ queues' = <<>> /\ active' = <<>> /\ obsolete' = {}
    BY <1>7 DEF Teardown, Restart, NewTransaction
  <2>2. Outstanding' = {}
    BY <2>1 DEF Outstanding, SeqRange
  <2> QED BY <2>1, <2>2 DEF Exclusive, EntriesOfNow
<1>8. ASSUME ~(\E t \in Requests : CommitTask(t)), ~Restart, ~Teardown, ~Apply, ~PromptObsolete
      PROVE  Goal
  <2>1. Visible' = Visible
    BY <1>8, VisibleKept
  <2>2. ASSUME next' = next, queues' = queues, active' = active PROVE Outstanding' = Outstanding
    BY <2>2 DEF Outstanding
  <2>3. CASE EnterQueue
    <3>1. Queued' = Queued \union next /\ Active' = Active /\ next' = {}
      BY <2>3, EntersQueues DEF EnterQueue, Active
    <3> QED BY <1>2, <1>3, <2>1, <2>3, <3>1 DEF EnterQueue, Exclusive
  <2>4. CASE EndQueue
    <3>1. Queued' = Queued /\ Active' = Active /\ next' = next
      BY <2>4, LeavesQueues DEF EndQueue, Active, PointsTold
    <3> QED BY <1>2, <1>3, <2>1, <2>4, <3>1 DEF EndQueue, PointsTold
  <2>5. CASE \E t \in Requests : StartTask(t)
    <3>1. PICK t \in Requests : StartTask(t)
      BY <2>5
    <3>2. /\ pc = "start" /\ pc' = "start" /\ t \in Queued /\ Queued' = Queued \ {t}
          /\ Active' = Active \/ Active' = Active \union {t}
      BY <3>1, StartMoves
    <3>3. next' = next /\ entry' = entry /\ obsolete' = obsolete
      BY <3>1 DEF StartTask, StartInstall, RefuseInstall, StartUninstall, StartOther
    <3> QED BY <1>2, <1>3, <2>1, <3>2, <3>3
  <2>6. CASE \E t \in Requests : JobsEnd(t)
    BY <1>3, <2>1, <2>2, <2>6 DEF JobsEnd, Exclusive
  <2>7. CASE Abort \/ NextQueue \/ UNCHANGED vars
    BY <1>3, <2>1, <2>2, <2>7 DEF Abort, NextQueue, Exclusive, PointsTold, vars
  <2>8. CASE Committed \/ Recommitted \/ CommitRegistry \/ RegisterQueued
    BY <1>3, <2>1, <2>2, <2>8 DEF Committed, Recommitted, CommitRegistry, RegisterQueued
  <2> QED BY <1>8, <2>3, <2>4, <2>5, <2>6, <2>7, <2>8 DEF Next, MainStep
<1> QED BY <1>4, <1>5, <1>6, <1>7, <1>8 DEF Next, MainStep

(* A user who waits for a package's task before queueing another, and who    *)
(* removes what is installed now, disturbs nothing.                          *)
THEOREM PatientIsUndisturbed ==
  ASSUME ~Impatient, OneTaskEach
  PROVE  Spec /\ QueuesEntriesOfNow => []Undisturbed
<1> DEFINE OfNow == \A t \in next' \ next : t.kind = "uninstall" =>
                      entry'[t].id = GetEntry(tables, t.pkg).id
<1>1. Init => Exclusive /\ EntriesOfNow
  <2> SUFFICES ASSUME Init PROVE Exclusive /\ EntriesOfNow
    OBVIOUS
  <2>1. Outstanding = {} /\ obsolete = {}
    BY DEF Init, Outstanding, SeqRange
  <2> QED BY <2>1 DEF Exclusive, EntriesOfNow
<1>2. TransactionInv /\ TransactionInv' /\ Exclusive /\ EntriesOfNow /\ [Next]_vars /\ [OfNow]_vars
        => Exclusive' /\ EntriesOfNow'
  <2> SUFFICES ASSUME TransactionInv, TransactionInv', Exclusive, EntriesOfNow,
                      [Next]_vars, [OfNow]_vars
               PROVE  Exclusive' /\ EntriesOfNow'
    OBVIOUS
  <2>1. OfNow
    BY DEF vars, queue
  <2> QED BY <2>1, PatientKept
<1>3. TransactionInv /\ Exclusive /\ EntriesOfNow => Undisturbed
  BY ExclusiveUndisturbed
<1> QED BY <1>1, <1>2, <1>3, TransactionIsSound, PTL DEF Spec, QueuesEntriesOfNow

(* Whose tasks are undisturbed has no reused ids either.                     *)
LEMMA UndisturbedIds == TransactionInv /\ Undisturbed => NoReusedIds
<1> SUFFICES ASSUME TransactionInv, Undisturbed, NEW t \in Outstanding, t.kind = "uninstall"
             PROVE  entry[t].id = 0 \/ Names(Visible, entry[t].id, t.pkg)
  BY DEF NoReusedIds
<1>1. t \in Requests
  BY DEF TransactionInv, PlacedOnce, TypeOK
<1>2. t.pkg \in Packages /\ Changes(t) /\ PackageOf(t) = t.pkg
  BY <1>1, RequestTold DEF Changes, PackageOf
<1>3. Visible \in Tables
  BY DEF TransactionInv, TypeOK, RegistriesHold, Visible
<1> QED BY <1>2, <1>3, GetEntryCopy DEF Undisturbed

(* Transactions of such a user keep the files on disk, the action list and   *)
(* the registry in agreement and implement Installer (install.cpp:97-137,    *)
(* task.cpp:44-65, transaction.cpp:145-244).                                 *)
THEOREM PatientTransactions ==
  ASSUME ~Impatient, OneTaskEach
  PROVE  Spec /\ QueuesEntriesOfNow =>
           []DiskAgrees /\ []ScriptsAgree /\ ImplementsInstaller
<1>1. Spec /\ QueuesEntriesOfNow => []Undisturbed
  BY PatientIsUndisturbed
<1>2. TransactionInv /\ Undisturbed => NoReusedIds
  BY UndisturbedIds
<1> QED BY <1>1, <1>2, TransactionIsSound, DiskStaysRight, ScriptsStayRight,
           TransactionImplementsInstaller, PTL
============
