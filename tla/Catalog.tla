------------------------------- MODULE Catalog -------------------------------
(***************************************************************************)
(* Loading an index (index.cpp, index_v1.cpp): what becomes of the elements *)
(* of a repository's XML file, read in document order, each closed before   *)
(* the next of its kind is opened, and of the trees of categories, packages *)
(* versions and sources they make (package.cpp, version.cpp, source.cpp,    *)
(* path.cpp).  The windows and the tasks keep pointers into these trees and *)
(* look packages up in them by name.                                        *)
(***************************************************************************)
EXTENDS Versions, SequencesExt

CONSTANTS
  IndexName,      \* name of the repository
  CategoryNames,  \* names, as the parts of a path; <<>> when missing
  PackageNames,   \* names, "" when missing
  Slashed,        \* those with a slash or a backslash
  Types,          \* of packages and sources, "unknown" and "script" among them
  IndexedTypes,   \* types whose files go below the repository's name
  Texts,          \* names of versions
  Sources,        \* attributes of sources: [type, file, main], file as the parts of a
                  \* path, main the set of words
  MidiTop,        \* parts of categories that read "MIDI Editor"
  Limits          \* numbers of elements a document may have of each kind (bounds)

ASSUME CatalogAssumption ==
  /\ Slashed \subseteq PackageNames
  /\ IndexedTypes \subseteq Types \ {"unknown"} /\ {"unknown", "script"} \subseteq Types
  /\ Sources \subseteq [type : Types, file : Seq(STRING), main : SUBSET STRING]
  /\ CategoryNames \subseteq Seq(STRING)
  /\ Texts \subseteq Seq([number : BOOLEAN, value : Nat])
  /\ Limits \subseteq [{"category", "package", "version", "source"} -> Nat]

VARIABLES
  phase,    \* "reading", "loaded", "failed" (an exception left load())
  index,    \* the Index
  open,     \* what is being read: "index", "category", "package" or "version"
  category, package, version,  \* Category, Package, Version being made
  left      \* elements of each kind the document may still have (a bound)

vars == <<phase, index, open, category, package, version, left>>

NoFunction == [x \in {} |-> 0]
EmptyIndex == [categories |-> <<>>, catMap |-> NoFunction]
NewCategory(name) == [name |-> name, packages |-> <<>>, pkgMap |-> NoFunction]
NewPackage(type, name) == [type |-> type, name |-> name, versions |-> <<>>, targets |-> {}]
NewVersion(name) == [name |-> name, files |-> {}]

Building == <<category, package, version>>

Start ==
  /\ phase' = "reading" /\ index' = EmptyIndex /\ open' = "index"
  /\ category' = NewCategory(<<>>) /\ package' = NewPackage("unknown", "")
  /\ version' = NewVersion(NoVersion) /\ left' \in Limits

Init ==
  /\ phase = "reading" /\ index = EmptyIndex /\ open = "index"
  /\ category = NewCategory(<<>>) /\ package = NewPackage("unknown", "")
  /\ version = NewVersion(NoVersion) /\ left \in Limits

\* std::map::insert: the first value a key was given stays.
MapInsert(f, key, value) ==
  IF key \in DOMAIN f THEN f
  ELSE [x \in DOMAIN f \union {key} |-> IF x = key THEN value ELSE f[x]]

-----------------------------------------------------------------------------
(* Paths: sequences of parts *)

\* Path::append of a string: ".." removes the last part, or is skipped.
append(path, parts, traversal) ==
  LET upTo[k \in 0..Len(parts)] ==
        IF k = 0 THEN path
        ELSE IF parts[k] # ".." THEN Append(upTo[k - 1], parts[k])
        ELSE IF traversal /\ upTo[k - 1] # <<>> THEN Front(upTo[k - 1]) ELSE upTo[k - 1]
  IN upTo[Len(parts)]

\* Mutant: the parts of the category and the file are not put together first.
MutanttargetPath(type, file) ==
  IF type = "unknown" THEN <<>>
  ELSE IF type \in IndexedTypes
    THEN append(append(<<type, IndexName>>, category.name, TRUE), file, TRUE)
  ELSE append(<<type>>, file, FALSE)

\* Source::targetPath; a type stands for its directory.
targetPath(type, file) ==
  IF type = "unknown" THEN <<>>
  ELSE IF type \in IndexedTypes
    THEN <<type, IndexName>> \o append(append(<<>>, category.name, TRUE), file, TRUE)
  ELSE append(<<type>>, file, FALSE)

-----------------------------------------------------------------------------
(* Sections of the action list, as sets of bits *)

Sections == {"main", "midi_editor", "midi_inlineeditor", "midi_eventlisteditor",
             "mediaexplorer", "crossfade_editor"}

\* -1, all bits: for compatibility with v1.0.
ImplicitSection == Sections \union {"other"}

getSection(word) ==
  IF word = "true" THEN ImplicitSection ELSE {word} \intersect Sections

\* Of the first part of the category as a path, if it has one.
detectSection(cat) ==
  LET path == append(<<>>, cat, TRUE)
  IN IF path # <<>> /\ Head(path) \in MidiTop THEN {"midi_editor"} ELSE {"main"}

setSections(type, sections) ==
  IF type # "script" THEN {}
  ELSE IF sections = ImplicitSection THEN detectSection(category.name) ELSE sections

\* Version::addSource: the first source of a path, if it is for this platform.
addSource(ver, source, here) ==
  IF ~here \/ \E f \in ver.files : f.path = source.path THEN ver
  ELSE [ver EXCEPT !.files = @ \union {source}]

-----------------------------------------------------------------------------
(* Elements *)

At(kind) == phase = "reading" /\ open = kind

\* The exception unwinds the readers and load(), which own what they made.
Throw ==
  /\ phase' = "failed" /\ index' = EmptyIndex
  /\ UNCHANGED <<open, Building, left>>

Reading(kind, child) == phase = "reading" /\ open = kind /\ left[child] > 0

Count(kind) == left' = [left EXCEPT ![kind] = @ - 1]

OpenCategory(name) ==
  /\ Reading("index", "category")
  /\ \/ name = <<>> /\ Throw
     \/ /\ name # <<>> /\ Count("category")
        /\ open' = "category" /\ category' = NewCategory(name)
        /\ UNCHANGED <<phase, index, package, version>>

OpenPackage(type, name) ==
  /\ Reading("category", "package")
  /\ \/ name \in Slashed \union {""} /\ Throw
     \/ /\ name \notin Slashed \union {""} /\ Count("package")
        /\ open' = "package" /\ package' = NewPackage(type, name)
        /\ UNCHANGED <<phase, index, category, version>>

OpenVersion(text) ==
  /\ Reading("package", "version")
  /\ \/ Invalid(text) /\ Throw
     \/ /\ ~Invalid(text) /\ Count("version")
        /\ open' = "version" /\ version' = NewVersion(parse(text))
        /\ UNCHANGED <<phase, index, category, package>>

\* Source::type and Source::file: a source may have a type of its own, and takes the
\* name of its package.
typeOf(src) == IF src.type # "unknown" THEN src.type ELSE package.type
fileOf(src) == IF src.file # <<>> THEN src.file ELSE <<package.name>>

\* LoadSourceV1: a source has an address.
AddSource(src, here, url) ==
  LET type == typeOf(src)
      path == targetPath(type, fileOf(src))
      named == UNION {getSection(word) : word \in src.main}
  IN /\ Reading("version", "source")
     /\ \/ ~url /\ Throw
        \/ /\ url /\ Count("source")
           /\ version' = addSource(version, [path |-> path, sections |-> setSections(type, named)],
                                   here)
           /\ UNCHANGED <<phase, index, open, category, package>>

\* Package::addVersion
CloseVersion ==
  /\ At("version")
  /\ \/ version.files # {} /\ HasVersion(package.versions, version.name) /\ Throw
     \/ /\ version.files = {} \/ ~HasVersion(package.versions, version.name)
        /\ open' = "package"
        /\ package' = IF version.files = {} THEN package
                      ELSE [package EXCEPT !.versions = insert(@, version.name),
                                           !.targets = @ \union version.files]
        /\ version' = NewVersion(NoVersion)
        /\ UNCHANGED <<phase, index, category, left>>

\* Category::addPackage
ClosePackage ==
  /\ At("package") /\ open' = "category"
  /\ category' =
       IF package.type = "unknown" \/ package.versions = <<>> THEN category
       ELSE [category EXCEPT !.packages = Append(@, package),
                             !.pkgMap = MapInsert(@, package.name, Len(category.packages) + 1)]
  /\ package' = NewPackage("unknown", "")
  /\ UNCHANGED <<phase, index, version, left>>

\* Mutant: a category is given its place before it is found to be empty.
MutantaddCategory(ri, cat) ==
  [categories |-> IF cat.packages = <<>> THEN ri.categories ELSE Append(ri.categories, cat),
   catMap |-> MapInsert(ri.catMap, cat.name, Len(ri.categories) + 1)]

addCategory(ri, cat) ==
  IF cat.packages = <<>> THEN ri
  ELSE [categories |-> Append(ri.categories, cat),
        catMap |-> MapInsert(ri.catMap, cat.name, Len(ri.categories) + 1)]

CloseCategory ==
  /\ At("category") /\ open' = "index"
  /\ index' = addCategory(index, category)
  /\ category' = NewCategory(<<>>)
  /\ UNCHANGED <<phase, package, version, left>>

EndOfFile ==
  /\ At("index") /\ phase' = "loaded"
  /\ UNCHANGED <<index, open, Building, left>>

\* The file was downloaded again.
Reload == phase # "reading" /\ Start

Next ==
  \/ \E name \in CategoryNames : OpenCategory(name)
  \/ \E type \in Types, name \in PackageNames : OpenPackage(type, name)
  \/ \E text \in Texts : OpenVersion(text)
  \/ \E src \in Sources, here, url \in BOOLEAN : AddSource(src, here, url)
  \/ CloseVersion
  \/ ClosePackage
  \/ CloseCategory
  \/ EndOfFile
  \/ Reload

Spec == Init /\ [][Next]_vars

-----------------------------------------------------------------------------
(* Queries *)

\* Index::packages, with the name of their category.
packages ==
  UNION {{[category |-> index.categories[c].name, package |-> index.categories[c].packages[i]] :
            i \in DOMAIN index.categories[c].packages} : c \in DOMAIN index.categories}

\* Index::find: {} for nullptr.
find(cat, name) ==
  IF cat \notin DOMAIN index.catMap THEN {}
  ELSE LET c == index.categories[index.catMap[cat]]
       IN IF name \notin DOMAIN c.pkgMap THEN {} ELSE {c.packages[c.pkgMap[name]]}

\* SynchronizeTask::synchronize: the version it installs over one whose files
\* are there, {} when it leaves the package alone.
synchronize(pkg, installed, pres, pinned) ==
  LET latest == lastVersion(pkg.versions, pres, installed)
  IN IF latest = Absent \/ Same(latest, installed) \/ pinned \/ Less(latest, installed) THEN {}
     ELSE {latest}

(* receipt.cpp: what is told of an installed package *)

\* InstallTicket::deduceType, of a version over the previous one.
deduceType(v, previous) ==
  IF Less(previous, v) THEN "update" ELSE IF Less(v, previous) THEN "downgrade" ELSE "reinstall"

\* Versions whose changes the ticket shows, from top to bottom.
Changelog(pkg, v, previous) ==
  LET newest == Reverse(pkg.versions)
      stop == {i \in DOMAIN newest : ~Less(previous, newest[i])}
      Told == {i \in DOMAIN newest : (\A j \in stop : i < j) /\ ~Less(v, newest[i])}
      told[i \in 0..Len(newest)] ==
        IF i = 0 THEN <<>>
        ELSE IF i \in Told THEN Append(told[i - 1], newest[i]) ELSE told[i - 1]
  IN IF deduceType(v, previous) # "update" THEN <<v>> ELSE told[Len(newest)]

-----------------------------------------------------------------------------
(* Properties *)

\* std::set keeps versions apart and in order only if the comparison of names
\* is one order for all texts: every version of a package is less than the ones
\* after it, and not the other way around, however the file lists them.
VersionsAreOrdered ==
  \A vs \in {e.package.versions : e \in packages} \union {package.versions} :
    \A i, j \in DOMAIN vs : i < j => Less(vs[i], vs[j]) /\ ~Less(vs[j], vs[i])

\* The index answers by name what it lists: a package of a category listed once
\* is found, and what is found is listed under the names asked for.  Positions
\* of elements that were dropped would break it.
FindFinds ==
  phase = "loaded" =>
    /\ \A cat \in DOMAIN index.catMap : index.catMap[cat] \in DOMAIN index.categories
    /\ \A e \in packages :
         (\E c, d \in DOMAIN index.categories :
            c # d /\ index.categories[c].name = e.category /\ index.categories[d].name = e.category)
         \/ find(e.category, e.package.name) # {}
    /\ \A cat \in CategoryNames, name \in PackageNames : \A p \in find(cat, name) :
         p.name = name /\ [category |-> cat, package |-> p] \in packages

\* Synchronizing goes forward: whatever is installed, it installs the newest of
\* the newer versions, a pre-release only when pre-releases are enabled or when
\* one is installed and no stable version is newer, and nothing else.  What it tells
\* of an update are the changes since: all versions between, the new one on top.
UpdatesGoForward ==
  phase = "loaded" =>
    \A e \in packages, text \in {t \in Texts : ~Invalid(t)}, pres \in BOOLEAN :
      LET from == parse(text)
          Newer == {v \in ToSet(e.package.versions) : Less(from, v)}
          Allowed == {v \in Newer : v.stable \/ pres}
          Wanted == IF Allowed # {} \/ from.stable THEN Allowed ELSE Newer
      IN /\ synchronize(e.package, from, pres, FALSE) =
              {v \in Wanted : \A w \in Wanted : ~Less(v, w)}
         /\ \A v \in Newer :
              LET told == Changelog(e.package, v, from)
              IN /\ told # <<>> /\ Head(told) = v
                 /\ ToSet(told) = {w \in Newer : ~Less(v, w)}

\* Whatever categories and files are called, a file is installed in the directory
\* of its type, a script in that of its repository; only scripts are actions, in
\* sections that the action list has, which transaction.cpp:266 asserts.
FilesGoWhereTheyBelong ==
  \A e \in packages : \A f \in e.package.targets :
    /\ f.path # <<>> /\ Head(f.path) \in Types \ {"unknown"}
    /\ Head(f.path) \in IndexedTypes => Len(f.path) >= 2 /\ f.path[2] = IndexName
    /\ f.sections \subseteq Sections
    /\ f.sections # {} => Head(f.path) = "script"
=============================================================================
