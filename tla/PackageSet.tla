----------------------------- MODULE PackageSet -----------------------------
(***************************************************************************)
(* What the registry promises: a set of installed packages, at most one     *)
(* release of each, no file owned by two of them.  A step installs or       *)
(* replaces one package as a whole, removes one as a whole, or goes back to *)
(* a snapshot.                                                              *)
(***************************************************************************)
EXTENDS Naturals, Sequences

CONSTANTS Packages,
          Releases,     \* records with at least the fields pkg and files
          NotInstalled, \* not a release
          MaxDepth      \* bound on the nesting of snapshots

VARIABLES installed, \* the release of each package, or NotInstalled
          saved      \* the stack of snapshots, innermost last

vars == <<installed, saved>>

Init ==
  /\ installed = [p \in Packages |-> NotInstalled]
  /\ saved = <<>>

\* No package other than r's own has a file of r.
Free(r) ==
  \A p \in Packages \ {r.pkg} :
    installed[p] # NotInstalled => installed[p].files \cap r.files = {}

Install(r) ==
  /\ Free(r)
  /\ installed' = [installed EXCEPT ![r.pkg] = r]
  /\ UNCHANGED saved

Remove(p) ==
  /\ installed' = [installed EXCEPT ![p] = NotInstalled]
  /\ UNCHANGED saved

Savepoint ==
  /\ Len(saved) < MaxDepth
  /\ saved' = Append(saved, installed)
  /\ UNCHANGED installed

Restore ==
  /\ Len(saved) > 0
  /\ installed' = saved[Len(saved)]
  /\ saved' = SubSeq(saved, 1, Len(saved) - 1)

Next ==
  \/ \E r \in Releases : Install(r)
  \/ \E p \in Packages : Remove(p)
  \/ Savepoint
  \/ Restore

Spec == Init /\ [][Next]_vars
=============================================================================
