----------------------------- MODULE Installer -----------------------------
(***************************************************************************)
(* What a transaction promises its user: only packages that were asked for  *)
(* are installed, replaced or removed, each as a whole and never over a     *)
(* file of another package; what the transaction did becomes durable at     *)
(* once, at its end, or is lost as a whole.                                 *)
(***************************************************************************)
CONSTANTS Packages,
          Requests,     \* records with at least the field kind, "install" with
                        \* a release, or "uninstall" with pkg
          NotInstalled, \* not a release
          Initially     \* the release of each package at first

VARIABLES asked,     \* requests of the current transaction
          installed, \* the release of each package, or NotInstalled
          durable    \* the same, as of the last finished transaction

vars == <<asked, installed, durable>>

Init ==
  /\ asked = {}
  /\ installed = Initially
  /\ durable = Initially

Ask ==
  /\ \E more \in SUBSET Requests : asked' = asked \union more
  /\ UNCHANGED <<installed, durable>>

Free(r) ==
  \A p \in Packages \ {r.pkg} :
    installed[p] # NotInstalled => installed[p].files \cap r.files = {}

Install(t) ==
  /\ t.kind = "install"
  /\ Free(t.release)
  /\ installed' = [installed EXCEPT ![t.release.pkg] = t.release]
  /\ UNCHANGED <<asked, durable>>

Remove(t) ==
  /\ t.kind = "uninstall"
  /\ installed' = [installed EXCEPT ![t.pkg] = NotInstalled]
  /\ UNCHANGED <<asked, durable>>

Finish ==
  /\ durable' = installed
  /\ UNCHANGED <<asked, installed>>

NextTransaction ==
  /\ installed = durable
  /\ asked' = {}
  /\ UNCHANGED <<installed, durable>>

Lose ==
  /\ installed' = durable
  /\ asked' = {}
  /\ UNCHANGED durable

Next ==
  \/ Ask
  \/ \E t \in asked : Install(t) \/ Remove(t)
  \/ Finish
  \/ NextTransaction
  \/ Lose

Spec == Init /\ [][Next]_vars
=============================================================================
