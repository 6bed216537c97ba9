------------------------------- MODULE Windows -------------------------------
(***************************************************************************)
(* The windows that are made of lists.  They share the code of the lists    *)
(* and no state: each is used while the other is as it was created, which   *)
(* bounds the states and hides none of theirs.                              *)
(***************************************************************************)
EXTENDS ListWindows, AboutWindow

WindowsInit == ListInit /\ AboutInit

WindowsNext ==
  \/ delegate = None /\ ListNext /\ UNCHANGED aboutVars
  \/ rowCount(list) = 0 /\ list.filter = AllRows /\ pc = "rest" /\ window = "browser"
     /\ AboutNext /\ UNCHANGED listVars

WindowsSpec == WindowsInit /\ [][WindowsNext]_<<listVars, aboutVars>>
=============================================================================
