----------------------------- MODULE MCMainWindow -----------------------------
(***************************************************************************)
(* The torrent files are alike: nothing in the code compares their names,  *)
(* and the safety runs need only one of the orders of them.                *)
(***************************************************************************)
EXTENDS MainWindow, TLC

Symmetry == Permutations(Name)
==============================================================================
