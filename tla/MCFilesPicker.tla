---------------------------- MODULE MCFilesPicker ----------------------------
(***************************************************************************)
(* A torrent whose files are not grouped by directory, and one with a file  *)
(* before its directories.                                                  *)
(***************************************************************************)
EXTENDS FilesPicker

Late    == << <<"t", "x">>, <<"t", "a", "y">>, <<"t", "b", "z">> >>
Mixed   == << <<"t", "a", "x">>, <<"t", "y">>, <<"t", "a", "z">> >>

Ungrouped == {Mixed, Late}
==============================================================================
