----------------------------- MODULE MCWatcher ------------------------------
(***************************************************************************)
(* Watcher with Main.js and one script that it may load.                   *)
(***************************************************************************)
EXTENDS Watcher

CONSTANTS main, lib

MCLibs == {lib}
=============================================================================
