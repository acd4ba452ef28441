---------------------------- MODULE MCShellStore ----------------------------
(* The page with the values TLC checks it with.                             *)
EXTENDS ShellStore
=============================================================================
