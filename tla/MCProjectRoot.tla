---------------------------- MODULE MCProjectRoot ----------------------------
(* Two accounts; sec and ver are the contracts of the project, h1 its      *)
(* handler.                                                                *)
EXTENDS ProjectRoot
CONSTANTS owner, deployer, sec, ver, h1
=============================================================================
