---------------------------- MODULE MCServerMain ----------------------------
(* Small instances of ServerMain for TLC.                                  *)
EXTENDS ServerMain
=============================================================================
