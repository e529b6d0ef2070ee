---------------------------- MODULE MCHFTServer ----------------------------
(***************************************************************************)
(* Small instances of HFTServer for TLC.                                   *)
(***************************************************************************)
EXTENDS HFTServer, TLC

OneFd == {1}
TwoFds == 1..2

\* Peers, heap addresses and workers are interchangeable; descriptors are not
\* (accept() hands out the lowest).  Safety runs only.
Symmetry == Permutations(Peers) \cup Permutations(Conns) \cup Permutations(Workers)
=============================================================================
