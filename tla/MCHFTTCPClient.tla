--------------------------- MODULE MCHFTTCPClient ---------------------------
(* Small instances of HFTTCPClient for TLC.                                *)
EXTENDS HFTTCPClient, TLC

TwoFds == 1..2

\* Messages can be told apart by nothing but their place; sound for the runs
\* without liveness.
MessageSymmetry == Permutations(Messages)
=============================================================================
