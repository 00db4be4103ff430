---------------------------- MODULE MCVaultSetup ----------------------------
(* VaultSetup with two blocking threads, which are interchangeable. *)
EXTENDS VaultSetup, TLC

CONSTANTS t1, t2

MCThread == {t1, t2}
MCOneThread == {t1}
Threads == Permutations(MCThread)
=============================================================================
