---------------------------- MODULE VaultMutexMC ----------------------------
(* Values for model checking VaultMutex: three calls, two vaults.          *)
EXTENDS VaultMutex

CONSTANTS c1, c2, c3, k1, k2

ThreeCalls == {c1, c2, c3}
TwoKeys    == {k1, k2}
=============================================================================
