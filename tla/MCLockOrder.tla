----------------------------- MODULE MCLockOrder -----------------------------
(* LockOrder for TLC.                                                      *)
EXTENDS LockOrder
=============================================================================
