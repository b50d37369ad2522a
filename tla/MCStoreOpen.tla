----------------------------- MODULE MCStoreOpen -----------------------------
(* Small instances of StoreOpen for TLC.                                   *)
EXTENDS StoreOpen, TLC
=============================================================================
