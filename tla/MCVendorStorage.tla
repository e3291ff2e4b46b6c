-------------------------- MODULE MCVendorStorage --------------------------
(***************************************************************************)
(* VendorStorage for TLC, with the assumption that its proofs make on the  *)
(* number of failed writes.                                                *)
(***************************************************************************)
EXTENDS VendorStorageProofs
=============================================================================
