--------------------------- MODULE MCVendorItems ---------------------------
(***************************************************************************)
(* VendorItems for TLC.  Ids and values are interchangeable.               *)
(***************************************************************************)
EXTENDS VendorItems, TLC

Symmetry == Permutations(Ids) \cup Permutations(Vals)
=============================================================================
