----------------------------- MODULE MCListing -----------------------------
(* The listings on a small table. *)
EXTENDS Listing, TLC
=============================================================================
