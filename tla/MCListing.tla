------------------------------ MODULE MCListing ------------------------------
(* Listing for TLC: page sizes below, within and above what is served. *)
EXTENDS Listing

ClientLimits == -1..3
==============================================================================
