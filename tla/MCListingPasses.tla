-------------------------- MODULE MCListingPasses --------------------------
(***************************************************************************)
(* ListingPasses on small instances.                                        *)
(***************************************************************************)
EXTENDS ListingPasses
=============================================================================
