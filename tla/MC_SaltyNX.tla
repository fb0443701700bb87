----------------------------- MODULE MC_SaltyNX -----------------------------
(* SaltyNX with a page of six words, blocks of two, allocations of three. *)
EXTENDS SaltyNX
=============================================================================
