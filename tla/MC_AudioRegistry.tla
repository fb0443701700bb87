-------------------------- MODULE MC_AudioRegistry --------------------------
(* AudioRegistry with two game threads, one of which creates players, and  *)
(* one player more than slots.                                             *)
EXTENDS AudioRegistry
=============================================================================
