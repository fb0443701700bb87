--------------------------- MODULE MC_RwlockShim ---------------------------
(* RwlockShim with a producer and two consumers, so that both kinds of     *)
(* thread may allocate each word, and two threads sleep at once.           *)
EXTENDS RwlockShim
=============================================================================
