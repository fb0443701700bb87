---------------------------- MODULE MC_MainLoop ----------------------------
(* MainLoop with the four buttons whose native bits overlap, and a panel   *)
(* two positions wide.                                                     *)
EXTENDS MainLoop
=============================================================================
