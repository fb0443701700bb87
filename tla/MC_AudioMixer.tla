--------------------------- MODULE MC_AudioMixer ---------------------------
(* AudioMixer with one game thread, a ring of three slots and blocks of    *)
(* three frames.                                                           *)
EXTENDS AudioMixer
=============================================================================
